CONSTANTS
  Users = {a, b}
  Coordinators = {c}
  CanFail = TRUE
SPECIFICATION FairSpec
INVARIANTS SingleHost NoStaleAdvertisement NoUninvitedLaunch
PROPERTIES AcceptedIsFinal 
