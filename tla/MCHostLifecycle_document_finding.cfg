CONSTANTS
  Users = {a, b}
  Coordinators = {c}
  CanFail = FALSE
SPECIFICATION Spec
PROPERTIES RemovesOnlyItsOwn
