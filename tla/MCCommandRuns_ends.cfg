CONSTANTS
  Runs = {r1}
  Deletes = {d1, d2}
  Queries = {}
  Host = Host
  MaxActive = 1
  MaxTerminal = 1
  TerminateCanFail = TRUE
SPECIFICATION FairSpec
INVARIANTS
  ReportedEndIsDurable
PROPERTIES
  TerminalIsFinal
  CancelingSettles
  HostExitReclaims
