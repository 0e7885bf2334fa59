CONSTANTS
  Runs = {r1, r2}
  Deletes = {}
  Queries = {q1}
  Host = Host
  MaxActive = 2
  MaxTerminal = 1
  TerminateCanFail = TRUE
SPECIFICATION Spec
SYMMETRY Symmetry
INVARIANTS
  SlotsAccounted
  LiveRunsReachable
  QuietShutdown
PROPERTIES
  PoolSpec
