CONSTANTS
  Runs = {r1}
  Deletes = {}
  Queries = {}
  Host = Host
  MaxActive = 1
  MaxTerminal = 1
  TerminateCanFail = FALSE
SPECIFICATION FairSpec
PROPERTIES
  ShutdownReturns
