CONSTANTS
  Runs = {r1, r2, r3}
  Deletes = {}
  Queries = {q1}
  Host = Host
  MaxActive = 2
  MaxTerminal = 1
  TerminateCanFail = FALSE
SPECIFICATION Spec
PROPERTIES
  CapacityRefusalIsTrue
