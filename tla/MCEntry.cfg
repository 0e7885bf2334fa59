CONSTANTS
  Actors = {a1, a2, a3}
  Inputs = {i1, i2}
  MaxTokens = 3
  MaxHitches = 1
  MaxWrites = 2
  MaxBreakdowns = 2
  MaxSaid = 2
  QueryLimit = 2
  MaxFaults = 2
  Consoles = {p1, p2}
  Contexts = {c1}
  MaxNotes = 1
  MaxAccidents = 2
  Words = {"help", "runs", "check", "h", "dev", "set", "entry", "con"}
  Devices = {"con"}
  Tokens = {"x", "run", "ctx", "help", "runs", "check", "edit", "children"}
  Contracts = {"contract"}
  Protocols = {"p", "module check"}
  MaxFacets = 2
  MaxKinds = 2
  MaxTemplates = 3
  MaxArguments = 3
  Help <- HelpAt
  Check <- CheckAt
  RunsCommand <- RunsAt
  HelpAliases <- AliasesAt
  Settings <- SettingsAt
  BuiltIn <- BuiltInAt
SPECIFICATION MCSpec
SYMMETRY Symmetry
CHECK_DEADLOCK FALSE
INVARIANTS ReadyIsForTheProfile RunOwnsItsProcesses  AnswerIsWhole
PROPERTIES ResolvedAsPublished NoEditIsLost 
