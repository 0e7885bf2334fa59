CONSTANTS
  Readers = {a, b}
  Capacity = 2
  MaxEvents = 4
  WindowSize = 2
  MaxSent = 3
  MaxVersion = 2
SPECIFICATION MCSpec
SYMMETRY Symmetry
INVARIANTS
  NormalEndIsComplete
  RunningIsGuarded
  InterruptedOwnerIsGone
  SinglePublisher
  
  KeepsAsking
  
PROPERTIES
  EndIsFinal
  LogSpec
