CONSTANTS
  Readers = {a, b}
  Capacity = 2
  MaxEvents = 2
SPECIFICATION Spec
INVARIANTS
  ClosedJournalIsWhole
