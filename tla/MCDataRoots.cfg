CONSTANTS
  Procs = {p1, p2}
  Names = {n1, n2}
  Ids = {i1, i2}
  Dirs = {d1, d2, d3}
  Absent = Absent
  Missing = Missing
  Invalid = Invalid
  None = None
SPECIFICATION Spec
SYMMETRY Symmetry
INVARIANTS BoundIsMine OneRootPerIdentity
PROPERTIES TakesOnlyWhatWasShown NothingIsLost
