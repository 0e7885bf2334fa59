CONSTANTS
  Releases = {r1, r2}
  Publishers = {u1, u2}
  Cleaners = {c1, c2}
  Launches = {p1, p2}
SPECIFICATION Spec
SYMMETRY Symmetry
INVARIANTS SelectedIsWhole
PROPERTIES UsersKept
