---------------------------- MODULE MCDataRoots -----------------------------
(* The model-checking instance of DataRoots.                               *)
EXTENDS DataRoots, TLC

Symmetry ==
  Permutations(Procs) \cup Permutations(Names) \cup Permutations(Ids) \cup Permutations(Dirs)
=============================================================================
