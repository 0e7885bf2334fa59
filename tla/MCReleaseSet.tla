---------------------------- MODULE MCReleaseSet ----------------------------
(* The model-checking instance of ReleaseSet.                              *)
EXTENDS ReleaseSet, TLC

Symmetry ==
  Permutations(Releases) \cup Permutations(Publishers) \cup Permutations(Cleaners)
    \cup Permutations(Launches)
=============================================================================
