--------------------------- MODULE MCCommandRuns ---------------------------
(* Model-checking instances of CommandRuns.                                *)
EXTENDS CommandRuns, TLC

Symmetry == Permutations(Runs)
=============================================================================
