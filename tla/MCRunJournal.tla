---------------------------- MODULE MCRunJournal ----------------------------
(* The model-checking instance of the events of a run: their journal, and   *)
(* the page that follows them.  A behaviour is about one of the two.        *)
EXTENDS RunJournal, RunStream, TLC

VARIABLE part

MCInit == part \in {"journal", "page"} /\ Init /\ StreamInit

MCNext ==
  /\ UNCHANGED part
  /\ \/ part = "journal" /\ Next       /\ UNCHANGED streamVars
     \/ part = "page"    /\ StreamNext /\ UNCHANGED vars

MCSpec == MCInit /\ [][MCNext]_<<part, vars, streamVars>>

Symmetry == Permutations(Readers)
=============================================================================
