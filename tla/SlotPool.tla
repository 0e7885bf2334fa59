------------------------------ MODULE SlotPool ------------------------------
(***************************************************************************)
(* What MAX_ACTIVE_RUNS promises: of all the tasks that may want to work,  *)
(* no more than Slots ever work at the same time, and none works twice.    *)
(***************************************************************************)
EXTENDS Integers, FiniteSets

CONSTANTS Tasks, Slots

VARIABLES working,  \* the tasks that run now
          spent     \* the tasks that have run

Init == working = {} /\ spent = {}

Take(t) ==
  /\ t \notin working \cup spent
  /\ Cardinality(working) < Slots
  /\ working' = working \cup {t}
  /\ UNCHANGED spent

Give(done) ==
  /\ done \subseteq working
  /\ working' = working \ done
  /\ spent' = spent \cup done

Next == \/ \E t \in Tasks : Take(t)
        \/ \E done \in SUBSET Tasks : Give(done)

Spec == Init /\ [][Next]_<<working, spent>>
=============================================================================
