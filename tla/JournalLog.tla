----------------------------- MODULE JournalLog -----------------------------
(***************************************************************************)
(* What the journal of one run promises to whoever reads it: a sequence of *)
(* events that grows while the run is running, and one end, after which    *)
(* nothing changes.  The machine may lose the last events of a run that is *)
(* not over, or whose end does not vouch for them.                         *)
(***************************************************************************)
EXTENDS Naturals

CONSTANTS Ends,  \* the ways a run can end
          Lossy  \* the ends that do not vouch for the events

VARIABLES length,  \* how many events the journal holds
          end      \* "none", "running" or one of Ends

Init == length = 0 /\ end = "none"

Begin  == end = "none" /\ end' = "running" /\ UNCHANGED length
Append == end = "running" /\ length' = length + 1 /\ UNCHANGED end
End(e) == end = "running" /\ end' = e /\ UNCHANGED length

Lose   == end \in {"running"} \cup Lossy /\ length' \in 0 .. length /\ UNCHANGED end

Next == Begin \/ Append \/ Lose \/ \E e \in Ends : End(e)

Spec == Init /\ [][Next]_<<length, end>>
=============================================================================
