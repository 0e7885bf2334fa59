-------------------------- MODULE CommandRunsProofs --------------------------
(***************************************************************************)
(* Proofs about CommandRuns, for any set of runs, queries and DELETE       *)
(* requests and any two limits.                                            *)
(***************************************************************************)
EXTENDS CommandRuns, FiniteSetTheorems, TLAPS

(* A cancel call that answers keeps the shape of a call. *)
LEMMA AnswerTyped ==
  ASSUME call \in [Callers -> Calls], NEW c \in Callers, NEW ok \in BOOLEAN, Answer(c, ok)
  PROVE  call' \in [Callers -> Calls]
<1>1. call[c] \in Calls
  OBVIOUS
<1>2. [call[c] EXCEPT !.pc = "answered", !.ok = ok] \in Calls
  BY <1>1 DEF Calls
<1>3. call' = [call EXCEPT ![c] = [call[c] EXCEPT !.pc = "answered", !.ok = ok]]
  BY DEF Answer
<1>. QED
  BY <1>2, <1>3

(* Every variable keeps its type, in particular the slot counter stays a    *)
(* natural number although three different places subtract from it.         *)
THEOREM TypeCorrect == Spec => []TypeOK
<1>1. Init => TypeOK
  BY LimitAssumption DEF Init, TypeOK, NoCall, Calls, InStart, Refusals, Live, Terminal, Callers
<1>2. TypeOK /\ [Next]_vars => TypeOK'
  <2> SUFFICES ASSUME TypeOK, [Next]_vars PROVE TypeOK'
    OBVIOUS
  <2> USE DEF TypeOK, InStart, Refusals, Live, Terminal, Callers, registryVars, runVars
  <2>1. ASSUME NEW r \in Runs, RefuseStart(r) PROVE TypeOK'
    BY <2>1 DEF RefuseStart, Refuse, Forget
  <2>2. ASSUME NEW r \in Runs, Register(r) PROVE TypeOK'
    BY <2>2 DEF Register
  <2>3. ASSUME NEW r \in Runs, Spawn(r) PROVE TypeOK'
    BY <2>3 DEF Spawn
  <2>4. ASSUME NEW r \in Runs, AttachControl(r) PROVE TypeOK'
    BY <2>4 DEF AttachControl
  <2>5. ASSUME NEW r \in Runs, FailComplete(r) PROVE TypeOK'
    BY <2>5 DEF FailComplete, Complete, Settle
  <2>6. ASSUME NEW r \in Runs, RemoveFailedStart(r) PROVE TypeOK'
    BY <2>6 DEF RemoveFailedStart, Forget, ReleaseSlot
  <2>7. ASSUME NEW r \in Runs, Exit(r) PROVE TypeOK'
    BY <2>7 DEF Exit
  <2>8. ASSUME NEW r \in Runs, AppendFails(r) PROVE TypeOK'
    BY <2>8 DEF AppendFails
  <2>9. ASSUME NEW r \in Runs, MonitorComplete(r) PROVE TypeOK'
    BY <2>9 DEF MonitorComplete, Reap, Complete, Settle
  <2>10. ASSUME NEW r \in Runs, MonitorRelease(r) PROVE TypeOK'
    BY <2>10 DEF MonitorRelease, Completed, Forget, ReleaseSlot
  <2>11. ASSUME NEW c \in Callers, NEW r \in Runs, CancelMark(c, r) PROVE TypeOK'
    <3>1. CASE status[r] = "running"
      BY <2>11, <3>1 DEF CancelMark, Calls
    <3>2. CASE status[r] # "running"
      BY <2>11, <3>2, AnswerTyped DEF CancelMark
    <3>. QED
      BY <3>1, <3>2
  <2>12. ASSUME NEW c \in Callers, NEW r \in Runs, CancelTerminate(c, r) PROVE TypeOK'
    <3>1. CASE control[r] /\ proc' = [proc EXCEPT ![r] = "dead"] /\ Answer(c, TRUE)
      BY <2>12, <3>1, AnswerTyped DEF CancelTerminate
    <3>2. CASE call' = [call EXCEPT ![c].pc = "rollback"] /\ UNCHANGED proc
      BY <2>12, <3>2 DEF CancelTerminate, Calls
    <3>. QED
      BY <2>12, <3>1, <3>2 DEF CancelTerminate
  <2>13. ASSUME NEW c \in Callers, NEW r \in Runs, CancelRollback(c, r) PROVE TypeOK'
    BY <2>13, AnswerTyped DEF CancelRollback
  <2>14. ASSUME NEW c \in Deletes, NEW r \in Runs, CancelFind(c, r) PROVE TypeOK'
    BY <2>14 DEF CancelFind, Find, Calls
  <2>15. ASSUME NEW q \in Queries, QueryReserve(q) PROVE TypeOK'
    BY <2>15 DEF QueryReserve
  <2>16. ASSUME NEW q \in Queries, QueryRelease(q) PROVE TypeOK'
    BY <2>16 DEF QueryRelease, Completed, Forget, ReleaseSlot
  <2>17. ASSUME ShutdownClose PROVE TypeOK'
    BY <2>17 DEF ShutdownClose
  <2>18. ASSUME NEW r \in Runs, ShutdownCancel(r) PROVE TypeOK'
    BY <2>18 DEF ShutdownCancel, Find, Calls
  <2>19. ASSUME ShutdownCanceled PROVE TypeOK'
    BY <2>19 DEF ShutdownCanceled, NoCall, Calls
  <2>20. ASSUME ShutdownJoining PROVE TypeOK'
    BY <2>20 DEF ShutdownJoining
  <2>21. ASSUME NEW r \in Runs, ShutdownJoin(r) PROVE TypeOK'
    BY <2>21 DEF ShutdownJoin
  <2>22. ASSUME ShutdownReturn PROVE TypeOK'
    BY <2>22 DEF ShutdownReturn
  <2>23. ASSUME DropRegistry PROVE TypeOK'
    BY <2>23 DEF DropRegistry
  <2>24. ASSUME HostExit PROVE TypeOK'
    BY <2>24 DEF HostExit
  <2>25. CASE UNCHANGED vars
    BY <2>25 DEF vars
  <2>. QED
    BY <2>1, <2>2, <2>3, <2>4, <2>5, <2>6, <2>7, <2>8, <2>9, <2>10, <2>11, <2>12, <2>13, <2>14, <2>15, <2>16, <2>17, <2>18, <2>19, <2>20, <2>21, <2>22, <2>23, <2>24, <2>25
       DEF Next, StartStep, MonitorStep, CancelStep, ShutdownStep, Finished
<1>. QED
  BY <1>1, <1>2, PTL DEF Spec

-----------------------------------------------------------------------------
(* How the stages of one run's threads fit together: the part of the        *)
(* inductive invariant that speaks of one run at a time.                    *)
Stages ==
  \A r \in Runs :
    /\ starter[r] \in {"idle"} \cup Refusals <=> status[r] = "absent"
    /\ starter[r] \in {"failing", "failed"} => IsTerminal(r)
    /\ monitor[r] # "none" <=> starter[r] \in {"spawned", "answered"}
    /\ proc[r] # "none" <=> monitor[r] # "none"
    /\ proc[r] = "alive" => monitor[r] = "waiting"
    /\ control[r] => starter[r] = "answered"
    /\ journal[r] \in Terminal => IsTerminal(r)

(* The limit on the counter itself. *)
Limited == active <= MaxActive

(* The stages fit together in every reachable state; the theorems below     *)
(* rest on it.                                                              *)
THEOREM StagesCorrect == Spec => []Stages
<1>1. Init => Stages
  BY DEF Init, Stages, Refusals, Terminal
<1>2. TypeOK /\ Stages /\ [Next]_vars => Stages'
  <2> SUFFICES ASSUME TypeOK, Stages, [Next]_vars PROVE Stages'
    OBVIOUS
  <2> USE DEF TypeOK, Stages, InStart, Refusals, Live, Terminal, IsTerminal, registryVars, runVars
  <2>1. ASSUME NEW r \in Runs, RefuseStart(r) PROVE Stages'
    BY <2>1 DEF RefuseStart, Refuse
  <2>2. ASSUME NEW r \in Runs, Register(r) PROVE Stages'
    BY <2>2 DEF Register
  <2>3. ASSUME NEW r \in Runs, Spawn(r) PROVE Stages'
    BY <2>3 DEF Spawn
  <2>4. ASSUME NEW r \in Runs, AttachControl(r) PROVE Stages'
    BY <2>4 DEF AttachControl
  <2>5. ASSUME NEW r \in Runs, FailComplete(r) PROVE Stages'
    BY <2>5 DEF FailComplete, Complete, Settle
  <2>6. ASSUME NEW r \in Runs, RemoveFailedStart(r) PROVE Stages'
    BY <2>6 DEF RemoveFailedStart
  <2>7. ASSUME NEW r \in Runs, Exit(r) PROVE Stages'
    BY <2>7 DEF Exit
  <2>8. ASSUME NEW r \in Runs, AppendFails(r) PROVE Stages'
    BY <2>8 DEF AppendFails
  <2>9. ASSUME NEW r \in Runs, MonitorComplete(r) PROVE Stages'
    BY <2>9 DEF MonitorComplete, Reap, Complete, Settle
  <2>10. ASSUME NEW r \in Runs, MonitorRelease(r) PROVE Stages'
    BY <2>10 DEF MonitorRelease
  <2>11. ASSUME NEW c \in Callers, NEW r \in Runs, CancelMark(c, r) PROVE Stages'
    <3>1. CASE status[r] = "running"
      <4>1. status' = [status EXCEPT ![r] = "canceling"]
        BY <2>11, <3>1 DEF CancelMark
      <4>2. UNCHANGED <<starter, control, proc, monitor, journal>>
        BY <2>11 DEF CancelMark
      <4>. QED
        BY <3>1, <4>1, <4>2
    <3>2. CASE status[r] # "running"
      BY <2>11, <3>2 DEF CancelMark
    <3>. QED
      BY <3>1, <3>2
  <2>12. ASSUME NEW c \in Callers, NEW r \in Runs, CancelTerminate(c, r) PROVE Stages'
    <3>1. UNCHANGED <<starter, status, control, monitor, journal>>
      BY <2>12 DEF CancelTerminate
    <3>2. \/ control[r] /\ proc' = [proc EXCEPT ![r] = "dead"]
          \/ UNCHANGED proc
      BY <2>12 DEF CancelTerminate
    <3>. QED
      BY <3>1, <3>2
  <2>13. ASSUME NEW c \in Callers, NEW r \in Runs, CancelRollback(c, r) PROVE Stages'
    BY <2>13 DEF CancelRollback
  <2>14. ASSUME NEW c \in Deletes, NEW r \in Runs, CancelFind(c, r) PROVE Stages'
    BY <2>14 DEF CancelFind
  <2>15. ASSUME NEW q \in Queries, QueryReserve(q) PROVE Stages'
    BY <2>15 DEF QueryReserve
  <2>16. ASSUME NEW q \in Queries, QueryRelease(q) PROVE Stages'
    BY <2>16 DEF QueryRelease
  <2>17. ASSUME ShutdownClose PROVE Stages'
    BY <2>17 DEF ShutdownClose
  <2>18. ASSUME NEW r \in Runs, ShutdownCancel(r) PROVE Stages'
    BY <2>18 DEF ShutdownCancel
  <2>19. ASSUME ShutdownCanceled PROVE Stages'
    BY <2>19 DEF ShutdownCanceled
  <2>20. ASSUME ShutdownJoining PROVE Stages'
    BY <2>20 DEF ShutdownJoining
  <2>21. ASSUME NEW r \in Runs, ShutdownJoin(r) PROVE Stages'
    BY <2>21 DEF ShutdownJoin
  <2>22. ASSUME ShutdownReturn PROVE Stages'
    BY <2>22 DEF ShutdownReturn
  <2>23. ASSUME DropRegistry PROVE Stages'
    BY <2>23 DEF DropRegistry
  <2>24. ASSUME HostExit PROVE Stages'
    BY <2>24 DEF HostExit
  <2>25. CASE UNCHANGED vars
    BY <2>25 DEF vars
  <2>. HIDE DEF TypeOK, Stages
  <2>. QED
    BY <2>1, <2>2, <2>3, <2>4, <2>5, <2>6, <2>7, <2>8, <2>9, <2>10, <2>11, <2>12,
       <2>13, <2>14, <2>15, <2>16, <2>17, <2>18, <2>19, <2>20, <2>21, <2>22, <2>23,
       <2>24, <2>25
       DEF Next, StartStep, MonitorStep, CancelStep, ShutdownStep, Finished
<1>. QED
  BY <1>1, <1>2, TypeCorrect, PTL DEF Spec

-----------------------------------------------------------------------------
(* What any step can do to the reported and to the durable status of a run: *)
(* create it in the table, move it between the live statuses, or end it.    *)
StatusMoves(p) ==
  \/ status'[p] = status[p] /\ journal'[p] = journal[p]
  \/ /\ status[p] = "absent" /\ status'[p] = "running" /\ journal'[p] = "running"
     /\ p \in runs'
  \/ status[p] \in Live /\ status'[p] \in Live /\ journal'[p] = journal[p]
  \/ /\ status[p] \in Live /\ status'[p] \in Terminal
     /\ status'[p] \in {"exited", "canceled"} => journal'[p] = status'[p]

(* Every step of every thread makes one of these moves.                     *)
LEMMA StatusStep ==
  ASSUME TypeOK, Stages, [Next]_vars, NEW p \in Runs PROVE StatusMoves(p)
<1> USE DEF TypeOK, Stages, InStart, Refusals, Live, Terminal, IsTerminal,
            registryVars, runVars, StatusMoves
<1>1. ASSUME NEW r \in Runs, RefuseStart(r) PROVE StatusMoves(p)
  BY <1>1 DEF RefuseStart, Refuse
<1>2. ASSUME NEW r \in Runs, Register(r) PROVE StatusMoves(p)
  BY <1>2 DEF Register
<1>3. ASSUME NEW r \in Runs, Spawn(r) PROVE StatusMoves(p)
  BY <1>3 DEF Spawn
<1>4. ASSUME NEW r \in Runs, AttachControl(r) PROVE StatusMoves(p)
  BY <1>4 DEF AttachControl
<1>5. ASSUME NEW r \in Runs, FailComplete(r) PROVE StatusMoves(p)
  <2>1. IsTerminal(r) \/ r = p \/ r # p
    OBVIOUS
  <2>. QED
    BY <1>5, <2>1 DEF FailComplete, Complete, Settle
<1>6. ASSUME NEW r \in Runs, RemoveFailedStart(r) PROVE StatusMoves(p)
  BY <1>6 DEF RemoveFailedStart
<1>7. ASSUME NEW r \in Runs, Exit(r) PROVE StatusMoves(p)
  BY <1>7 DEF Exit
<1>8. ASSUME NEW r \in Runs, AppendFails(r) PROVE StatusMoves(p)
  BY <1>8 DEF AppendFails
<1>9. ASSUME NEW r \in Runs, MonitorComplete(r) PROVE StatusMoves(p)
  <2>1. IsTerminal(r) \/ r = p \/ r # p
    OBVIOUS
  <2>. QED
    BY <1>9, <2>1 DEF MonitorComplete, Reap, Complete, Settle
<1>10. ASSUME NEW r \in Runs, MonitorRelease(r) PROVE StatusMoves(p)
  BY <1>10 DEF MonitorRelease
<1>11. ASSUME NEW c \in Callers, NEW r \in Runs, CancelMark(c, r) PROVE StatusMoves(p)
  <2>1. CASE status[r] = "running"
    BY <1>11, <2>1 DEF CancelMark
  <2>2. CASE status[r] # "running"
    BY <1>11, <2>2 DEF CancelMark
  <2>. QED
    BY <2>1, <2>2
<1>12. ASSUME NEW c \in Callers, NEW r \in Runs, CancelTerminate(c, r) PROVE StatusMoves(p)
  BY <1>12 DEF CancelTerminate
<1>13. ASSUME NEW c \in Callers, NEW r \in Runs, CancelRollback(c, r) PROVE StatusMoves(p)
  BY <1>13 DEF CancelRollback
<1>14. ASSUME NEW c \in Deletes, NEW r \in Runs, CancelFind(c, r) PROVE StatusMoves(p)
  BY <1>14 DEF CancelFind
<1>15. ASSUME NEW q \in Queries, QueryReserve(q) PROVE StatusMoves(p)
  BY <1>15 DEF QueryReserve
<1>16. ASSUME NEW q \in Queries, QueryRelease(q) PROVE StatusMoves(p)
  BY <1>16 DEF QueryRelease
<1>17. ASSUME ShutdownClose PROVE StatusMoves(p)
  BY <1>17 DEF ShutdownClose
<1>18. ASSUME NEW r \in Runs, ShutdownCancel(r) PROVE StatusMoves(p)
  BY <1>18 DEF ShutdownCancel
<1>19. ASSUME ShutdownCanceled PROVE StatusMoves(p)
  BY <1>19 DEF ShutdownCanceled
<1>20. ASSUME ShutdownJoining PROVE StatusMoves(p)
  BY <1>20 DEF ShutdownJoining
<1>21. ASSUME NEW r \in Runs, ShutdownJoin(r) PROVE StatusMoves(p)
  BY <1>21 DEF ShutdownJoin
<1>22. ASSUME ShutdownReturn PROVE StatusMoves(p)
  BY <1>22 DEF ShutdownReturn
<1>23. ASSUME DropRegistry PROVE StatusMoves(p)
  BY <1>23 DEF DropRegistry
<1>24. ASSUME HostExit PROVE StatusMoves(p)
  BY <1>24 DEF HostExit
<1>25. CASE UNCHANGED vars
  BY <1>25 DEF vars
<1>. HIDE DEF TypeOK, Stages, StatusMoves
<1>. QED
  BY <1>1, <1>2, <1>3, <1>4, <1>5, <1>6, <1>7, <1>8, <1>9, <1>10, <1>11, <1>12,
       <1>13, <1>14, <1>15, <1>16, <1>17, <1>18, <1>19, <1>20, <1>21, <1>22, <1>23,
       <1>24, <1>25
     DEF Next, StartStep, MonitorStep, CancelStep, ShutdownStep, Finished

(* A normal end the Host reports has reached the journal first.             *)
THEOREM EndDurable == Spec => []ReportedEndIsDurable
<1>1. Init => ReportedEndIsDurable
  BY DEF Init, ReportedEndIsDurable
<1>2. TypeOK /\ Stages /\ ReportedEndIsDurable /\ [Next]_vars => ReportedEndIsDurable'
  BY StatusStep DEF ReportedEndIsDurable, StatusMoves, Live, Terminal
<1>. QED
  BY <1>1, <1>2, TypeCorrect, StagesCorrect, PTL DEF Spec

(* No late completion, cancellation or rollback changes a terminal status,  *)
(* the reported one or the one in the journal.                              *)
THEOREM EndFinal == Spec => TerminalIsFinal
<1>1. TypeOK /\ Stages /\ [Next]_vars =>
        [\A r \in Runs : /\ IsTerminal(r) => status'[r] = status[r]
                         /\ journal[r] \in Terminal => journal'[r] = journal[r]]_vars
  BY StatusStep DEF Stages, StatusMoves, Live, Terminal, IsTerminal
<1>. QED
  BY <1>1, TypeCorrect, StagesCorrect, PTL DEF Spec, TerminalIsFinal

-----------------------------------------------------------------------------
(* What any step can do to the table of runs: forget terminal runs, add the *)
(* one it creates, or drop everything at the end.                           *)
TableMoves(p) ==
  /\ p \in runs /\ status[p] \in Live /\ p \notin runs' => Gone'
  /\ Gone => Gone'

(* Pruning drops only runs that have ended.                                 *)
LEMMA ExcessTerminal == \A p \in Excess : IsTerminal(p)
BY DEF Excess

(* Every step of every thread makes such a move.                            *)
LEMMA TableStep ==
  ASSUME TypeOK, Stages, [Next]_vars, NEW p \in Runs PROVE TableMoves(p)
<1> USE ExcessTerminal DEF TypeOK, Stages, Live, Terminal, IsTerminal, Gone,
            registryVars, runVars, TableMoves
<1>1. ASSUME NEW r \in Runs, RefuseStart(r) PROVE TableMoves(p)
  BY <1>1 DEF RefuseStart, Refuse, Forget
<1>2. ASSUME NEW r \in Runs, Register(r) PROVE TableMoves(p)
  BY <1>2 DEF Register
<1>3. ASSUME NEW r \in Runs, Spawn(r) PROVE TableMoves(p)
  BY <1>3 DEF Spawn
<1>4. ASSUME NEW r \in Runs, AttachControl(r) PROVE TableMoves(p)
  BY <1>4 DEF AttachControl
<1>5. ASSUME NEW r \in Runs, FailComplete(r) PROVE TableMoves(p)
  BY <1>5 DEF FailComplete
<1>6. ASSUME NEW r \in Runs, RemoveFailedStart(r) PROVE TableMoves(p)
  BY <1>6 DEF RemoveFailedStart, Forget, ReleaseSlot
<1>7. ASSUME NEW r \in Runs, Exit(r) PROVE TableMoves(p)
  BY <1>7 DEF Exit
<1>8. ASSUME NEW r \in Runs, AppendFails(r) PROVE TableMoves(p)
  BY <1>8 DEF AppendFails
<1>9. ASSUME NEW r \in Runs, MonitorComplete(r) PROVE TableMoves(p)
  BY <1>9 DEF MonitorComplete
<1>10. ASSUME NEW r \in Runs, MonitorRelease(r) PROVE TableMoves(p)
  BY <1>10 DEF MonitorRelease, Completed, Forget, ReleaseSlot
<1>11. ASSUME NEW c \in Callers, NEW r \in Runs, CancelMark(c, r) PROVE TableMoves(p)
  BY <1>11 DEF CancelMark
<1>12. ASSUME NEW c \in Callers, NEW r \in Runs, CancelTerminate(c, r) PROVE TableMoves(p)
  BY <1>12 DEF CancelTerminate
<1>13. ASSUME NEW c \in Callers, NEW r \in Runs, CancelRollback(c, r) PROVE TableMoves(p)
  BY <1>13 DEF CancelRollback
<1>14. ASSUME NEW c \in Deletes, NEW r \in Runs, CancelFind(c, r) PROVE TableMoves(p)
  BY <1>14 DEF CancelFind
<1>15. ASSUME NEW q \in Queries, QueryReserve(q) PROVE TableMoves(p)
  BY <1>15 DEF QueryReserve
<1>16. ASSUME NEW q \in Queries, QueryRelease(q) PROVE TableMoves(p)
  BY <1>16 DEF QueryRelease, Completed, Forget, ReleaseSlot
<1>17. ASSUME ShutdownClose PROVE TableMoves(p)
  BY <1>17 DEF ShutdownClose
<1>18. ASSUME NEW r \in Runs, ShutdownCancel(r) PROVE TableMoves(p)
  BY <1>18 DEF ShutdownCancel
<1>19. ASSUME ShutdownCanceled PROVE TableMoves(p)
  <2>1. host'.pc = host.pc
    BY <1>19 DEF ShutdownCanceled
  <2>. QED
    BY <2>1, <1>19 DEF ShutdownCanceled
<1>20. ASSUME ShutdownJoining PROVE TableMoves(p)
  BY <1>20 DEF ShutdownJoining
<1>21. ASSUME NEW r \in Runs, ShutdownJoin(r) PROVE TableMoves(p)
  BY <1>21 DEF ShutdownJoin
<1>22. ASSUME ShutdownReturn PROVE TableMoves(p)
  BY <1>22 DEF ShutdownReturn
<1>23. ASSUME DropRegistry PROVE TableMoves(p)
  BY <1>23 DEF DropRegistry
<1>24. ASSUME HostExit PROVE TableMoves(p)
  BY <1>24 DEF HostExit
<1>25. CASE UNCHANGED vars
  BY <1>25 DEF vars
<1>. HIDE DEF TypeOK, Stages, TableMoves
<1>. QED
  BY <1>1, <1>2, <1>3, <1>4, <1>5, <1>6, <1>7, <1>8, <1>9, <1>10, <1>11, <1>12,
       <1>13, <1>14, <1>15, <1>16, <1>17, <1>18, <1>19, <1>20, <1>21, <1>22, <1>23,
       <1>24, <1>25
     DEF Next, StartStep, MonitorStep, CancelStep, ShutdownStep, Finished

(* A live run can be found until the registry itself is dropped.            *)
THEOREM LiveReachable == Spec => []LiveRunsReachable
<1>1. Init => LiveRunsReachable
  BY DEF Init, LiveRunsReachable, Live
<1>2. TypeOK /\ Stages /\ LiveRunsReachable /\ [Next]_vars => LiveRunsReachable'
  <2> SUFFICES ASSUME TypeOK, Stages, LiveRunsReachable, [Next]_vars, ~Gone',
                      NEW p \in Runs, status'[p] \in Live
               PROVE  p \in runs'
    BY DEF LiveRunsReachable
  <2>1. ~Gone
    BY TableStep DEF TableMoves
  <2>2. CASE status[p] \in Live
    BY <2>1, <2>2, TableStep DEF TableMoves, LiveRunsReachable
  <2>3. CASE status[p] \notin Live
    <3>1. status[p] = "absent"
      BY <2>3, StatusStep DEF StatusMoves, Live, Terminal, TypeOK
    <3>. QED
      BY <3>1, StatusStep DEF StatusMoves, Live
  <2>. QED
    BY <2>2, <2>3
<1>. QED
  BY <1>1, <1>2, TypeCorrect, StagesCorrect, PTL DEF Spec

-----------------------------------------------------------------------------
(* Shutdown *)

(* How a run ends: by its monitor, or by its failed start; and a run that    *)
(* the table or the shutdown has seen was created.                           *)
Completions ==
  \A r \in Runs :
    /\ IsTerminal(r) => monitor[r] \in {"completed", "ended"} \/ starter[r] \in {"failing", "failed"}
    /\ monitor[r] \in {"completed", "ended"} => IsTerminal(r) \/ Gone
    /\ r \in runs \cup host.snapshot => status[r] # "absent"

(* The shutdown cancels one run of its snapshot after the other.             *)
Calling ==
  /\ \A c \in Callers : call[c].pc = "idle" => call[c].run = {}
  /\ call[Host].pc # "idle" => host.pc = "cancel" /\ \E r \in host.todo : call[Host].run = {r}
  /\ host.todo \subseteq host.snapshot
  /\ host.pc = "serving" => host.snapshot = {}

(* No DELETE request has found the run.                                      *)
Undisturbed(r) == \A c \in Deletes : ~Target(c, r)

(* What a successful cancel leaves: the run has ended, or its completion     *)
(* will find the mark, and the join will wait for it.                        *)
Settled(r) == IsTerminal(r) \/ (status[r] = "canceling" /\ control[r])

(* The shutdown's cancel of r stands at pc.                                  *)
HostAt(r, pc) == Target(Host, r) /\ call[Host].pc = pc

(* Where a run stands at each stage of the shutdown.                         *)
Quieted(r) ==
  Undisturbed(r) =>
    /\ status[r] = "canceling" =>
         /\ r \in host.snapshot
         /\ host.pc = "cancel" /\ r \in host.todo =>
              HostAt(r, "terminating") \/ HostAt(r, "rollback") \/ HostAt(r, "answered")
    /\ HostAt(r, "terminating") => status[r] = "canceling" \/ IsTerminal(r)
    /\ r \in host.snapshot /\ ~host.failed =>
         /\ host.pc = "cancel" /\ (r \in host.todo => HostAt(r, "answered") /\ call[Host].ok) => Settled(r)
         /\ host.pc = "join" => Settled(r) /\ (r \notin host.todo => IsTerminal(r))
         /\ host.pc = "done" => IsTerminal(r)

(* No step of any thread ends a run in another way.                          *)
LEMMA CompletionsStep == ASSUME TypeOK, Stages, Completions, [Next]_vars PROVE Completions'
<1> USE ExcessTerminal DEF TypeOK, Stages, Live, Terminal, IsTerminal, InStart, Refusals, Gone,
            registryVars, runVars, Completions
<1>1. ASSUME NEW r \in Runs, RefuseStart(r) PROVE Completions'
  BY <1>1 DEF RefuseStart, Refuse, Forget
<1>2. ASSUME NEW r \in Runs, Register(r) PROVE Completions'
  BY <1>2 DEF Register
<1>3. ASSUME NEW r \in Runs, Spawn(r) PROVE Completions'
  BY <1>3 DEF Spawn
<1>4. ASSUME NEW r \in Runs, AttachControl(r) PROVE Completions'
  BY <1>4 DEF AttachControl
<1>5. ASSUME NEW r \in Runs, FailComplete(r) PROVE Completions'
  BY <1>5 DEF FailComplete, Complete, Settle
<1>6. ASSUME NEW r \in Runs, RemoveFailedStart(r) PROVE Completions'
  BY <1>6 DEF RemoveFailedStart, Forget
<1>7. ASSUME NEW r \in Runs, Exit(r) PROVE Completions'
  BY <1>7 DEF Exit
<1>8. ASSUME NEW r \in Runs, AppendFails(r) PROVE Completions'
  BY <1>8 DEF AppendFails
<1>9. ASSUME NEW r \in Runs, MonitorComplete(r) PROVE Completions'
  BY <1>9 DEF MonitorComplete, Complete, Settle
<1>10. ASSUME NEW r \in Runs, MonitorRelease(r) PROVE Completions'
  BY <1>10 DEF MonitorRelease, Completed, Forget
<1>11. ASSUME NEW c \in Callers, NEW r \in Runs, CancelMark(c, r) PROVE Completions'
  BY <1>11 DEF CancelMark, Answer
<1>12. ASSUME NEW c \in Callers, NEW r \in Runs, CancelTerminate(c, r) PROVE Completions'
  BY <1>12 DEF CancelTerminate, Answer
<1>13. ASSUME NEW c \in Callers, NEW r \in Runs, CancelRollback(c, r) PROVE Completions'
  BY <1>13 DEF CancelRollback, Answer
<1>14. ASSUME NEW c \in Deletes, NEW r \in Runs, CancelFind(c, r) PROVE Completions'
  BY <1>14 DEF CancelFind, Find
<1>15. ASSUME NEW q \in Queries, QueryReserve(q) PROVE Completions'
  BY <1>15 DEF QueryReserve
<1>16. ASSUME NEW q \in Queries, QueryRelease(q) PROVE Completions'
  BY <1>16 DEF QueryRelease, Completed, Forget
<1>17. ASSUME ShutdownClose PROVE Completions'
  BY <1>17 DEF ShutdownClose
<1>18. ASSUME NEW r \in Runs, ShutdownCancel(r) PROVE Completions'
  BY <1>18 DEF ShutdownCancel, Find
<1>19. ASSUME ShutdownCanceled PROVE Completions'
  BY <1>19 DEF ShutdownCanceled, NoCall
<1>20. ASSUME ShutdownJoining PROVE Completions'
  BY <1>20 DEF ShutdownJoining
<1>21. ASSUME NEW r \in Runs, ShutdownJoin(r) PROVE Completions'
  BY <1>21 DEF ShutdownJoin
<1>22. ASSUME ShutdownReturn PROVE Completions'
  BY <1>22 DEF ShutdownReturn
<1>23. ASSUME DropRegistry PROVE Completions'
  BY <1>23 DEF DropRegistry
<1>24. ASSUME HostExit PROVE Completions'
  BY <1>24 DEF HostExit
<1>25. CASE UNCHANGED vars
  BY <1>25 DEF vars
<1>. HIDE DEF TypeOK, Stages, Completions
<1>. QED
  BY <1>1, <1>2, <1>3, <1>4, <1>5, <1>6, <1>7, <1>8, <1>9, <1>10, <1>11, <1>12,
       <1>13, <1>14, <1>15, <1>16, <1>17, <1>18, <1>19, <1>20, <1>21, <1>22, <1>23,
       <1>24, <1>25
     DEF Next, StartStep, MonitorStep, CancelStep, ShutdownStep, Finished

(* No step breaks the order in which the shutdown cancels.                   *)
LEMMA CallingStep == ASSUME TypeOK, Calling, [Next]_vars PROVE Calling'
<1> USE HostAssumption DEF TypeOK, Calls, Callers, Target, registryVars, runVars, Calling
<1>1. ASSUME NEW r \in Runs, RefuseStart(r) PROVE Calling'
  BY <1>1 DEF RefuseStart, Refuse, Forget
<1>2. ASSUME NEW r \in Runs, Register(r) PROVE Calling'
  BY <1>2 DEF Register
<1>3. ASSUME NEW r \in Runs, Spawn(r) PROVE Calling'
  BY <1>3 DEF Spawn
<1>4. ASSUME NEW r \in Runs, AttachControl(r) PROVE Calling'
  BY <1>4 DEF AttachControl
<1>5. ASSUME NEW r \in Runs, FailComplete(r) PROVE Calling'
  BY <1>5 DEF FailComplete, Complete, Settle
<1>6. ASSUME NEW r \in Runs, RemoveFailedStart(r) PROVE Calling'
  BY <1>6 DEF RemoveFailedStart, Forget
<1>7. ASSUME NEW r \in Runs, Exit(r) PROVE Calling'
  BY <1>7 DEF Exit
<1>8. ASSUME NEW r \in Runs, AppendFails(r) PROVE Calling'
  BY <1>8 DEF AppendFails
<1>9. ASSUME NEW r \in Runs, MonitorComplete(r) PROVE Calling'
  BY <1>9 DEF MonitorComplete, Complete, Settle
<1>10. ASSUME NEW r \in Runs, MonitorRelease(r) PROVE Calling'
  BY <1>10 DEF MonitorRelease, Completed, Forget
<1>11. ASSUME NEW c \in Callers, NEW r \in Runs, CancelMark(c, r) PROVE Calling'
  BY <1>11 DEF CancelMark, Answer
<1>12. ASSUME NEW c \in Callers, NEW r \in Runs, CancelTerminate(c, r) PROVE Calling'
  BY <1>12 DEF CancelTerminate, Answer
<1>13. ASSUME NEW c \in Callers, NEW r \in Runs, CancelRollback(c, r) PROVE Calling'
  BY <1>13 DEF CancelRollback, Answer
<1>14. ASSUME NEW c \in Deletes, NEW r \in Runs, CancelFind(c, r) PROVE Calling'
  BY <1>14 DEF CancelFind, Find
<1>15. ASSUME NEW q \in Queries, QueryReserve(q) PROVE Calling'
  BY <1>15 DEF QueryReserve
<1>16. ASSUME NEW q \in Queries, QueryRelease(q) PROVE Calling'
  BY <1>16 DEF QueryRelease, Completed, Forget
<1>17. ASSUME ShutdownClose PROVE Calling'
  BY <1>17 DEF ShutdownClose
<1>18. ASSUME NEW r \in Runs, ShutdownCancel(r) PROVE Calling'
  BY <1>18 DEF ShutdownCancel, Find
<1>19. ASSUME ShutdownCanceled PROVE Calling'
  BY <1>19 DEF ShutdownCanceled, NoCall
<1>20. ASSUME ShutdownJoining PROVE Calling'
  BY <1>20 DEF ShutdownJoining
<1>21. ASSUME NEW r \in Runs, ShutdownJoin(r) PROVE Calling'
  BY <1>21 DEF ShutdownJoin
<1>22. ASSUME ShutdownReturn PROVE Calling'
  BY <1>22 DEF ShutdownReturn
<1>23. ASSUME DropRegistry PROVE Calling'
  BY <1>23 DEF DropRegistry
<1>24. ASSUME HostExit PROVE Calling'
  BY <1>24 DEF HostExit
<1>25. CASE UNCHANGED vars
  BY <1>25 DEF vars
<1>. HIDE DEF TypeOK, Calling
<1>. QED
  BY <1>1, <1>2, <1>3, <1>4, <1>5, <1>6, <1>7, <1>8, <1>9, <1>10, <1>11, <1>12,
       <1>13, <1>14, <1>15, <1>16, <1>17, <1>18, <1>19, <1>20, <1>21, <1>22, <1>23,
       <1>24, <1>25
     DEF Next, StartStep, MonitorStep, CancelStep, ShutdownStep, Finished

(* No step undoes what the shutdown has achieved for a run that no DELETE    *)
(* request has found.                                                        *)
LEMMA QuietedStep ==
  ASSUME TypeOK, Stages, Completions, Calling, [Next]_vars, NEW p \in Runs, Quieted(p)
  PROVE  Quieted(p)'
<1> USE HostAssumption DEF TypeOK, Stages, Completions, Calling, Calls, Callers, Target, Live, Terminal,
            IsTerminal, InStart, Refusals, Gone, registryVars, runVars, Quieted, Undisturbed, Settled, HostAt
<1>1. ASSUME NEW r \in Runs, RefuseStart(r) PROVE Quieted(p)'
  BY <1>1 DEF RefuseStart, Refuse, Forget
<1>2. ASSUME NEW r \in Runs, Register(r) PROVE Quieted(p)'
  BY <1>2 DEF Register
<1>3. ASSUME NEW r \in Runs, Spawn(r) PROVE Quieted(p)'
  BY <1>3 DEF Spawn
<1>4. ASSUME NEW r \in Runs, AttachControl(r) PROVE Quieted(p)'
  BY <1>4 DEF AttachControl
<1>5. ASSUME NEW r \in Runs, FailComplete(r) PROVE Quieted(p)'
  BY <1>5 DEF FailComplete, Complete, Settle
<1>6. ASSUME NEW r \in Runs, RemoveFailedStart(r) PROVE Quieted(p)'
  BY <1>6 DEF RemoveFailedStart, Forget
<1>7. ASSUME NEW r \in Runs, Exit(r) PROVE Quieted(p)'
  BY <1>7 DEF Exit
<1>8. ASSUME NEW r \in Runs, AppendFails(r) PROVE Quieted(p)'
  BY <1>8 DEF AppendFails
<1>9. ASSUME NEW r \in Runs, MonitorComplete(r) PROVE Quieted(p)'
  BY <1>9 DEF MonitorComplete, Complete, Settle
<1>10. ASSUME NEW r \in Runs, MonitorRelease(r) PROVE Quieted(p)'
  BY <1>10 DEF MonitorRelease, Completed, Forget
<1>11. ASSUME NEW c \in Callers, NEW r \in Runs, CancelMark(c, r) PROVE Quieted(p)'
  BY <1>11 DEF CancelMark, Answer
<1>12. ASSUME NEW c \in Callers, NEW r \in Runs, CancelTerminate(c, r) PROVE Quieted(p)'
  BY <1>12 DEF CancelTerminate, Answer
<1>13. ASSUME NEW c \in Callers, NEW r \in Runs, CancelRollback(c, r) PROVE Quieted(p)'
  BY <1>13 DEF CancelRollback, Answer
<1>14. ASSUME NEW c \in Deletes, NEW r \in Runs, CancelFind(c, r) PROVE Quieted(p)'
  BY <1>14 DEF CancelFind, Find
<1>15. ASSUME NEW q \in Queries, QueryReserve(q) PROVE Quieted(p)'
  BY <1>15 DEF QueryReserve
<1>16. ASSUME NEW q \in Queries, QueryRelease(q) PROVE Quieted(p)'
  BY <1>16 DEF QueryRelease, Completed, Forget
<1>17. ASSUME ShutdownClose PROVE Quieted(p)'
  BY <1>17 DEF ShutdownClose
<1>18. ASSUME NEW r \in Runs, ShutdownCancel(r) PROVE Quieted(p)'
  BY <1>18 DEF ShutdownCancel, Find
<1>19. ASSUME ShutdownCanceled PROVE Quieted(p)'
  <2>1. /\ host'.pc = host.pc /\ host'.snapshot = host.snapshot /\ host'.todo = host.todo \ call[Host].run
        /\ host'.failed = (host.failed \/ ~call[Host].ok)
        /\ call[Host].pc = "answered" /\ call' = [call EXCEPT ![Host] = NoCall]
        /\ UNCHANGED <<status, control, monitor, starter>>
    BY <1>19 DEF ShutdownCanceled
  <2>2. call'[Host] = NoCall /\ ~Target(Host, p)' /\ (Undisturbed(p)' <=> Undisturbed(p))
    BY <2>1 DEF NoCall
  <2>3. PICK r \in host.todo : call[Host].run = {r}
    BY <2>1
  <2>4. CASE p = r
    BY <2>1, <2>2, <2>3, <2>4
  <2>5. CASE p # r
    BY <2>1, <2>2, <2>3, <2>5
  <2>. QED
    BY <2>4, <2>5
<1>20. ASSUME ShutdownJoining PROVE Quieted(p)'
  BY <1>20 DEF ShutdownJoining
<1>21. ASSUME NEW r \in Runs, ShutdownJoin(r) PROVE Quieted(p)'
  BY <1>21 DEF ShutdownJoin
<1>22. ASSUME ShutdownReturn PROVE Quieted(p)'
  BY <1>22 DEF ShutdownReturn
<1>23. ASSUME DropRegistry PROVE Quieted(p)'
  BY <1>23 DEF DropRegistry
<1>24. ASSUME HostExit PROVE Quieted(p)'
  BY <1>24 DEF HostExit
<1>25. CASE UNCHANGED vars
  BY <1>25 DEF vars
<1>. HIDE DEF TypeOK, Stages, Completions, Calling, Quieted
<1>. QED
  BY <1>1, <1>2, <1>3, <1>4, <1>5, <1>6, <1>7, <1>8, <1>9, <1>10, <1>11, <1>12,
       <1>13, <1>14, <1>15, <1>16, <1>17, <1>18, <1>19, <1>20, <1>21, <1>22, <1>23,
       <1>24, <1>25
     DEF Next, StartStep, MonitorStep, CancelStep, ShutdownStep, Finished

(* A shutdown that reports success leaves no live command behind, except one *)
(* that a DELETE request meddled with.                                       *)
THEOREM ShutdownQuiet == Spec => []QuietShutdown
<1> DEFINE Inv == Completions /\ Calling /\ \A r \in Runs : Quieted(r)
<1>1. Init => Inv
  BY HostAssumption DEF Init, Completions, Calling, Quieted, Settled, HostAt, Target, NoCall, Callers, IsTerminal,
       Terminal
<1>2. TypeOK /\ Stages /\ Inv /\ [Next]_vars => Inv'
  BY CompletionsStep, CallingStep, QuietedStep
<1>3. TypeOK /\ Stages /\ Inv => QuietShutdown
  BY DEF TypeOK, QuietShutdown, Quieted, Undisturbed, Completions, Stages, InStart, Terminal, IsTerminal
<1>. HIDE DEF Inv
<1>. QED
  BY <1>1, <1>2, <1>3, TypeCorrect, StagesCorrect, PTL DEF Spec

-----------------------------------------------------------------------------
(* What any step can do to the slots: take one below the limit, return one  *)
(* it holds, or leave the counter alone and own no more than before.        *)
SlotMoves ==
  \/ Owners' \subseteq Owners /\ active' = active
  \/ /\ active < MaxActive /\ active' = active + 1
     /\ \E t \in Runs \cup Queries : Owners' \subseteq Owners \cup {t}
  \/ /\ active' = IF active = 0 THEN 0 ELSE active - 1
     /\ \E t \in Owners : Owners' \subseteq Owners \ {t}

(* Every step of every thread makes one of these moves.                     *)
LEMMA SlotStep == ASSUME TypeOK, Stages, [Next]_vars PROVE SlotMoves
<1> USE TaskAssumption DEF TypeOK, Stages, InStart, Refusals, registryVars, runVars,
            Owners, Holders, HeldQueries, SlotMoves
<1>1. ASSUME NEW r \in Runs, RefuseStart(r) PROVE SlotMoves
  BY <1>1 DEF RefuseStart, Refuse
<1>2. ASSUME NEW r \in Runs, Register(r) PROVE SlotMoves
  <2>1. Owners' \subseteq Owners \cup {r}
    BY <1>2 DEF Register
  <2>. QED
    BY <1>2, <2>1 DEF Register
<1>3. ASSUME NEW r \in Runs, Spawn(r) PROVE SlotMoves
  BY <1>3 DEF Spawn
<1>4. ASSUME NEW r \in Runs, AttachControl(r) PROVE SlotMoves
  BY <1>4 DEF AttachControl
<1>5. ASSUME NEW r \in Runs, FailComplete(r) PROVE SlotMoves
  BY <1>5 DEF FailComplete
<1>6. ASSUME NEW r \in Runs, RemoveFailedStart(r) PROVE SlotMoves
  <2>1. r \in Owners /\ Owners' \subseteq Owners \ {r}
    BY <1>6 DEF RemoveFailedStart
  <2>. QED
    BY <1>6, <2>1 DEF RemoveFailedStart, ReleaseSlot
<1>7. ASSUME NEW r \in Runs, Exit(r) PROVE SlotMoves
  BY <1>7 DEF Exit
<1>8. ASSUME NEW r \in Runs, AppendFails(r) PROVE SlotMoves
  BY <1>8 DEF AppendFails
<1>9. ASSUME NEW r \in Runs, MonitorComplete(r) PROVE SlotMoves
  BY <1>9 DEF MonitorComplete
<1>10. ASSUME NEW r \in Runs, MonitorRelease(r) PROVE SlotMoves
  <2>1. r \in Owners /\ Owners' \subseteq Owners \ {r}
    BY <1>10 DEF MonitorRelease
  <2>. QED
    BY <1>10, <2>1 DEF MonitorRelease, Completed, ReleaseSlot
<1>11. ASSUME NEW c \in Callers, NEW r \in Runs, CancelMark(c, r) PROVE SlotMoves
  BY <1>11 DEF CancelMark
<1>12. ASSUME NEW c \in Callers, NEW r \in Runs, CancelTerminate(c, r) PROVE SlotMoves
  BY <1>12 DEF CancelTerminate
<1>13. ASSUME NEW c \in Callers, NEW r \in Runs, CancelRollback(c, r) PROVE SlotMoves
  BY <1>13 DEF CancelRollback
<1>14. ASSUME NEW c \in Deletes, NEW r \in Runs, CancelFind(c, r) PROVE SlotMoves
  BY <1>14 DEF CancelFind
<1>15. ASSUME NEW q \in Queries, QueryReserve(q) PROVE SlotMoves
  BY <1>15 DEF QueryReserve
<1>16. ASSUME NEW q \in Queries, QueryRelease(q) PROVE SlotMoves
  <2>1. q \in Owners /\ Owners' \subseteq Owners \ {q}
    BY <1>16 DEF QueryRelease
  <2>. QED
    BY <1>16, <2>1 DEF QueryRelease, Completed, ReleaseSlot
<1>17. ASSUME ShutdownClose PROVE SlotMoves
  BY <1>17 DEF ShutdownClose
<1>18. ASSUME NEW r \in Runs, ShutdownCancel(r) PROVE SlotMoves
  BY <1>18 DEF ShutdownCancel
<1>19. ASSUME ShutdownCanceled PROVE SlotMoves
  BY <1>19 DEF ShutdownCanceled
<1>20. ASSUME ShutdownJoining PROVE SlotMoves
  BY <1>20 DEF ShutdownJoining
<1>21. ASSUME NEW r \in Runs, ShutdownJoin(r) PROVE SlotMoves
  BY <1>21 DEF ShutdownJoin
<1>22. ASSUME ShutdownReturn PROVE SlotMoves
  BY <1>22 DEF ShutdownReturn
<1>23. ASSUME DropRegistry PROVE SlotMoves
  BY <1>23 DEF DropRegistry
<1>24. ASSUME HostExit PROVE SlotMoves
  BY <1>24 DEF HostExit
<1>25. CASE UNCHANGED vars
  BY <1>25 DEF vars
<1>. HIDE DEF TypeOK, Stages, SlotMoves
<1>. QED
  BY <1>1, <1>2, <1>3, <1>4, <1>5, <1>6, <1>7, <1>8, <1>9, <1>10, <1>11, <1>12,
       <1>13, <1>14, <1>15, <1>16, <1>17, <1>18, <1>19, <1>20, <1>21, <1>22, <1>23,
       <1>24, <1>25
     DEF Next, StartStep, MonitorStep, CancelStep, ShutdownStep, Finished

(* Only finitely many threads and guards own a slot.                        *)
LEMMA OwnersFinite == IsFiniteSet(Owners) /\ IsFiniteSet(Owners')
<1>1. IsFiniteSet(Runs \cup Queries)
  BY FiniteAssumption, FS_Union
<1>2. Owners \in SUBSET (Runs \cup Queries) /\ Owners' \in SUBSET (Runs \cup Queries)
  BY DEF Owners, Holders, HeldQueries
<1>. QED
  BY <1>1, <1>2, FS_Subset

(* The counter is never below the number of slots in use, and never above   *)
(* the limit.                                                               *)
THEOREM SlotsCorrect == Spec => [](SlotsAccounted /\ Limited)
<1>1. Init => SlotsAccounted /\ Limited
  <2> SUFFICES ASSUME Init PROVE SlotsAccounted /\ Limited
    OBVIOUS
  <2>1. Owners = {}
    BY DEF Init, Owners, Holders, HeldQueries
  <2>. QED
    BY <2>1, FS_EmptySet, LimitAssumption DEF Init, SlotsAccounted, Limited
<1>2. TypeOK /\ Stages /\ SlotsAccounted /\ Limited /\ [Next]_vars
        => (SlotsAccounted /\ Limited)'
  <2> SUFFICES ASSUME TypeOK, Stages, SlotsAccounted, Limited, [Next]_vars
               PROVE  (SlotsAccounted /\ Limited)'
    OBVIOUS
  <2>0. /\ active \in Nat /\ MaxActive \in Nat
        /\ Cardinality(Owners) \in Nat /\ Cardinality(Owners') \in Nat
    BY OwnersFinite, FS_CardinalityType, LimitAssumption DEF TypeOK
  <2>1. CASE Owners' \subseteq Owners /\ active' = active
    <3>1. Cardinality(Owners') <= Cardinality(Owners)
      BY <2>1, OwnersFinite, FS_Subset
    <3>. QED
      BY <2>0, <2>1, <3>1 DEF SlotsAccounted, Limited
  <2>2. ASSUME active < MaxActive, active' = active + 1,
               NEW t \in Runs \cup Queries, Owners' \subseteq Owners \cup {t}
        PROVE  (SlotsAccounted /\ Limited)'
    <3>0. Cardinality(Owners \cup {t}) =
            IF t \in Owners THEN Cardinality(Owners) ELSE Cardinality(Owners) + 1
      BY OwnersFinite, FS_AddElement, Zenon
    <3>1. Cardinality(Owners \cup {t}) <= Cardinality(Owners) + 1
      BY <2>0, <3>0
    <3>2. Cardinality(Owners') <= Cardinality(Owners \cup {t})
      BY <2>2, OwnersFinite, FS_AddElement, FS_Subset
    <3>3. Cardinality(Owners \cup {t}) \in Nat
      BY OwnersFinite, FS_AddElement, FS_CardinalityType
    <3>. QED
      BY <2>0, <2>2, <3>1, <3>2, <3>3 DEF SlotsAccounted, Limited
  <2>3. ASSUME active' = (IF active = 0 THEN 0 ELSE active - 1),
               NEW t \in Owners, Owners' \subseteq Owners \ {t}
        PROVE  (SlotsAccounted /\ Limited)'
    <3>1. Cardinality(Owners \ {t}) = Cardinality(Owners) - 1
      BY OwnersFinite, FS_RemoveElement
    <3>2. Cardinality(Owners') <= Cardinality(Owners \ {t})
      BY <2>3, OwnersFinite, FS_RemoveElement, FS_Subset
    <3>. QED
      BY <2>0, <2>3, <3>1, <3>2 DEF SlotsAccounted, Limited
  <2>. QED
    BY <2>1, <2>2, <2>3, SlotStep DEF SlotMoves
<1>. QED
  BY <1>1, <1>2, TypeCorrect, StagesCorrect, PTL DEF Spec

-----------------------------------------------------------------------------
(* What any step can do to what really runs: start one more task while a    *)
(* slot is free for it, or end some of those that run.                      *)
WorkMoves ==
  \/ \E t \in Runs \cup Queries :
       /\ t \notin Working \cup Spent
       /\ Working' = Working \cup {t} /\ Spent' = Spent
       /\ Cardinality(Working) < MaxActive
  \/ \E done \in SUBSET Working :
       Working' = Working \ done /\ Spent' = Spent \cup done

(* A step that only ends commands makes the second move.                    *)
LEMMA EndingStep ==
  ASSUME TypeOK, UNCHANGED query, proc' \in [Runs -> {"none", "alive", "leftover", "dead"}],
         \A p \in Runs : /\ proc'[p] = "none" <=> proc[p] = "none"
                         /\ proc'[p] = "alive" => proc[p] = "alive"
  PROVE  WorkMoves
<1> DEFINE done == {p \in Runs : proc[p] = "alive" /\ proc'[p] # "alive"}
<1>1. done \in SUBSET Working
  BY DEF Working
<1>2. Working' = Working \ done
  BY TaskAssumption DEF TypeOK, Working, HeldQueries
<1>3. Spent' = Spent \cup done
  BY DEF TypeOK, Spent
<1>. QED
  BY <1>1, <1>2, <1>3 DEF WorkMoves

(* While an owner of a slot is not working, fewer than MaxActive tasks are. *)
LEMMA RoomToWork ==
  ASSUME TypeOK, Stages, SlotsAccounted, Limited, NEW t,
         \/ t \in Owners \ Working
         \/ active < MaxActive
  PROVE  Cardinality(Working) < MaxActive
<1>1. Working \in SUBSET Owners
  BY DEF Stages, Working, Owners, Holders
<1>2. /\ Cardinality(Working) \in Nat /\ Cardinality(Owners) \in Nat
      /\ Cardinality(Working) <= Cardinality(Owners)
      /\ Cardinality(Owners) = Cardinality(Working) => Owners = Working
  BY <1>1, OwnersFinite, FS_Subset, FS_CardinalityType
<1>3. active \in Nat /\ MaxActive \in Nat
  BY LimitAssumption DEF TypeOK
<1>4. CASE t \in Owners \ Working
  BY <1>2, <1>3, <1>4 DEF SlotsAccounted, Limited
<1>5. CASE active < MaxActive
  BY <1>2, <1>3, <1>5 DEF SlotsAccounted
<1>. QED
  BY <1>4, <1>5

(* Every step of every thread makes one of the two moves.                   *)
LEMMA WorkStep ==
  ASSUME TypeOK, Stages, SlotsAccounted, Limited, [Next]_vars PROVE WorkMoves
<1> USE DEF registryVars, runVars
<1>0. ASSUME UNCHANGED <<proc, query>> PROVE WorkMoves
  <2>1. proc' \in [Runs -> {"none", "alive", "leftover", "dead"}]
    BY <1>0 DEF TypeOK
  <2>. QED
    BY <1>0, <2>1, EndingStep
<1>1. ASSUME NEW r \in Runs, RefuseStart(r) PROVE WorkMoves
  BY <1>1, <1>0 DEF RefuseStart, Refuse
<1>2. ASSUME NEW r \in Runs, Register(r) PROVE WorkMoves
  BY <1>2, <1>0 DEF Register
<1>3. ASSUME NEW r \in Runs, Spawn(r) PROVE WorkMoves
  <2>1. CASE UNCHANGED proc
    BY <1>3, <2>1, <1>0 DEF Spawn
  <2>2. CASE proc' = [proc EXCEPT ![r] = "alive"] /\ starter' = [starter EXCEPT ![r] = "spawned"]
    <3>1. r \in Owners \ Working /\ r \notin Spent
      BY <1>3, TaskAssumption DEF Spawn, TypeOK, Stages, Owners, Holders, Working, Spent, HeldQueries
    <3>2. Working' = Working \cup {r} /\ Spent' = Spent
      BY <1>3, <2>2, <3>1 DEF Spawn, TypeOK, Working, Spent, HeldQueries
    <3>3. Cardinality(Working) < MaxActive
      BY <3>1, RoomToWork
    <3>. QED
      BY <3>1, <3>2, <3>3 DEF WorkMoves
  <2>. QED
    BY <1>3, <2>1, <2>2 DEF Spawn
<1>4. ASSUME NEW r \in Runs, AttachControl(r) PROVE WorkMoves
  BY <1>4, <1>0 DEF AttachControl
<1>5. ASSUME NEW r \in Runs, FailComplete(r) PROVE WorkMoves
  BY <1>5, <1>0 DEF FailComplete
<1>6. ASSUME NEW r \in Runs, RemoveFailedStart(r) PROVE WorkMoves
  BY <1>6, <1>0 DEF RemoveFailedStart
<1>7. ASSUME NEW r \in Runs, Exit(r) PROVE WorkMoves
  <2>1. UNCHANGED query
    BY <1>7 DEF Exit
  <2>2. /\ proc' \in [Runs -> {"none", "alive", "leftover", "dead"}]
        /\ \A p \in Runs : /\ proc'[p] = "none" <=> proc[p] = "none"
                           /\ proc'[p] = "alive" => proc[p] = "alive"
    BY <1>7 DEF Exit, TypeOK, Stages
  <2>. QED
    BY <2>1, <2>2, EndingStep
<1>8. ASSUME NEW r \in Runs, AppendFails(r) PROVE WorkMoves
  BY <1>8, <1>0 DEF AppendFails
<1>9. ASSUME NEW r \in Runs, MonitorComplete(r) PROVE WorkMoves
  <2>1. UNCHANGED query
    BY <1>9 DEF MonitorComplete
  <2>2. /\ proc' \in [Runs -> {"none", "alive", "leftover", "dead"}]
        /\ \A p \in Runs : /\ proc'[p] = "none" <=> proc[p] = "none"
                           /\ proc'[p] = "alive" => proc[p] = "alive"
    BY <1>9 DEF MonitorComplete, Reap, TypeOK, Stages
  <2>. QED
    BY <2>1, <2>2, EndingStep
<1>10. ASSUME NEW r \in Runs, MonitorRelease(r) PROVE WorkMoves
  BY <1>10, <1>0 DEF MonitorRelease
<1>11. ASSUME NEW c \in Callers, NEW r \in Runs, CancelMark(c, r) PROVE WorkMoves
  BY <1>11, <1>0 DEF CancelMark
<1>12. ASSUME NEW c \in Callers, NEW r \in Runs, CancelTerminate(c, r) PROVE WorkMoves
  <2>1. UNCHANGED query
    BY <1>12 DEF CancelTerminate
  <2>2. /\ proc' \in [Runs -> {"none", "alive", "leftover", "dead"}]
        /\ \A p \in Runs : /\ proc'[p] = "none" <=> proc[p] = "none"
                           /\ proc'[p] = "alive" => proc[p] = "alive"
    <3>1. proc \in [Runs -> {"none", "alive", "leftover", "dead"}]
      BY DEF TypeOK
    <3>2. CASE proc' = proc
      BY <3>1, <3>2
    <3>3. CASE control[r] /\ proc' = [proc EXCEPT ![r] = "dead"]
      <4>1. proc[r] # "none"
        BY <3>3 DEF TypeOK, Stages
      <4>. QED
        BY <3>1, <3>3, <4>1
    <3>. QED
      BY <1>12, <3>2, <3>3 DEF CancelTerminate
  <2>. QED
    BY <2>1, <2>2, EndingStep
<1>13. ASSUME NEW c \in Callers, NEW r \in Runs, CancelRollback(c, r) PROVE WorkMoves
  BY <1>13, <1>0 DEF CancelRollback
<1>14. ASSUME NEW c \in Deletes, NEW r \in Runs, CancelFind(c, r) PROVE WorkMoves
  BY <1>14, <1>0 DEF CancelFind
<1>15. ASSUME NEW q \in Queries, QueryReserve(q) PROVE WorkMoves
  <2>1. q \notin Working \cup Spent
    BY <1>15, TaskAssumption DEF QueryReserve, TypeOK, Working, Spent, HeldQueries
  <2>2. Working' = Working \cup {q} /\ Spent' = Spent
    BY <1>15 DEF QueryReserve, TypeOK, Working, Spent, HeldQueries
  <2>3. Cardinality(Working) < MaxActive
    BY <1>15, RoomToWork DEF QueryReserve
  <2>. QED
    BY <2>1, <2>2, <2>3 DEF WorkMoves
<1>16. ASSUME NEW q \in Queries, QueryRelease(q) PROVE WorkMoves
  <2>1. {q} \in SUBSET Working
    BY <1>16 DEF QueryRelease, Working, HeldQueries
  <2>2. Working' = Working \ {q} /\ Spent' = Spent \cup {q}
    BY <1>16, TaskAssumption DEF QueryRelease, TypeOK, Working, Spent, HeldQueries
  <2>. QED
    BY <2>1, <2>2 DEF WorkMoves
<1>17. ASSUME ShutdownClose PROVE WorkMoves
  BY <1>17, <1>0 DEF ShutdownClose
<1>18. ASSUME NEW r \in Runs, ShutdownCancel(r) PROVE WorkMoves
  BY <1>18, <1>0 DEF ShutdownCancel
<1>19. ASSUME ShutdownCanceled PROVE WorkMoves
  BY <1>19, <1>0 DEF ShutdownCanceled
<1>20. ASSUME ShutdownJoining PROVE WorkMoves
  BY <1>20, <1>0 DEF ShutdownJoining
<1>21. ASSUME NEW r \in Runs, ShutdownJoin(r) PROVE WorkMoves
  BY <1>21, <1>0 DEF ShutdownJoin
<1>22. ASSUME ShutdownReturn PROVE WorkMoves
  BY <1>22, <1>0 DEF ShutdownReturn
<1>23. ASSUME DropRegistry PROVE WorkMoves
  <2>1. UNCHANGED query
    BY <1>23 DEF DropRegistry
  <2>2. /\ proc' \in [Runs -> {"none", "alive", "leftover", "dead"}]
        /\ \A p \in Runs : /\ proc'[p] = "none" <=> proc[p] = "none"
                           /\ proc'[p] = "alive" => proc[p] = "alive"
    BY <1>23 DEF DropRegistry, TypeOK, Stages
  <2>. QED
    BY <2>1, <2>2, EndingStep
<1>24. ASSUME HostExit PROVE WorkMoves
  <2>1. UNCHANGED query
    BY <1>24 DEF HostExit
  <2>2. /\ proc' \in [Runs -> {"none", "alive", "leftover", "dead"}]
        /\ \A p \in Runs : /\ proc'[p] = "none" <=> proc[p] = "none"
                           /\ proc'[p] = "alive" => proc[p] = "alive"
    BY <1>24 DEF HostExit, TypeOK, Stages
  <2>. QED
    BY <2>1, <2>2, EndingStep
<1>25. CASE UNCHANGED vars
  BY <1>25, <1>0 DEF vars
<1>. QED
  BY <1>1, <1>2, <1>3, <1>4, <1>5, <1>6, <1>7, <1>8, <1>9, <1>10, <1>11, <1>12,
       <1>13, <1>14, <1>15, <1>16, <1>17, <1>18, <1>19, <1>20, <1>21, <1>22, <1>23,
       <1>24, <1>25
     DEF Next, StartStep, MonitorStep, CancelStep, ShutdownStep, Finished

(* The pool counts as this module does: both instances of FiniteSets define *)
(* the same Cardinality.                                                    *)
LEMMA PoolCardinality == \A S : Pool!Cardinality(S) = Cardinality(S)
BY DEF Pool!Cardinality, Pool!IsFiniteSet, Cardinality, IsFiniteSet

(* MAX_ACTIVE_RUNS holds of what really runs: the registry implements a     *)
(* pool of that many slots.                                                 *)
THEOREM PoolImplemented == Spec => PoolSpec
<1>1. Init => Pool!Init
  BY DEF Init, Pool!Init, Working, Spent, HeldQueries
<1>2. TypeOK /\ Stages /\ SlotsAccounted /\ Limited /\ [Next]_vars
        => [Pool!Next]_<<Working, Spent>>
  <2> SUFFICES ASSUME TypeOK, Stages, SlotsAccounted, Limited, [Next]_vars
               PROVE  Pool!Next
    OBVIOUS
  <2>1. ASSUME NEW t \in Runs \cup Queries, t \notin Working \cup Spent,
               Working' = Working \cup {t}, Spent' = Spent, Cardinality(Working) < MaxActive
        PROVE  Pool!Next
    BY <2>1, PoolCardinality DEF Pool!Next, Pool!Take
  <2>2. ASSUME NEW done \in SUBSET Working,
               Working' = Working \ done, Spent' = Spent \cup done
        PROVE  Pool!Next
    <3>1. done \in SUBSET (Runs \cup Queries)
      BY DEF Working, HeldQueries
    <3>. QED
      BY <2>2, <3>1 DEF Pool!Next, Pool!Give
  <2>. QED
    BY <2>1, <2>2, WorkStep DEF WorkMoves
<1>. QED
  BY <1>1, <1>2, TypeCorrect, StagesCorrect, SlotsCorrect, PTL DEF Spec, PoolSpec, Pool!Spec
=============================================================================
