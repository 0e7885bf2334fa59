-------------------------- MODULE RunJournalProofs --------------------------
(***************************************************************************)
(* What holds of the journal of a run for any number of readers, events     *)
(* and crashes.                                                             *)
(*                                                                         *)
(* Two facts carry the rest.  The lease has one holder, who is at work on   *)
(* the journal (Leased); and whoever holds it has seen the state file as    *)
(* it is (WriterKnows, ReaderKnows).  From there the counts follow: what    *)
(* the writer remembers is what the file holds until the file is cut, and   *)
(* an end that vouches for the events was written after they were synced.   *)
(*                                                                         *)
(* Then what holds of the page that follows a run (RunStream).  What it     *)
(* shows is the run's up to its cursor, and no answer that it still takes   *)
(* is behind that cursor (Shown); and what it waits for is what it asked    *)
(* for last (Waits).                                                        *)
(***************************************************************************)
EXTENDS RunJournal, RunStream, SequenceTheorems, TLAPS

Claiming == {"owned", "reconciling", "synced", "releasing"}
Writing  == {"renamed", "open", "appending", "publishing"}
Vouching == Normal \cup {"interrupted"}

Leased ==
  /\ owner = "writer" <=> writer.pc \in Holding
  /\ \A r \in Readers : owner = r <=> reader[r].pc \in Claiming

(* Before the rename nobody has seen the journal, and nothing is in it.     *)
Fresh ==
  /\ root => writer.pc \notin {"idle", "leased"}
  /\ ~root => /\ writer.pc \in {"idle", "leased", "refused", "gone"}
              /\ state = NewState /\ writer.memory = NewState
              /\ writer.seq = 0 /\ ~writer.broken
              /\ log = [stored |-> 0, synced |-> 0, tail |-> FALSE]
              /\ \A r \in Readers : reader[r].pc = "idle"

WriterKnows ==
  /\ writer.pc \in Holding \ {"published"} => ~Ended(state)
  /\ writer.pc \in {"renamed", "open", "appending"} => ~Ended(writer.memory)
  /\ writer.pc = "publishing" => writer.memory.status \in Ends \ {"interrupted"}
  /\ writer.pc \in {"published", "closed", "done"} => Ended(state)
  /\ state.status = "interrupted" => writer.pc \in {"gone", "refused"}

WriterCounts ==
  /\ writer.pc \in Writing => writer.memory.count = log.stored
  /\ writer.pc \in Writing \ {"appending"} /\ ~writer.broken => ~log.tail
  /\ writer.pc \in {"renamed", "open"} /\ ~writer.broken /\ ~writer.memory.truncated =>
       writer.seq = log.stored
  /\ writer.pc = "appending" =>
       ~writer.broken /\ ~writer.memory.truncated /\ writer.seq = log.stored + 1
  /\ writer.pc = "publishing" /\ writer.memory.status \in Normal =>
       ~writer.broken /\ log.synced = log.stored

FileCounts ==
  /\ log.synced <= log.stored
  /\ ~lost => state.count <= log.stored
  /\ state.status \in Vouching =>
       state.count = log.stored /\ log.synced = log.stored /\ ~log.tail
  /\ Ended(state) /\ ~lost /\ ~writer.broken => state.count = log.stored /\ ~log.tail

ReaderKnows == \A r \in Readers :
  /\ reader[r].pc \in {"reconciling", "synced"} => ~Ended(state) /\ reader[r].seen = state
  /\ reader[r].pc \in {"releasing", "removing"} => Ended(state) /\ reader[r].seen = state
  /\ reader[r].pc = "running" => ~Ended(reader[r].seen)
  /\ reader[r].pc = "settled" /\ Ended(reader[r].seen) => reader[r].seen = state
  /\ reader[r].pc = "synced" =>
       reader[r].length = log.stored /\ log.synced = log.stored /\ ~log.tail
  /\ reader[r].pc # "idle" /\ ~lost => reader[r].seen.count <= log.stored

Inv ==
  /\ TypeOK /\ Leased /\ Fresh /\ WriterKnows /\ WriterCounts /\ FileCounts /\ ReaderKnows
  /\ ReadableUnlessBroken

-----------------------------------------------------------------------------
(* The types of the variables, under names of their own. *)
Stages == Holding \cup {"idle", "refused", "closed", "done", "gone"}
Writers == [pc : Stages, seq : Nat, memory : States, broken : BOOLEAN]
Logs == [stored : Nat, synced : Nat, tail : BOOLEAN]
Steps == {"idle", "running", "owned", "reconciling", "synced",
          "releasing", "removing", "settled", "read", "invalid"}
ReaderStates == [pc : Steps, seen : States, length : Nat]

(* The writer's record with some of its fields changed is one of its records. *)
LEMMA WriterTyped ==
  ASSUME NEW w \in Writers, NEW pc \in Stages, NEW n \in Nat, NEW s \in States, NEW b \in BOOLEAN
  PROVE  /\ [w EXCEPT !.pc = pc] \in Writers
         /\ [w EXCEPT !.pc = pc, !.seq = n] \in Writers
         /\ [w EXCEPT !.seq = n, !.memory = s] \in Writers
         /\ [w EXCEPT !.seq = n, !.memory = s, !.broken = b] \in Writers
         /\ [w EXCEPT !.pc = pc, !.memory = s] \in Writers
         /\ [w EXCEPT !.pc = pc, !.broken = b] \in Writers
BY DEF Writers

(* What AppendBegin changes, field by field. *)
LEMMA BeginEffect ==
  ASSUME TypeOK, AppendBegin
  PROVE  /\ writer' \in Writers /\ log' \in Logs
         /\ writer'.pc = "appending" /\ writer'.seq = writer.seq + 1
         /\ writer'.memory = writer.memory /\ writer'.broken = writer.broken
         /\ log'.stored = log.stored /\ log'.synced = log.synced
         /\ writer.pc = "open" /\ ~writer.broken /\ ~writer.memory.truncated
         /\ UNCHANGED <<root, state, owner, reader, lost>>
<1>1. writer \in Writers /\ log \in Logs
  BY DEF TypeOK, Writers, Logs, Stages
<1>2. writer.seq \in Nat /\ writer.seq + 1 \in Nat /\ "appending" \in Stages
  BY <1>1 DEF Writers, Stages, Holding
<1>3. writer' = [writer EXCEPT !.pc = "appending", !.seq = writer.seq + 1]
  BY DEF AppendBegin
<1>4. writer' \in Writers
  BY <1>1, <1>2, <1>3 DEF Writers
<1>5. /\ writer'.pc = "appending" /\ writer'.seq = writer.seq + 1
      /\ writer'.memory = writer.memory /\ writer'.broken = writer.broken
  BY <1>1, <1>3 DEF Writers
<1>6. log' \in Logs /\ log'.stored = log.stored /\ log'.synced = log.synced
  BY <1>1 DEF AppendBegin, Logs
<1> QED
  BY <1>4, <1>5, <1>6 DEF AppendBegin, CanAppend, Full

(* What AppendEnd changes, field by field. *)
LEMMA AppendEffect ==
  ASSUME TypeOK, AppendEnd
  PROVE  /\ writer' \in Writers /\ log' \in Logs
         /\ writer'.pc = "open" /\ writer'.seq = writer.seq
         /\ writer'.memory.count = writer.seq /\ writer'.broken = writer.broken
         /\ writer'.memory.status = writer.memory.status
         /\ writer'.memory.truncated = writer.memory.truncated
         /\ log'.stored = log.stored + 1 /\ log'.synced = log.synced /\ ~log'.tail
         /\ writer.pc = "appending" /\ UNCHANGED <<root, state, owner, reader, lost>>
<1>1. writer \in Writers /\ log \in Logs
  BY DEF TypeOK, Writers, Logs, Stages
<1> DEFINE m == [writer.memory EXCEPT !.count = writer.seq]
<1>2. /\ m \in States /\ m.count = writer.seq
      /\ m.status = writer.memory.status /\ m.truncated = writer.memory.truncated
  BY <1>1 DEF Writers, States
<1>3. writer' = [writer EXCEPT !.pc = "open", !.memory = m]
  BY <1>1 DEF AppendEnd, Writers
<1>4. "open" \in Stages
  BY DEF Stages, Holding
<1> HIDE DEF m
<1>5. writer' \in Writers
  BY <1>1, <1>2, <1>3, <1>4, WriterTyped
<1>6. log' = [log EXCEPT !.stored = log.stored + 1, !.tail = FALSE]
  BY Zenon DEF AppendEnd
<1>9. log.stored \in Nat /\ log.stored + 1 \in Nat
  BY <1>1 DEF Logs
<1>7. /\ log' \in Logs /\ log'.stored = log.stored + 1 /\ log'.synced = log.synced /\ ~log'.tail
  BY <1>1, <1>6, <1>9 DEF Logs
<1>8. /\ writer'.pc = "open" /\ writer'.seq = writer.seq
      /\ writer'.memory = m /\ writer'.broken = writer.broken
  BY <1>1, <1>3 DEF Writers
<1> QED
  BY <1>2, <1>5, <1>7, <1>8 DEF AppendEnd

(* What AppendOverflow changes, field by field. *)
LEMMA OverflowEffect ==
  ASSUME TypeOK, AppendOverflow
  PROVE  /\ writer' \in Writers /\ writer'.pc = "open" /\ writer'.seq = writer.seq + 1
         /\ writer'.memory \in States /\ writer'.memory.truncated
         /\ writer'.memory.status = writer.memory.status
         /\ writer'.memory.count = writer.memory.count
         /\ writer.broken => writer'.broken
         /\ state' = state \/ state' = writer'.memory
         /\ state' \in States
         /\ writer.pc = "open" /\ ~writer.broken /\ UNCHANGED <<root, log, owner, reader, lost>>
<1> DEFINE cut == [writer.memory EXCEPT !.truncated = TRUE]
<1>1. /\ cut \in States /\ cut.truncated
      /\ cut.status = writer.memory.status /\ cut.count = writer.memory.count
  BY DEF TypeOK, States
<1>2. writer \in Writers /\ state \in States
  BY DEF TypeOK, Writers, Stages
<1>3. writer.seq \in Nat /\ writer.seq + 1 \in Nat /\ writer.pc = "open"
  BY <1>2 DEF AppendOverflow, CanAppend, Writers
<1>4. \/ state' = cut /\ writer' = [writer EXCEPT !.seq = writer.seq + 1, !.memory = cut]
      \/ state' = state /\ writer' = [writer EXCEPT !.seq = writer.seq + 1, !.memory = cut, !.broken = TRUE]
  BY Zenon DEF AppendOverflow
<1> HIDE DEF cut
<1>5. writer' \in Writers
  BY <1>1, <1>2, <1>3, <1>4 DEF Writers
<1> QED
  BY <1>1, <1>2, <1>3, <1>4, <1>5 DEF Writers, AppendOverflow, CanAppend

(* What FinishSync changes: a normal end is wanted only after a sync. *)
LEMMA SyncEffect ==
  ASSUME TypeOK, NEW want \in Ends \ {"interrupted"}, FinishSync(want)
  PROVE  /\ writer' \in Writers /\ writer'.pc = "publishing" /\ writer'.seq = writer.seq
         /\ writer'.memory \in States /\ writer'.memory.count = writer.memory.count
         /\ writer'.memory.status \in Ends \ {"interrupted"}
         /\ writer'.broken = writer.broken
         /\ log' \in Logs /\ log'.stored = log.stored /\ log'.tail = log.tail
         /\ writer'.memory.status \in Normal => ~writer.broken /\ log'.synced = log.stored
         /\ writer.pc = "open" /\ log'.synced \in {log.synced, log.stored}
         /\ UNCHANGED <<root, state, owner, reader, lost>>
<1>1. PICK w \in Ends \ {"interrupted"} :
        /\ writer' = [writer EXCEPT !.pc = "publishing", !.memory = Completed(w)]
        /\ log' = [log EXCEPT !.synced = log.stored] \/ (w = "failed" /\ log' = log)
  BY DEF FinishSync, Ends
<1>2. /\ Completed(w) \in States /\ Completed(w).count = writer.memory.count
      /\ Completed(w).status = IF writer.broken THEN "failed" ELSE w
  BY DEF Completed, TypeOK, States, Ends
<1>3. writer \in Writers /\ log \in Logs /\ "publishing" \in Stages
  BY DEF TypeOK, Writers, Logs, Stages, Holding
<1>4. writer' \in Writers
  BY <1>1, <1>2, <1>3, WriterTyped
<1>5. log' \in Logs /\ log'.stored = log.stored /\ log'.tail = log.tail
  BY <1>1, <1>3 DEF Logs
<1>6. (w # "failed" => log'.synced = log.stored) /\ log'.synced \in {log.synced, log.stored}
  BY <1>1, <1>3 DEF Logs
<1>7. writer.pc = "open" /\ UNCHANGED <<root, state, owner, reader, lost>>
  BY DEF FinishSync
<1> QED
  BY <1>1, <1>2, <1>3, <1>4, <1>5, <1>6, <1>7 DEF Writers, Ends, Normal

(* The two outcomes of Reconcile: refused, or cut and synced. *)
LEMMA ReconcileEffect ==
  ASSUME TypeOK, NEW r \in Readers, Reconcile(r)
  PROVE  /\ log' \in Logs /\ log'.stored = log.stored
         /\ \/ log' = log /\ reader[r].seen.count > log.stored /\ Refuse(r)
            \/ /\ reader[r].seen.count <= log.stored
               /\ log'.synced = log.stored /\ ~log'.tail /\ owner' = owner
               /\ reader' = [reader EXCEPT ![r].pc = "synced", ![r].length = log.stored]
         /\ reader[r].pc = "reconciling" /\ UNCHANGED <<root, state, writer, lost>>
<1>1. log \in Logs /\ reader[r].seen.count \in Nat /\ log.stored \in Nat
  BY DEF TypeOK, Logs, States
<1>2. CASE reader[r].seen.count > log.stored
  BY <1>1, <1>2 DEF Reconcile
<1>3. CASE ~(reader[r].seen.count > log.stored)
  <2>1. log' = [log EXCEPT !.synced = log.stored, !.tail = FALSE]
    BY <1>3 DEF Reconcile
  <2>2. log' \in Logs /\ log'.stored = log.stored /\ log'.synced = log.stored /\ ~log'.tail
    BY <1>1, <2>1 DEF Logs
  <2> QED
    BY <1>1, <1>3, <2>2 DEF Reconcile
<1> QED
  BY <1>2, <1>3 DEF Reconcile

(* A power loss keeps what was synced, and a new tail only of a shorter file. *)
LEMMA LossEffect ==
  ASSUME TypeOK, log.synced <= log.stored, PowerLoss
  PROVE  /\ log' \in Logs /\ log.synced <= log'.stored /\ log'.stored <= log.stored
         /\ log'.synced = log.synced
         /\ log'.tail => log.tail \/ log'.stored < log.stored
<1>1. log \in Logs
  BY DEF TypeOK, Logs
<1>2. PICK kept \in log.synced .. log.stored, tail \in BOOLEAN :
        /\ tail => log.tail \/ kept < log.stored
        /\ log' = [log EXCEPT !.stored = kept, !.tail = tail]
  BY DEF PowerLoss
<1>3. kept \in Nat /\ log.synced <= kept /\ kept <= log.stored
  BY <1>1, <1>2 DEF Logs
<1>4. log' \in Logs /\ log'.stored = kept /\ log'.synced = log.synced /\ log'.tail = tail
  BY <1>1, <1>2, <1>3 DEF Logs
<1> QED
  BY <1>2, <1>3, <1>4

(* A reader that moves has a state of the type. *)
LEMMA MoveTyped ==
  ASSUME reader \in [Readers -> ReaderStates], NEW r \in Readers, NEW pc \in Steps
  PROVE  [reader EXCEPT ![r].pc = pc] \in [Readers -> ReaderStates]
<1>1. reader[r] \in ReaderStates
  OBVIOUS
<1>2. [reader[r] EXCEPT !.pc = pc] \in ReaderStates
  BY <1>1 DEF ReaderStates
<1> QED
  BY <1>2

(* A reader that moves and reads the state file has a state of the type. *)
LEMMA SeeTyped ==
  ASSUME reader \in [Readers -> ReaderStates], NEW r \in Readers, NEW pc \in Steps, NEW s \in States
  PROVE  [reader EXCEPT ![r].pc = pc, ![r].seen = s] \in [Readers -> ReaderStates]
<1>1. reader[r] \in ReaderStates
  OBVIOUS
<1>2. [reader[r] EXCEPT !.pc = pc, !.seen = s] \in ReaderStates
  BY <1>1 DEF ReaderStates
<1> QED
  BY <1>2

(* A reader that moves and reads the events has a state of the type. *)
LEMMA LengthTyped ==
  ASSUME reader \in [Readers -> ReaderStates], NEW r \in Readers, NEW pc \in Steps, NEW n \in Nat
  PROVE  [reader EXCEPT ![r].pc = pc, ![r].length = n] \in [Readers -> ReaderStates]
<1>1. reader[r] \in ReaderStates
  OBVIOUS
<1>2. [reader[r] EXCEPT !.pc = pc, !.length = n] \in ReaderStates
  BY <1>1 DEF ReaderStates
<1> QED
  BY <1>2

(* What ReconcilePublish writes: an interrupted end with the counted events. *)
LEMMA PublishEffect ==
  ASSUME TypeOK, NEW r \in Readers, ReconcilePublish(r)
  PROVE  state' \in States /\ state'.count = reader[r].length /\ See(r, "releasing", state')
         /\ state'.status = "interrupted"
<1>1. reader[r].seen \in States /\ reader[r].length \in Nat
  BY DEF TypeOK
<1>2. state' = [reader[r].seen EXCEPT !.status = "interrupted", !.count = reader[r].length]
  BY DEF ReconcilePublish
<1>3. state' \in States /\ state'.count = reader[r].length /\ state'.status = "interrupted"
  BY <1>1, <1>2 DEF States, Ends
<1> QED
  BY <1>2, <1>3 DEF ReconcilePublish

(* Every step of a reader keeps the readers' states in their type. *)
LEMMA ReaderTyped ==
  ASSUME TypeOK, NEW r \in Readers, ReaderStep(r)
  PROVE  reader' \in [Readers -> ReaderStates]
<1>1. state \in States /\ log.stored \in Nat /\ reader \in [Readers -> ReaderStates]
  BY DEF TypeOK, ReaderStates, Steps
<1>2. CASE ReadState(r)
  BY <1>1, <1>2, SeeTyped DEF ReadState, See, Steps
<1>3. CASE TryAcquire(r)
  <2>1. PICK pc \in {"owned", "settled"} : reader' = [reader EXCEPT ![r].pc = pc]
    BY <1>3, Zenon DEF TryAcquire, Move
  <2>2. pc \in Steps
    BY <2>1 DEF Steps
  <2> QED
    BY <1>1, <2>1, <2>2, MoveTyped
<1>4. CASE Recheck(r)
  BY <1>1, <1>4, SeeTyped DEF Recheck, See, Steps
<1>5. CASE Reconcile(r)
  <2>1. \/ reader' = [reader EXCEPT ![r].pc = "invalid"]
        \/ reader' = [reader EXCEPT ![r].pc = "synced", ![r].length = log.stored]
    BY <1>5, Zenon DEF Reconcile, Refuse, Move
  <2>2. "invalid" \in Steps /\ "synced" \in Steps
    BY DEF Steps
  <2>3. [reader EXCEPT ![r].pc = "invalid"] \in [Readers -> ReaderStates]
    BY <1>1, <2>2, MoveTyped
  <2>4. [reader EXCEPT ![r].pc = "synced", ![r].length = log.stored] \in [Readers -> ReaderStates]
    BY <1>1, <2>2, LengthTyped
  <2> QED
    BY <2>1, <2>3, <2>4
<1>6. CASE ReconcilePublish(r)
  <2>1. reader' = [reader EXCEPT ![r].pc = "releasing", ![r].seen = state'] /\ state' \in States
    BY <1>6, PublishEffect DEF See
  <2>2. "releasing" \in Steps
    BY DEF Steps
  <2> QED
    BY <1>1, <2>1, <2>2, SeeTyped
<1>7. CASE ReconcileFails(r) \/ ReleaseClose(r) \/ ReleaseRemove(r)
  <2>1. PICK pc \in {"idle", "removing", "settled"} : reader' = [reader EXCEPT ![r].pc = pc]
    BY <1>7, Zenon DEF ReconcileFails, ReleaseClose, ReleaseRemove, Move
  <2>2. pc \in Steps
    BY <2>1 DEF Steps
  <2> QED
    BY <1>1, <2>1, <2>2, MoveTyped
<1>8. CASE ReadEvents(r)
  BY <1>1, <1>8, LengthTyped DEF ReadEvents, Steps
<1>9. CASE ReaderEnds(r)
  <2>1. [pc |-> "idle", seen |-> NewState, length |-> 0] \in ReaderStates
    BY DEF ReaderStates, NewState, States, Ends, Steps
  <2> QED
    BY <1>1, <1>9, <2>1 DEF ReaderEnds, Quit
<1> QED
  BY <1>2, <1>3, <1>4, <1>5, <1>6, <1>7, <1>8, <1>9 DEF ReaderStep

(* The invariant holds of a run that has not started. *)
LEMMA Initially == Init => Inv
<1>1. ASSUME Init PROVE TypeOK
  <2>1. NewState \in States /\ NewState.count = 0
    BY DEF States, NewState, Ends
  <2>2. writer \in Writers /\ writer.seq = 0
    BY <1>1, <2>1 DEF Init, Writers, Stages
  <2>3. reader \in [Readers -> ReaderStates]
    BY <1>1, <2>1 DEF Init, ReaderStates, Steps
  <2>4. log \in Logs /\ log.stored = 0
    BY <1>1 DEF Init, Logs
  <2>5. root \in BOOLEAN /\ lost \in BOOLEAN /\ owner = "absent" /\ state = NewState
    BY <1>1 DEF Init
  <2> QED
    BY <2>1, <2>2, <2>3, <2>4, <2>5 DEF TypeOK, Writers, Stages, Steps, ReaderStates, Logs
<1>2. ASSUME Init PROVE Leased /\ Fresh
  BY <1>2, ReaderAssumption DEF Init, Leased, Claiming, Fresh, Holding, NewState
<1>3. ASSUME Init PROVE WriterKnows /\ WriterCounts
  BY <1>3 DEF Init, WriterKnows, WriterCounts, Writing, NewState, Holding, Ended
<1>4. ASSUME Init PROVE FileCounts /\ ReaderKnows /\ ReadableUnlessBroken
  BY <1>4 DEF Init, FileCounts, Vouching, Normal, NewState, ReaderKnows, ReadableUnlessBroken, Ended
<1> QED
  BY <1>1, <1>2, <1>3, <1>4 DEF Inv

(* The type is kept by every step. *)
LEMMA TypePreserved == ASSUME Inv, [Next]_vars PROVE TypeOK'
<1> USE CapacityAssumption, ReaderAssumption DEF Inv, TypeOK, States, Holding, Ends, Normal, NewState, Ended, WriterCounts, Writing, FileCounts, ReaderKnows
<1>1. CASE UNCHANGED vars
  BY <1>1 DEF vars
<1>2. CASE StartLease
  BY <1>2 DEF StartLease, Goto
<1>3. CASE StartFails
  BY <1>3 DEF StartFails, Goto
<1>4. CASE StartRename
  BY <1>4 DEF StartRename, Goto
<1>5. CASE StartOpen
  BY <1>5 DEF StartOpen, Goto
<1>6. CASE AppendBegin
  BY <1>6, BeginEffect DEF Writers, Stages, Logs
<1>7. CASE AppendEnd
  BY <1>7, AppendEffect DEF Writers, Stages, Logs
<1>8. CASE AppendFails
  <2>1. /\ writer' = [writer EXCEPT !.pc = "open", !.broken = TRUE]
        /\ \E partial \in BOOLEAN : log' = [log EXCEPT !.tail = partial]
        /\ writer.pc = "appending" /\ UNCHANGED <<root, state, owner, reader, lost>>
    BY <1>8 DEF AppendFails
  <2>2. writer \in Writers /\ log \in Logs
    BY DEF Writers, Stages, Logs
  <2>3. writer' \in Writers /\ log' \in Logs
    BY <2>1, <2>2 DEF Writers, Stages, Logs
  <2> QED
    BY <2>1, <2>3 DEF Writers, Stages, Logs
<1>9. CASE AppendOverflow
  BY <1>9, OverflowEffect DEF Writers, Stages, Logs
<1>10. ASSUME NEW want \in Ends \ {"interrupted"}, FinishSync(want) PROVE TypeOK'
  BY <1>10, SyncEffect DEF Writers, Stages, Logs
<1>11. CASE FinishPublish
  BY <1>11 DEF FinishPublish, Goto
<1>12. CASE FinishClose
  BY <1>12 DEF FinishClose, Goto
<1>13. CASE FinishRemove
  BY <1>13 DEF FinishRemove, Goto, Unlink
<1>14. CASE WriterGone
  BY <1>14 DEF WriterGone, Goto
<1>15. ASSUME NEW r \in Readers, ReadState(r) PROVE TypeOK'
  BY <1>15, ReaderTyped DEF ReaderStep, ReaderStates, Steps, ReadState
<1>16. ASSUME NEW r \in Readers, TryAcquire(r) PROVE TypeOK'
  BY <1>16, ReaderTyped DEF ReaderStep, ReaderStates, Steps, TryAcquire
<1>17. ASSUME NEW r \in Readers, Recheck(r) PROVE TypeOK'
  BY <1>17, ReaderTyped DEF ReaderStep, ReaderStates, Steps, Recheck
<1>18. ASSUME NEW r \in Readers, Reconcile(r) PROVE TypeOK'
  <2>1. log' \in Logs /\ log'.stored = log.stored /\ UNCHANGED <<root, state, writer, lost>>
    BY <1>18, ReconcileEffect
  <2>2. reader' \in [Readers -> ReaderStates]
    BY <1>18, ReaderTyped DEF ReaderStep
  <2>3. owner' \in {owner, "free"}
    BY <1>18, ReconcileEffect DEF Refuse
  <2> QED
    BY <2>1, <2>2, <2>3 DEF Logs, ReaderStates, Steps
<1>19. ASSUME NEW r \in Readers, ReconcilePublish(r) PROVE TypeOK'
  <2>1. state' \in States /\ state'.count = reader[r].length
    BY <1>19, PublishEffect
  <2>2. reader' \in [Readers -> ReaderStates]
    BY <1>19, ReaderTyped DEF ReaderStep
  <2>3. reader[r].length = log.stored /\ UNCHANGED <<root, log, owner, writer, lost>>
    BY <1>19 DEF ReconcilePublish, ReaderKnows
  <2> QED
    BY <2>1, <2>2, <2>3 DEF ReaderStates, Steps
<1>20. ASSUME NEW r \in Readers, ReconcileFails(r) PROVE TypeOK'
  BY <1>20, ReaderTyped DEF ReaderStep, ReaderStates, Steps, ReconcileFails
<1>21. ASSUME NEW r \in Readers, ReleaseClose(r) PROVE TypeOK'
  BY <1>21, ReaderTyped DEF ReaderStep, ReaderStates, Steps, ReleaseClose
<1>22. ASSUME NEW r \in Readers, ReleaseRemove(r) PROVE TypeOK'
  BY <1>22, ReaderTyped DEF ReaderStep, ReaderStates, Steps, ReleaseRemove, Unlink
<1>23. ASSUME NEW r \in Readers, ReadEvents(r) PROVE TypeOK'
  <2>1. reader' \in [Readers -> ReaderStates]
    BY <1>23, ReaderTyped DEF ReaderStep
  <2>2. UNCHANGED <<root, state, log, owner, writer, lost>>
    BY <1>23 DEF ReadEvents
  <2> QED
    BY <2>1, <2>2 DEF ReaderStates, Steps
<1>24. ASSUME NEW r \in Readers, ReaderEnds(r) PROVE TypeOK'
  BY <1>24, ReaderTyped DEF ReaderStep, ReaderStates, Steps, ReaderEnds
<1>25. CASE PowerLoss
  <2>1. log' \in Logs /\ log'.stored <= log.stored
    BY <1>25, LossEffect
  <2>2. writer' = [writer EXCEPT !.pc = "gone"] /\ reader' \in [Readers -> ReaderStates]
    BY <1>25 DEF PowerLoss, ReaderStates, Steps
  <2>3. owner' \in {"absent", "free"} /\ lost' = TRUE /\ UNCHANGED <<root, state>>
    BY <1>25 DEF PowerLoss
  <2>4. writer' \in Writers /\ writer'.seq = writer.seq
    BY <2>2 DEF Writers, Stages
  <2>5. log'.stored <= writer.seq
    BY <2>1 DEF Logs
  <2> QED
    BY <2>1, <2>2, <2>3, <2>4, <2>5 DEF Logs, Writers, Stages, ReaderStates, Steps
<1> QED
  BY <1>1, <1>2, <1>3, <1>4, <1>5, <1>6, <1>7, <1>8, <1>9, <1>10, <1>11, <1>12, <1>13, <1>14, <1>15, <1>16, <1>17, <1>18, <1>19, <1>20, <1>21, <1>22, <1>23, <1>24, <1>25 DEF Next, WriterStep, ReaderStep, Rest

(* The lease keeps one holder, who is at work on the journal. *)
LEMMA LeasePreserved == ASSUME Inv, [Next]_vars PROVE (Leased /\ Fresh)'
<1> USE CapacityAssumption, ReaderAssumption DEF Inv, TypeOK, States, Holding, Ends, Normal, NewState, Ended, Leased, Claiming, Fresh
<1>1. CASE UNCHANGED vars
  BY <1>1 DEF vars
<1>2. CASE StartLease
  BY <1>2 DEF StartLease, Goto
<1>3. CASE StartFails
  BY <1>3 DEF StartFails, Goto
<1>4. CASE StartRename
  BY <1>4 DEF StartRename, Goto
<1>5. CASE StartOpen
  BY <1>5 DEF StartOpen, Goto
<1>6. CASE AppendBegin
  BY <1>6, BeginEffect DEF Writers, Stages, Logs
<1>7. CASE AppendEnd
  BY <1>7, AppendEffect DEF Writers, Stages, Logs
<1>8. CASE AppendFails
  BY <1>8 DEF AppendFails
<1>9. CASE AppendOverflow
  BY <1>9, OverflowEffect DEF Writers, Stages, Logs
<1>10. ASSUME NEW want \in Ends \ {"interrupted"}, FinishSync(want) PROVE (Leased /\ Fresh)'
  BY <1>10, SyncEffect DEF Writers, Stages, Logs
<1>11. CASE FinishPublish
  BY <1>11 DEF FinishPublish, Goto
<1>12. CASE FinishClose
  BY <1>12 DEF FinishClose, Goto
<1>13. CASE FinishRemove
  BY <1>13 DEF FinishRemove, Goto, Unlink
<1>14. CASE WriterGone
  BY <1>14 DEF WriterGone, Goto
<1>15. ASSUME NEW r \in Readers, ReadState(r) PROVE (Leased /\ Fresh)'
  BY <1>15 DEF ReadState, See
<1>16. ASSUME NEW r \in Readers, TryAcquire(r) PROVE (Leased /\ Fresh)'
  BY <1>16 DEF TryAcquire, Move
<1>17. ASSUME NEW r \in Readers, Recheck(r) PROVE (Leased /\ Fresh)'
  BY <1>17 DEF Recheck, See
<1>18. ASSUME NEW r \in Readers, Reconcile(r) PROVE (Leased /\ Fresh)'
  <2>1. /\ log' \in Logs /\ log'.stored = log.stored
        /\ reader[r].pc = "reconciling" /\ UNCHANGED <<root, state, writer, lost>>
    BY <1>18, ReconcileEffect
  <2>2. CASE log' = log /\ reader[r].seen.count > log.stored /\ Refuse(r)
    BY <2>1, <2>2 DEF Refuse, Move
  <2>3. CASE /\ reader[r].seen.count <= log.stored
             /\ log'.synced = log.stored /\ ~log'.tail /\ owner' = owner
             /\ reader' = [reader EXCEPT ![r].pc = "synced", ![r].length = log.stored]
    BY <2>1, <2>3
  <2> QED
    BY <1>18, <2>2, <2>3, ReconcileEffect
<1>19. ASSUME NEW r \in Readers, ReconcilePublish(r) PROVE (Leased /\ Fresh)'
  BY <1>19 DEF ReconcilePublish, See
<1>20. ASSUME NEW r \in Readers, ReconcileFails(r) PROVE (Leased /\ Fresh)'
  BY <1>20 DEF ReconcileFails, Move
<1>21. ASSUME NEW r \in Readers, ReleaseClose(r) PROVE (Leased /\ Fresh)'
  BY <1>21 DEF ReleaseClose, Move
<1>22. ASSUME NEW r \in Readers, ReleaseRemove(r) PROVE (Leased /\ Fresh)'
  BY <1>22 DEF ReleaseRemove, Move, Unlink
<1>23. ASSUME NEW r \in Readers, ReadEvents(r) PROVE (Leased /\ Fresh)'
  <2>1. /\ reader[r].pc = "settled" /\ UNCHANGED <<root, state, owner, writer, log>>
        /\ \E pc \in {"read", "invalid"} :
             reader' = [reader EXCEPT ![r].pc = pc, ![r].length = log.stored]
    BY <1>23 DEF ReadEvents
  <2>2. /\ reader'[r].pc \in {"read", "invalid"}
        /\ \A q \in Readers \ {r} : reader'[q] = reader[q]
    BY <2>1
  <2> QED
    BY <2>1, <2>2
<1>24. ASSUME NEW r \in Readers, ReaderEnds(r) PROVE (Leased /\ Fresh)'
  BY <1>24 DEF ReaderEnds, Quit
<1>25. CASE PowerLoss
  <2>1. writer'.pc = "gone" /\ writer.pc # "idle" /\ UNCHANGED <<root, state>>
    BY <1>25 DEF PowerLoss
  <2>2. owner' \in {"absent", "free"} /\ \A r \in Readers : reader'[r].pc = "idle"
    BY <1>25 DEF PowerLoss
  <2>3. Leased'
    BY <2>1, <2>2
  <2>4. /\ writer'.memory = writer.memory /\ writer'.seq = writer.seq
        /\ writer'.broken = writer.broken
    BY <1>25 DEF PowerLoss
  <2>5. CASE ~root
    <3>1. /\ log' \in Logs /\ log'.stored = 0 /\ log'.synced = 0 /\ ~log'.tail
      BY <1>25, <2>5, LossEffect DEF FileCounts, Logs
    <3>2. log' = [stored |-> 0, synced |-> 0, tail |-> FALSE]
      BY <3>1 DEF Logs
    <3> QED
      BY <2>1, <2>2, <2>3, <2>4, <2>5, <3>2
  <2> QED
    BY <2>1, <2>3, <2>5
<1> QED
  BY <1>1, <1>2, <1>3, <1>4, <1>5, <1>6, <1>7, <1>8, <1>9, <1>10, <1>11, <1>12, <1>13, <1>14, <1>15, <1>16, <1>17, <1>18, <1>19, <1>20, <1>21, <1>22, <1>23, <1>24, <1>25 DEF Next, WriterStep, ReaderStep, Rest

(* The writer goes on knowing whether the state file has ended. *)
LEMMA WriterKnowsPreserved == ASSUME Inv, [Next]_vars PROVE WriterKnows'
<1> USE CapacityAssumption, ReaderAssumption DEF Inv, TypeOK, States, Holding, Ends, Normal, NewState, Ended, Leased, Claiming, Fresh, WriterKnows, ReaderKnows
<1>1. CASE UNCHANGED vars
  BY <1>1 DEF vars
<1>2. CASE StartLease
  BY <1>2 DEF StartLease, Goto
<1>3. CASE StartFails
  BY <1>3 DEF StartFails, Goto
<1>4. CASE StartRename
  BY <1>4 DEF StartRename, Goto
<1>5. CASE StartOpen
  BY <1>5 DEF StartOpen, Goto
<1>6. CASE AppendBegin
  BY <1>6, BeginEffect DEF Writers, Stages, Logs
<1>7. CASE AppendEnd
  BY <1>7, AppendEffect DEF Writers, Stages, Logs
<1>8. CASE AppendFails
  BY <1>8 DEF AppendFails
<1>9. CASE AppendOverflow
  BY <1>9, OverflowEffect DEF Writers, Stages, Logs
<1>10. ASSUME NEW want \in Ends \ {"interrupted"}, FinishSync(want) PROVE WriterKnows'
  BY <1>10, SyncEffect DEF Writers, Stages, Logs
<1>11. CASE FinishPublish
  BY <1>11 DEF FinishPublish, Goto
<1>12. CASE FinishClose
  BY <1>12 DEF FinishClose, Goto
<1>13. CASE FinishRemove
  BY <1>13 DEF FinishRemove, Goto, Unlink
<1>14. CASE WriterGone
  BY <1>14 DEF WriterGone, Goto
<1>15. ASSUME NEW r \in Readers, ReadState(r) PROVE WriterKnows'
  BY <1>15 DEF ReadState, See
<1>16. ASSUME NEW r \in Readers, TryAcquire(r) PROVE WriterKnows'
  BY <1>16 DEF TryAcquire, Move
<1>17. ASSUME NEW r \in Readers, Recheck(r) PROVE WriterKnows'
  BY <1>17 DEF Recheck, See
<1>18. ASSUME NEW r \in Readers, Reconcile(r) PROVE WriterKnows'
  BY <1>18, ReconcileEffect DEF Writers, Stages, Logs, Refuse, Move
<1>19. ASSUME NEW r \in Readers, ReconcilePublish(r) PROVE WriterKnows'
  BY <1>19 DEF ReconcilePublish, See
<1>20. ASSUME NEW r \in Readers, ReconcileFails(r) PROVE WriterKnows'
  BY <1>20 DEF ReconcileFails, Move
<1>21. ASSUME NEW r \in Readers, ReleaseClose(r) PROVE WriterKnows'
  BY <1>21 DEF ReleaseClose, Move
<1>22. ASSUME NEW r \in Readers, ReleaseRemove(r) PROVE WriterKnows'
  BY <1>22 DEF ReleaseRemove, Move, Unlink
<1>23. ASSUME NEW r \in Readers, ReadEvents(r) PROVE WriterKnows'
  BY <1>23 DEF ReadEvents, Consistent
<1>24. ASSUME NEW r \in Readers, ReaderEnds(r) PROVE WriterKnows'
  BY <1>24 DEF ReaderEnds, Quit
<1>25. CASE PowerLoss
  BY <1>25, LossEffect DEF PowerLoss, Logs
<1> QED
  BY <1>1, <1>2, <1>3, <1>4, <1>5, <1>6, <1>7, <1>8, <1>9, <1>10, <1>11, <1>12, <1>13, <1>14, <1>15, <1>16, <1>17, <1>18, <1>19, <1>20, <1>21, <1>22, <1>23, <1>24, <1>25 DEF Next, WriterStep, ReaderStep, Rest

(* The writer goes on knowing what the event file holds. *)
LEMMA WriterCountsPreserved == ASSUME Inv, [Next]_vars PROVE WriterCounts'
<1> USE CapacityAssumption, ReaderAssumption DEF Inv, TypeOK, States, Holding, Ends, Normal, NewState, Ended, Leased, Claiming, Fresh, WriterKnows, WriterCounts, Writing
<1>1. CASE UNCHANGED vars
  BY <1>1 DEF vars
<1>2. CASE StartLease
  BY <1>2 DEF StartLease, Goto
<1>3. CASE StartFails
  BY <1>3 DEF StartFails, Goto
<1>4. CASE StartRename
  BY <1>4 DEF StartRename, Goto
<1>5. CASE StartOpen
  BY <1>5 DEF StartOpen, Goto
<1>6. CASE AppendBegin
  BY <1>6, BeginEffect DEF Writers, Stages, Logs
<1>7. CASE AppendEnd
  BY <1>7, AppendEffect DEF Writers, Stages, Logs
<1>8. CASE AppendFails
  BY <1>8 DEF AppendFails
<1>9. CASE AppendOverflow
  BY <1>9, OverflowEffect DEF Writers, Stages, Logs
<1>10. ASSUME NEW want \in Ends \ {"interrupted"}, FinishSync(want) PROVE WriterCounts'
  BY <1>10, SyncEffect DEF Writers, Stages, Logs
<1>11. CASE FinishPublish
  BY <1>11 DEF FinishPublish, Goto
<1>12. CASE FinishClose
  BY <1>12 DEF FinishClose, Goto
<1>13. CASE FinishRemove
  BY <1>13 DEF FinishRemove, Goto, Unlink
<1>14. CASE WriterGone
  BY <1>14 DEF WriterGone, Goto
<1>15. ASSUME NEW r \in Readers, ReadState(r) PROVE WriterCounts'
  BY <1>15 DEF ReadState, See
<1>16. ASSUME NEW r \in Readers, TryAcquire(r) PROVE WriterCounts'
  BY <1>16 DEF TryAcquire, Move
<1>17. ASSUME NEW r \in Readers, Recheck(r) PROVE WriterCounts'
  BY <1>17 DEF Recheck, See
<1>18. ASSUME NEW r \in Readers, Reconcile(r) PROVE WriterCounts'
  <2>1. /\ writer' = writer /\ log'.stored = log.stored
        /\ log' = log \/ (~log'.tail /\ log'.synced = log.stored)
    BY <1>18, ReconcileEffect
  <2> QED
    BY <2>1
<1>19. ASSUME NEW r \in Readers, ReconcilePublish(r) PROVE WriterCounts'
  BY <1>19 DEF ReconcilePublish, See
<1>20. ASSUME NEW r \in Readers, ReconcileFails(r) PROVE WriterCounts'
  BY <1>20 DEF ReconcileFails, Move
<1>21. ASSUME NEW r \in Readers, ReleaseClose(r) PROVE WriterCounts'
  BY <1>21 DEF ReleaseClose, Move
<1>22. ASSUME NEW r \in Readers, ReleaseRemove(r) PROVE WriterCounts'
  BY <1>22 DEF ReleaseRemove, Move, Unlink
<1>23. ASSUME NEW r \in Readers, ReadEvents(r) PROVE WriterCounts'
  BY <1>23 DEF ReadEvents, Consistent
<1>24. ASSUME NEW r \in Readers, ReaderEnds(r) PROVE WriterCounts'
  BY <1>24 DEF ReaderEnds, Quit
<1>25. CASE PowerLoss
  BY <1>25, LossEffect DEF PowerLoss, Logs
<1> QED
  BY <1>1, <1>2, <1>3, <1>4, <1>5, <1>6, <1>7, <1>8, <1>9, <1>10, <1>11, <1>12, <1>13, <1>14, <1>15, <1>16, <1>17, <1>18, <1>19, <1>20, <1>21, <1>22, <1>23, <1>24, <1>25 DEF Next, WriterStep, ReaderStep, Rest

(* The state file goes on counting what the event file holds. *)
LEMMA FileCountsPreserved == ASSUME Inv, [Next]_vars PROVE FileCounts'
<1> USE CapacityAssumption, ReaderAssumption DEF Inv, TypeOK, States, Holding, Ends, Normal, NewState, Ended, Leased, Claiming, Fresh, WriterKnows, WriterCounts, Writing, FileCounts, Vouching, ReaderKnows
<1>1. CASE UNCHANGED vars
  BY <1>1 DEF vars
<1>2. CASE StartLease
  BY <1>2 DEF StartLease, Goto
<1>3. CASE StartFails
  BY <1>3 DEF StartFails, Goto
<1>4. CASE StartRename
  BY <1>4 DEF StartRename, Goto
<1>5. CASE StartOpen
  BY <1>5 DEF StartOpen, Goto
<1>6. CASE AppendBegin
  BY <1>6, BeginEffect DEF Writers, Stages, Logs
<1>7. CASE AppendEnd
  BY <1>7, AppendEffect DEF Writers, Stages, Logs
<1>8. CASE AppendFails
  BY <1>8 DEF AppendFails
<1>9. CASE AppendOverflow
  BY <1>9, OverflowEffect DEF Writers, Stages, Logs
<1>10. ASSUME NEW want \in Ends \ {"interrupted"}, FinishSync(want) PROVE FileCounts'
  BY <1>10, SyncEffect DEF Writers, Stages, Logs
<1>11. CASE FinishPublish
  BY <1>11 DEF FinishPublish, Goto
<1>12. CASE FinishClose
  BY <1>12 DEF FinishClose, Goto
<1>13. CASE FinishRemove
  BY <1>13 DEF FinishRemove, Goto, Unlink
<1>14. CASE WriterGone
  BY <1>14 DEF WriterGone, Goto
<1>15. ASSUME NEW r \in Readers, ReadState(r) PROVE FileCounts'
  BY <1>15 DEF ReadState, See
<1>16. ASSUME NEW r \in Readers, TryAcquire(r) PROVE FileCounts'
  BY <1>16 DEF TryAcquire, Move
<1>17. ASSUME NEW r \in Readers, Recheck(r) PROVE FileCounts'
  BY <1>17 DEF Recheck, See
<1>18. ASSUME NEW r \in Readers, Reconcile(r) PROVE FileCounts'
  <2>1. /\ log' \in Logs /\ log'.stored = log.stored
        /\ reader[r].pc = "reconciling" /\ UNCHANGED <<root, state, writer, lost>>
    BY <1>18, ReconcileEffect
  <2>2. CASE log' = log /\ reader[r].seen.count > log.stored /\ Refuse(r)
    BY <2>1, <2>2 DEF Refuse, Move
  <2>3. CASE /\ reader[r].seen.count <= log.stored
             /\ log'.synced = log.stored /\ ~log'.tail /\ owner' = owner
             /\ reader' = [reader EXCEPT ![r].pc = "synced", ![r].length = log.stored]
    BY <2>1, <2>3
  <2> QED
    BY <1>18, <2>2, <2>3, ReconcileEffect
<1>19. ASSUME NEW r \in Readers, ReconcilePublish(r) PROVE FileCounts'
  BY <1>19 DEF ReconcilePublish, See
<1>20. ASSUME NEW r \in Readers, ReconcileFails(r) PROVE FileCounts'
  BY <1>20 DEF ReconcileFails, Move
<1>21. ASSUME NEW r \in Readers, ReleaseClose(r) PROVE FileCounts'
  BY <1>21 DEF ReleaseClose, Move
<1>22. ASSUME NEW r \in Readers, ReleaseRemove(r) PROVE FileCounts'
  BY <1>22 DEF ReleaseRemove, Move, Unlink
<1>23. ASSUME NEW r \in Readers, ReadEvents(r) PROVE FileCounts'
  BY <1>23 DEF ReadEvents, Consistent
<1>24. ASSUME NEW r \in Readers, ReaderEnds(r) PROVE FileCounts'
  BY <1>24 DEF ReaderEnds, Quit
<1>25. CASE PowerLoss
  <2>1. /\ log' \in Logs /\ log.synced <= log'.stored /\ log'.stored <= log.stored
        /\ log'.synced = log.synced /\ (log'.tail => log.tail \/ log'.stored < log.stored)
    BY <1>25, LossEffect
  <2>2. lost' /\ state' = state
    BY <1>25 DEF PowerLoss
  <2>3. log.synced = log.stored => log'.stored = log.stored /\ (log'.tail => log.tail)
    <3>1. log.stored \in Nat /\ log'.stored \in Nat
      BY <2>1 DEF Logs
    <3>2. log.synced = log.stored => log'.stored = log.stored
      BY <2>1, <3>1
    <3> QED
      BY <2>1, <3>1, <3>2
  <2>4. log'.synced <= log'.stored
    BY <2>1
  <2>5. state.status \in Vouching =>
          state.count = log.stored /\ log.synced = log.stored /\ ~log.tail
    OBVIOUS
  <2> QED
    BY <2>1, <2>2, <2>3, <2>4, <2>5
<1> QED
  BY <1>1, <1>2, <1>3, <1>4, <1>5, <1>6, <1>7, <1>8, <1>9, <1>10, <1>11, <1>12, <1>13, <1>14, <1>15, <1>16, <1>17, <1>18, <1>19, <1>20, <1>21, <1>22, <1>23, <1>24, <1>25 DEF Next, WriterStep, ReaderStep, Rest

(* A reader at work on the journal goes on knowing what it holds. *)
LEMMA ReaderKnowsPreserved == ASSUME Inv, [Next]_vars PROVE ReaderKnows'
<1> USE CapacityAssumption, ReaderAssumption DEF Inv, TypeOK, States, Holding, Ends, Normal, NewState, Ended, Leased, Claiming, Fresh, WriterKnows, WriterCounts, Writing, FileCounts, Vouching, ReaderKnows
<1>1. CASE UNCHANGED vars
  BY <1>1 DEF vars
<1>2. CASE StartLease
  BY <1>2 DEF StartLease, Goto
<1>3. CASE StartFails
  BY <1>3 DEF StartFails, Goto
<1>4. CASE StartRename
  BY <1>4 DEF StartRename, Goto
<1>5. CASE StartOpen
  BY <1>5 DEF StartOpen, Goto
<1>6. CASE AppendBegin
  BY <1>6, BeginEffect DEF Writers, Stages, Logs
<1>7. CASE AppendEnd
  BY <1>7, AppendEffect DEF Writers, Stages, Logs
<1>8. CASE AppendFails
  BY <1>8 DEF AppendFails
<1>9. CASE AppendOverflow
  BY <1>9, OverflowEffect DEF Writers, Stages, Logs
<1>10. ASSUME NEW want \in Ends \ {"interrupted"}, FinishSync(want) PROVE ReaderKnows'
  BY <1>10, SyncEffect DEF Writers, Stages, Logs
<1>11. CASE FinishPublish
  BY <1>11 DEF FinishPublish, Goto
<1>12. CASE FinishClose
  BY <1>12 DEF FinishClose, Goto
<1>13. CASE FinishRemove
  BY <1>13 DEF FinishRemove, Goto, Unlink
<1>14. CASE WriterGone
  BY <1>14 DEF WriterGone, Goto
<1>15. ASSUME NEW r \in Readers, ReadState(r) PROVE ReaderKnows'
  BY <1>15 DEF ReadState, See
<1>16. ASSUME NEW r \in Readers, TryAcquire(r) PROVE ReaderKnows'
  BY <1>16 DEF TryAcquire, Move
<1>17. ASSUME NEW r \in Readers, Recheck(r) PROVE ReaderKnows'
  BY <1>17 DEF Recheck, See
<1>18. ASSUME NEW r \in Readers, Reconcile(r) PROVE ReaderKnows'
  <2>1. /\ log' \in Logs /\ log'.stored = log.stored
        /\ reader[r].pc = "reconciling" /\ UNCHANGED <<root, state, writer, lost>>
    BY <1>18, ReconcileEffect
  <2>2. CASE log' = log /\ reader[r].seen.count > log.stored /\ Refuse(r)
    BY <2>1, <2>2 DEF Refuse, Move
  <2>3. CASE /\ reader[r].seen.count <= log.stored
             /\ log'.synced = log.stored /\ ~log'.tail /\ owner' = owner
             /\ reader' = [reader EXCEPT ![r].pc = "synced", ![r].length = log.stored]
    BY <2>1, <2>3
  <2> QED
    BY <1>18, <2>2, <2>3, ReconcileEffect
<1>19. ASSUME NEW r \in Readers, ReconcilePublish(r) PROVE ReaderKnows'
  BY <1>19 DEF ReconcilePublish, See
<1>20. ASSUME NEW r \in Readers, ReconcileFails(r) PROVE ReaderKnows'
  BY <1>20 DEF ReconcileFails, Move
<1>21. ASSUME NEW r \in Readers, ReleaseClose(r) PROVE ReaderKnows'
  BY <1>21 DEF ReleaseClose, Move
<1>22. ASSUME NEW r \in Readers, ReleaseRemove(r) PROVE ReaderKnows'
  BY <1>22 DEF ReleaseRemove, Move, Unlink
<1>23. ASSUME NEW r \in Readers, ReadEvents(r) PROVE ReaderKnows'
  <2>1. /\ reader[r].pc = "settled" /\ UNCHANGED <<state, log, lost>>
        /\ \E pc \in {"read", "invalid"} :
             reader' = [reader EXCEPT ![r].pc = pc, ![r].length = log.stored]
    BY <1>23 DEF ReadEvents
  <2>2. /\ reader'[r].pc \in {"read", "invalid"} /\ reader'[r].seen = reader[r].seen
        /\ \A q \in Readers \ {r} : reader'[q] = reader[q]
    BY <2>1
  <2> QED
    BY <2>1, <2>2
<1>24. ASSUME NEW r \in Readers, ReaderEnds(r) PROVE ReaderKnows'
  BY <1>24 DEF ReaderEnds, Quit
<1>25. CASE PowerLoss
  BY <1>25, LossEffect DEF PowerLoss, Logs
<1> QED
  BY <1>1, <1>2, <1>3, <1>4, <1>5, <1>6, <1>7, <1>8, <1>9, <1>10, <1>11, <1>12, <1>13, <1>14, <1>15, <1>16, <1>17, <1>18, <1>19, <1>20, <1>21, <1>22, <1>23, <1>24, <1>25 DEF Next, WriterStep, ReaderStep, Rest

(* No step makes a reader refuse a journal that was not broken. *)
LEMMA ReadablePreserved == ASSUME Inv, [Next]_vars PROVE ReadableUnlessBroken'
<1> USE CapacityAssumption, ReaderAssumption DEF Inv, TypeOK, States, Holding, Ends, Normal, NewState, Ended, FileCounts, ReaderKnows, ReadableUnlessBroken
<1>1. CASE UNCHANGED vars
  BY <1>1 DEF vars
<1>2. CASE StartLease
  BY <1>2 DEF StartLease, Goto
<1>3. CASE StartFails
  BY <1>3 DEF StartFails, Goto
<1>4. CASE StartRename
  BY <1>4 DEF StartRename, Goto
<1>5. CASE StartOpen
  BY <1>5 DEF StartOpen, Goto
<1>6. CASE AppendBegin
  BY <1>6, BeginEffect DEF Writers, Stages, Logs
<1>7. CASE AppendEnd
  BY <1>7, AppendEffect DEF Writers, Stages, Logs
<1>8. CASE AppendFails
  BY <1>8 DEF AppendFails
<1>9. CASE AppendOverflow
  BY <1>9, OverflowEffect DEF Writers, Stages, Logs
<1>10. ASSUME NEW want \in Ends \ {"interrupted"}, FinishSync(want) PROVE ReadableUnlessBroken'
  BY <1>10, SyncEffect DEF Writers, Stages, Logs
<1>11. CASE FinishPublish
  BY <1>11 DEF FinishPublish, Goto
<1>12. CASE FinishClose
  BY <1>12 DEF FinishClose, Goto
<1>13. CASE FinishRemove
  BY <1>13 DEF FinishRemove, Goto, Unlink
<1>14. CASE WriterGone
  BY <1>14 DEF WriterGone, Goto
<1>15. ASSUME NEW r \in Readers, ReadState(r) PROVE ReadableUnlessBroken'
  BY <1>15 DEF ReadState, See
<1>16. ASSUME NEW r \in Readers, TryAcquire(r) PROVE ReadableUnlessBroken'
  BY <1>16 DEF TryAcquire, Move
<1>17. ASSUME NEW r \in Readers, Recheck(r) PROVE ReadableUnlessBroken'
  BY <1>17 DEF Recheck, See
<1>18. ASSUME NEW r \in Readers, Reconcile(r) PROVE ReadableUnlessBroken'
  <2>1. /\ log' \in Logs /\ log'.stored = log.stored
        /\ reader[r].pc = "reconciling" /\ UNCHANGED <<root, state, writer, lost>>
    BY <1>18, ReconcileEffect
  <2>2. CASE log' = log /\ reader[r].seen.count > log.stored /\ Refuse(r)
    BY <2>1, <2>2 DEF Refuse, Move
  <2>3. CASE /\ reader[r].seen.count <= log.stored
             /\ log'.synced = log.stored /\ ~log'.tail /\ owner' = owner
             /\ reader' = [reader EXCEPT ![r].pc = "synced", ![r].length = log.stored]
    BY <2>1, <2>3
  <2> QED
    BY <1>18, <2>2, <2>3, ReconcileEffect
<1>19. ASSUME NEW r \in Readers, ReconcilePublish(r) PROVE ReadableUnlessBroken'
  BY <1>19 DEF ReconcilePublish, See
<1>20. ASSUME NEW r \in Readers, ReconcileFails(r) PROVE ReadableUnlessBroken'
  BY <1>20 DEF ReconcileFails, Move
<1>21. ASSUME NEW r \in Readers, ReleaseClose(r) PROVE ReadableUnlessBroken'
  BY <1>21 DEF ReleaseClose, Move
<1>22. ASSUME NEW r \in Readers, ReleaseRemove(r) PROVE ReadableUnlessBroken'
  BY <1>22 DEF ReleaseRemove, Move, Unlink
<1>23. ASSUME NEW r \in Readers, ReadEvents(r) PROVE ReadableUnlessBroken'
  BY <1>23 DEF ReadEvents, Consistent
<1>24. ASSUME NEW r \in Readers, ReaderEnds(r) PROVE ReadableUnlessBroken'
  BY <1>24 DEF ReaderEnds, Quit
<1>25. CASE PowerLoss
  BY <1>25, LossEffect DEF PowerLoss, Logs
<1> QED
  BY <1>1, <1>2, <1>3, <1>4, <1>5, <1>6, <1>7, <1>8, <1>9, <1>10, <1>11, <1>12, <1>13, <1>14, <1>15, <1>16, <1>17, <1>18, <1>19, <1>20, <1>21, <1>22, <1>23, <1>24, <1>25 DEF Next, WriterStep, ReaderStep, Rest

-----------------------------------------------------------------------------
(* The invariant holds in every state of every behaviour. *)
LEMMA Invariance == Spec => []Inv
<1>1. Inv /\ [Next]_vars => Inv'
  BY TypePreserved, LeasePreserved, WriterKnowsPreserved, WriterCountsPreserved,
     FileCountsPreserved, ReaderKnowsPreserved, ReadablePreserved DEF Inv
<1> QED
  BY Initially, <1>1, PTL DEF Spec

(* An end in the state file is what the state file holds from then on. *)
LEMMA EndKept == ASSUME Inv, [Next]_vars, Ended(state) PROVE state' = state
BY DEF Inv, TypeOK, WriterKnows, ReaderKnows, Holding, Next, vars, WriterStep, ReaderStep, Rest,
   StartLease, StartFails, StartRename, StartOpen, AppendBegin, AppendEnd, AppendFails,
   AppendOverflow, CanAppend, FinishSync, FinishPublish, FinishClose, FinishRemove, WriterGone,
   ReadState, TryAcquire, Recheck, Reconcile, ReconcilePublish, ReconcileFails, ReleaseClose,
   ReleaseRemove, ReadEvents, ReaderEnds, PowerLoss

(* No file holds or counts an event that was not given out (Writer::append). *)
THEOREM TypeCorrect == Spec => []TypeOK
<1>1. Inv => TypeOK
  BY DEF Inv
<1> QED
  BY Invariance, <1>1, PTL

(* A run that ended normally has all its events, whole, in its journal, also *)
(* after a power loss: Writer::finish syncs before it publishes.             *)
THEOREM NormalEndComplete == Spec => []NormalEndIsComplete
<1>1. Inv => NormalEndIsComplete
  BY DEF Inv, FileCounts, Vouching, NormalEndIsComplete
<1> QED
  BY Invariance, <1>1, PTL

(* A journal marked running has a lease file until an end is published, so   *)
(* that read_reconciled_state can always tell that its owner is gone.        *)
THEOREM RunningGuarded == Spec => []RunningIsGuarded
<1>1. Init => RunningIsGuarded
  BY DEF Init, RunningIsGuarded
<1>2. ASSUME Inv, [Next]_vars, RunningIsGuarded PROVE RunningIsGuarded'
  <2> USE <1>2 DEF Inv, TypeOK, Leased, Fresh, RunningIsGuarded
  <2>1. CASE root' # root
    <3>1. StartRename
      BY <2>1 DEF Next, vars, WriterStep, ReaderStep, Rest,
         StartLease, StartFails, StartOpen, AppendBegin, AppendEnd, AppendFails,
         AppendOverflow, FinishSync, FinishPublish, FinishClose, FinishRemove, WriterGone,
         ReadState, TryAcquire, Recheck, Reconcile, ReconcilePublish, ReconcileFails,
         ReleaseClose, ReleaseRemove, ReadEvents, ReaderEnds, PowerLoss
    <3> QED
      BY <3>1 DEF StartRename, Holding
  <2>2. CASE root' = root /\ owner' = "absent" /\ owner # "absent"
    <3>1. StartFails \/ FinishRemove \/ \E r \in Readers : ReleaseRemove(r)
      BY <2>2, ReaderAssumption DEF Next, vars, WriterStep, ReaderStep, Rest,
         StartLease, StartRename, StartOpen, AppendBegin, AppendEnd, AppendFails,
         AppendOverflow, FinishSync, FinishPublish, FinishClose, WriterGone,
         ReadState, TryAcquire, Recheck, Reconcile, ReconcilePublish, ReconcileFails, Refuse,
         ReleaseClose, ReadEvents, ReaderEnds, PowerLoss
    <3>2. ~root \/ Ended(state)
      BY <3>1 DEF StartFails, FinishRemove, ReleaseRemove, WriterKnows, ReaderKnows
    <3>3. state' = state
      BY <3>1 DEF StartFails, FinishRemove, ReleaseRemove
    <3> QED
      BY <2>2, <3>2, <3>3 DEF Ended
  <2>3. CASE root' = root /\ ~(owner' = "absent" /\ owner # "absent")
    <3>1. Ended(state) => Ended(state')
      BY EndKept
    <3> QED
      BY <2>3, <3>1 DEF Ended
  <2> QED
    BY <2>1, <2>2, <2>3
<1> QED
  BY Invariance, <1>1, <1>2, PTL DEF Spec

(* No reader writes an interrupted end while the run's owner is alive.       *)
THEOREM InterruptedOwnerGone == Spec => []InterruptedOwnerIsGone
<1>1. Inv => InterruptedOwnerIsGone
  BY DEF Inv, WriterKnows, InterruptedOwnerIsGone
<1> QED
  BY Invariance, <1>1, PTL

(* At most one process may change the state file: the lease excludes the     *)
(* writer and every reader but one.                                          *)
THEOREM OnePublisher == Spec => []SinglePublisher
<1>1. Inv => SinglePublisher
  <2>1. ASSUME Inv, NEW p \in Publishers PROVE p = owner
    BY <2>1 DEF Inv, Publishers, Leased, Claiming, Holding
  <2> QED
    BY <2>1 DEF SinglePublisher
<1> QED
  BY Invariance, <1>1, PTL

(* Without a failed event write or a power loss, no reader ever refuses the  *)
(* journal (read_run).                                                       *)
THEOREM Readable == Spec => []ReadableUnlessBroken
<1>1. Inv => ReadableUnlessBroken
  BY DEF Inv
<1> QED
  BY Invariance, <1>1, PTL

(* A published end is never overwritten, by the writer or by a late reader.  *)
THEOREM EndFinal == Spec => EndIsFinal
<1>1. Inv /\ [Next]_vars => [Ended(state) => state' = state]_vars
  BY EndKept
<1> QED
  BY Invariance, <1>1, PTL DEF Spec, EndIsFinal

(* What a step that neither names the directory, ends the run nor stores an  *)
(* event means for the promised log: nothing.                                *)
LEMMA Quiet ==
  ASSUME root' = root, state'.status = state.status, log'.stored = log.stored
  PROVE  [Log!Next]_<<log.stored, IF root THEN state.status ELSE "none">>
OBVIOUS

(* Every step of the journal is a step of the promised log or none.          *)
LEMMA LogStep ==
  ASSUME Inv, [Next]_vars
  PROVE  [Log!Next]_<<log.stored, IF root THEN state.status ELSE "none">>
<1> USE DEF Log!Next, Log!Begin, Log!Append, Log!End, Log!Lose
<1>1. TypeOK /\ log \in Logs /\ state \in States /\ (~root => state.status = "running")
  BY DEF Inv, TypeOK, Logs, Fresh, NewState
<1>2. CASE StartRename
  BY <1>1, <1>2 DEF StartRename, Inv, Fresh, NewState
<1>3. CASE AppendEnd
  <2>1. root /\ state.status = "running"
    BY <1>3 DEF AppendEnd, Inv, Fresh, WriterKnows, Holding, Ended
  <2>2. log'.stored = log.stored + 1 /\ UNCHANGED <<root, state>>
    BY <1>1, <1>3, AppendEffect
  <2> QED
    BY <2>1, <2>2
<1>4. CASE AppendOverflow
  <2>1. /\ root' = root /\ log' = log /\ writer.pc = "open"
        /\ state' = state \/ state'.status = writer.memory.status
    BY <1>1, <1>4, OverflowEffect
  <2>2. state.status = "running" /\ writer.memory.status = "running"
    BY <2>1 DEF Inv, WriterKnows, Holding, Ended
  <2> QED
    BY <2>1, <2>2, Quiet
<1>5. CASE FinishPublish
  <2>1. root /\ state.status = "running" /\ writer.memory.status \in Ends
    BY <1>5 DEF FinishPublish, Inv, Fresh, WriterKnows, Holding, Ended
  <2>2. UNCHANGED <<root, log>> /\ (state' = writer.memory \/ state' = state)
    BY <1>5 DEF FinishPublish
  <2> QED
    BY <2>1, <2>2
<1>6. ASSUME NEW r \in Readers, ReconcilePublish(r)
      PROVE  [Log!Next]_<<log.stored, IF root THEN state.status ELSE "none">>
  <2>1. root /\ state.status = "running"
    BY <1>6 DEF ReconcilePublish, Inv, Fresh, ReaderKnows, Ended
  <2>2. UNCHANGED <<root, log>> /\ state'.status = "interrupted"
    BY <1>1, <1>6, PublishEffect DEF ReconcilePublish
  <2>3. "interrupted" \in Ends
    BY DEF Ends
  <2> QED
    BY <2>1, <2>2, <2>3
<1>7. CASE PowerLoss
  <2>1. /\ log' \in Logs /\ log.synced <= log'.stored /\ log'.stored <= log.stored
        /\ UNCHANGED <<root, state>>
    BY <1>1, <1>7, LossEffect DEF Inv, FileCounts, PowerLoss
  <2>2. log.stored \in Nat /\ log'.stored \in Nat /\ log.synced \in Nat
    BY <1>1, <2>1 DEF Logs
  <2>3. CASE root /\ state.status \in {"running", "failed"}
    BY <2>1, <2>2, <2>3
  <2>4. CASE ~root
    BY <2>1, <2>2, <2>4, Quiet DEF Inv, Fresh
  <2>5. CASE state.status \in Vouching
    <3>1. log.synced = log.stored
      BY <2>5 DEF Inv, FileCounts
    <3>2. log'.stored = log.stored
      BY <2>1, <2>2, <3>1
    <3> QED
      BY <2>1, <3>2, Quiet
  <2>6. state.status \in {"running", "failed"} \cup Vouching
    BY <1>1 DEF States, Ends, Vouching, Normal
  <2> QED
    BY <2>3, <2>4, <2>5, <2>6
<1>8. CASE \/ StartLease \/ StartFails \/ StartOpen \/ FinishClose \/ FinishRemove \/ WriterGone
           \/ UNCHANGED vars \/ Rest
  BY <1>8, Quiet DEF StartLease, StartFails, StartOpen, FinishClose, FinishRemove, WriterGone, vars, Rest
<1>9. CASE AppendBegin
  BY <1>1, <1>9, BeginEffect, Quiet
<1>10. CASE AppendFails
  BY <1>1, <1>10, Quiet DEF AppendFails, Logs
<1>11. ASSUME NEW want \in Ends \ {"interrupted"}, FinishSync(want)
       PROVE  [Log!Next]_<<log.stored, IF root THEN state.status ELSE "none">>
  BY <1>1, <1>11, SyncEffect, Quiet
<1>12. ASSUME NEW r \in Readers, Reconcile(r)
       PROVE  [Log!Next]_<<log.stored, IF root THEN state.status ELSE "none">>
  BY <1>1, <1>12, ReconcileEffect, Quiet
<1>13. ASSUME NEW r \in Readers,
              \/ ReadState(r) \/ TryAcquire(r) \/ Recheck(r) \/ ReconcileFails(r)
              \/ ReleaseClose(r) \/ ReleaseRemove(r) \/ ReadEvents(r) \/ ReaderEnds(r)
       PROVE  [Log!Next]_<<log.stored, IF root THEN state.status ELSE "none">>
  BY <1>13, Quiet DEF ReadState, TryAcquire, Recheck, ReconcileFails, ReleaseClose, ReleaseRemove,
     ReadEvents, ReaderEnds
<1> QED
  BY <1>2, <1>3, <1>4, <1>5, <1>6, <1>7, <1>8, <1>9, <1>10, <1>11, <1>12, <1>13
     DEF Next, WriterStep, ReaderStep

(* The files, the lease and the readers implement the append-only log with   *)
(* one end that a reader is promised (JournalLog).                           *)
THEOREM LogImplemented == Spec => LogSpec
<1>1. Init => Log!Init
  BY DEF Init, Log!Init
<1>2. Inv /\ [Next]_vars => [Log!Next]_<<log.stored, IF root THEN state.status ELSE "none">>
  BY LogStep
<1> QED
  BY Invariance, <1>1, <1>2, PTL DEF Spec, LogSpec, Log!Spec

-----------------------------------------------------------------------------
(* The page and its run *)

PageStates == {"none", "lost"} \cup Underway \cup Final
Pages == [state : PageStates, truncated : BOOLEAN, clipped : BOOLEAN, cursor : 0 .. MaxSent,
          shown : Seq(1 .. MaxSent), version : Versions0, timer : Versions0 \cup {-1},
          awaiting : {"poll", "restore"}, restoring : BOOLEAN, submitting : BOOLEAN, stored : BOOLEAN]
AnyRequest == [kind : {"none", "post", "poll", "restore"},
               stage : {"none", "sent", "answered", "gone", "failed"},
               after : 0 .. MaxSent, doc : Documents \cup {NoDocument}]

Runs == [doc : Documents \cup {NoDocument}, broken : BOOLEAN, known : BOOLEAN]
Deletions == [stage : {"none", "sent", "done", "failed"}, version : Versions0]

(* The window of a document: what is not in it has left it.                  *)
Windowed(doc) ==
  /\ doc.first <= doc.next + 1
  /\ ~doc.truncated => doc.first = 1

(* A document that the Host has given out: the run is that far, or further.  *)
Past(doc) ==
  /\ doc \in Documents /\ Windowed(doc)
  /\ doc.next <= run.doc.next
  /\ doc.truncated => run.doc.truncated
  /\ doc.status \in Final => doc.status = run.doc.status /\ doc.next = run.doc.next

(* What a page shows, of events up to its cursor.                            *)
Whole(shown, truncated, clipped, cursor) ==
  /\ \A i, j \in 1 .. Len(shown) : i < j => shown[i] < shown[j]
  /\ \A i \in 1 .. Len(shown) : shown[i] <= cursor
  /\ truncated \/ clipped \/ shown = [i \in 1 .. cursor |-> i]

(* What the page shows is the run's, and so are the answers on their way;    *)
(* the one that the page waits for does not fall behind it.                  *)
Shown ==
  /\ Windowed(run.doc) /\ (run.known => run.doc \in Documents)
  /\ Whole(page.shown, page.truncated, page.clipped, page.cursor)
  /\ page.cursor <= run.doc.next
  /\ page.truncated => run.doc.truncated
  /\ page.state \in Final => page.state = run.doc.status /\ page.cursor = run.doc.next
  /\ \A v \in Versions0 :
       /\ requests[v].stage = "answered" => Past(requests[v].doc)
       /\ requests[v].kind = "poll" /\ v = page.version =>
            /\ requests[v].after = page.cursor
            /\ requests[v].stage = "answered" =>
                 page.cursor <= requests[v].doc.next /\ (page.truncated => requests[v].doc.truncated)

(* What the page waits for.                                                  *)
Waits ==
  /\ page.restoring => page.state = "none" /\ page.version = 1 /\ page.awaiting = "restore"
  /\ page.state = "none" => /\ page.shown = <<>> /\ page.cursor = 0
                            /\ ~page.clipped /\ ~page.truncated
  /\ page.awaiting = "restore" => page.state = "none"
  /\ page.awaiting = "restore" /\ page.timer # -1 => page.restoring /\ page.timer = 1
  /\ deletion.stage # "none" => deletion.version = page.version /\ page.state # "none"
  /\ \A v \in Versions0 :
       /\ requests[v].kind = "restore" => page.restoring /\ v = 1 /\ page.timer = -1
       /\ requests[v].kind = "post" => page.state = "none" /\ ~page.restoring /\ v = page.version
       /\ requests[v].kind = "poll" => page.state # "none" /\ v <= page.version

StreamInv == StreamTypeOK /\ Waits /\ Shown /\ KeepsAsking

-----------------------------------------------------------------------------
(* A function on 1 .. n is a sequence of length n.                           *)
LEMMA FunctionSeq == ASSUME NEW n \in Nat, NEW S, NEW f \in [1 .. n -> S] PROVE f \in Seq(S) /\ Len(f) = n
OBVIOUS

(* The last event that is not added, and how many are.                       *)
Passed(doc, after, cursor) == Later(doc.first - 1, Later(after, cursor))
Added(doc, after, cursor) ==
  IF Passed(doc, after, cursor) < doc.next THEN doc.next - Passed(doc, after, cursor) ELSE 0

(* The events that an answer adds follow those that are shown.               *)
LEMMA AppendedEvents ==
  ASSUME NEW shown \in Seq(1 .. MaxSent), NEW doc \in Documents, NEW after \in 0 .. MaxSent,
         NEW cursor \in 0 .. MaxSent
  PROVE  /\ Passed(doc, after, cursor) \in Nat /\ Added(doc, after, cursor) \in Nat
         /\ Appended(shown, doc, after, cursor) \in Seq(1 .. MaxSent)
         /\ Len(Appended(shown, doc, after, cursor)) = Len(shown) + Added(doc, after, cursor)
         /\ \A i \in 1 .. Len(shown) : Appended(shown, doc, after, cursor)[i] = shown[i]
         /\ \A i \in 1 .. Added(doc, after, cursor) :
              Appended(shown, doc, after, cursor)[Len(shown) + i] = Passed(doc, after, cursor) + i
<1> DEFINE passed == Passed(doc, after, cursor)
           added == Added(doc, after, cursor)
           all == Appended(shown, doc, after, cursor)
<1> DEFINE new == [i \in 1 .. added |-> passed + i]
<1>1. doc.next \in 0 .. MaxSent /\ doc.first \in 1 .. MaxSent + 1 /\ MaxSent \in Nat
  BY StreamAssumption DEF Documents
<1>2. passed \in Nat /\ added \in Nat
  BY <1>1 DEF Later, Passed, Added
<1>3. 1 .. doc.next - passed = 1 .. added
  BY <1>1, <1>2 DEF Added
<1>4. all = shown \o new
  BY <1>3 DEF Appended, Passed
<1>5. \A i \in 1 .. added : passed + i \in 1 .. MaxSent
  <2>1. added = IF passed < doc.next THEN doc.next - passed ELSE 0
    BY DEF Added
  <2>2. /\ passed \in Nat /\ added \in Nat /\ doc.next \in Nat /\ doc.next <= MaxSent
        /\ MaxSent \in Nat
    BY <1>1, <1>2
  <2> HIDE DEF passed, added
  <2> QED
    BY <2>1, <2>2
<1>6. new \in [1 .. added -> 1 .. MaxSent] /\ \A i \in 1 .. added : new[i] = passed + i
  BY <1>5
<1> HIDE DEF new, passed, added, all
<1>7. new \in Seq(1 .. MaxSent) /\ Len(new) = added
  BY <1>2, <1>6, FunctionSeq
<1>8. /\ all \in Seq(1 .. MaxSent) /\ Len(all) = Len(shown) + added /\ Len(shown) \in Nat
      /\ \A i \in 1 .. Len(shown) + added : all[i] = IF i <= Len(shown) THEN shown[i] ELSE new[i - Len(shown)]
  BY <1>4, <1>7, ConcatProperties, LenProperties
<1>9. ASSUME NEW i \in 1 .. Len(shown) PROVE all[i] = shown[i]
  <2>1. i \in 1 .. Len(shown) + added /\ i <= Len(shown)
    BY <1>2, <1>8
  <2> QED
    BY <1>8, <2>1
<1>10. ASSUME NEW i \in 1 .. added PROVE all[Len(shown) + i] = passed + i
  <2>1. Len(shown) + i \in 1 .. Len(shown) + added /\ ~(Len(shown) + i <= Len(shown)) /\ (Len(shown) + i) - Len(shown) = i
    BY <1>2, <1>8
  <2> QED
    BY <1>6, <1>8, <2>1
<1> QED
  BY <1>2, <1>8, <1>9, <1>10 DEF all, passed, added

(* A page that adopts a document, whatever fits of it.                       *)
LEMMA AdoptedPage ==
  ASSUME NEW old \in Pages, NEW doc \in Documents, NEW after \in 0 .. MaxSent,
         NEW new \in Adopted(old, doc, after)
  PROVE  /\ new \in Pages /\ Len(new.shown) <= WindowSize
         /\ new.state = doc.status /\ new.truncated = doc.truncated /\ new.cursor = doc.next
         /\ new.version = old.version /\ new.awaiting = "poll" /\ new.restoring = old.restoring
         /\ new.timer = IF doc.status \in Underway THEN old.version ELSE old.timer
<1> DEFINE all == Appended(old.shown, doc, after, old.cursor)
<1>1. all \in Seq(1 .. MaxSent) /\ Len(all) \in Nat
  BY AppendedEvents, LenProperties DEF Pages
<1>2. PICK kept \in {k \in 0 .. Len(all) : k <= WindowSize} :
        new = [old EXCEPT !.state = doc.status, !.truncated = doc.truncated, !.cursor = doc.next,
                          !.shown = SubSeq(all, Len(all) - kept + 1, Len(all)),
                          !.clipped = @ \/ kept < Len(all),
                          !.stored = doc.status \in Underway,
                          !.timer = IF doc.status \in Underway THEN old.version ELSE @,
                          !.awaiting = "poll"]
  BY DEF Adopted
<1> HIDE DEF all
<1>3. SubSeq(all, Len(all) - kept + 1, Len(all)) \in Seq(1 .. MaxSent)
      /\ Len(SubSeq(all, Len(all) - kept + 1, Len(all))) = kept
  <2>1. kept \in Nat /\ kept <= Len(all) /\ Len(all) - kept + 1 \in Int /\ Len(all) \in Int
    BY <1>1
  <2>2. \A i \in Len(all) - kept + 1 .. Len(all) : all[i] \in 1 .. MaxSent
    <3>1. \A i \in Len(all) - kept + 1 .. Len(all) : i \in 1 .. Len(all)
      BY <2>1
    <3> QED
      BY <1>1, <3>1, ElementOfSeq
  <2> QED
    BY <2>1, <2>2, SubSeqProperties
<1>4. doc.status \in PageStates /\ doc.truncated \in BOOLEAN /\ doc.next \in 0 .. MaxSent
  BY DEF Documents, PageStates
<1> DEFINE part == SubSeq(all, Len(all) - kept + 1, Len(all))
           timer == IF doc.status \in Underway THEN old.version ELSE old.timer
           clipped == old.clipped \/ kept < Len(all)
           stored == doc.status \in Underway
<1>5. clipped \in BOOLEAN /\ stored \in BOOLEAN /\ timer \in Versions0 \cup {-1}
  BY DEF Pages
<1>6. part \in Seq(1 .. MaxSent) /\ Len(part) <= WindowSize
  BY <1>2, <1>3
<1>7. new = [old EXCEPT !.state = doc.status, !.truncated = doc.truncated, !.cursor = doc.next,
                        !.shown = part, !.clipped = clipped, !.stored = stored, !.timer = timer,
                        !.awaiting = "poll"]
  BY <1>2 DEF Pages
<1>8. timer = IF doc.status \in Underway THEN old.version ELSE old.timer
  OBVIOUS
<1> HIDE DEF part, timer, clipped, stored
<1>9. /\ new.state = doc.status /\ new.truncated = doc.truncated /\ new.cursor = doc.next
      /\ new.shown = part /\ new.timer = timer /\ new.version = old.version
      /\ new.awaiting = "poll" /\ new.restoring = old.restoring
  BY <1>7 DEF Pages
<1>10. new \in Pages
  BY <1>4, <1>5, <1>6, <1>7 DEF Pages
<1> QED
  BY <1>6, <1>8, <1>9, <1>10

(* What it shows then is whole again, if it asked for what it lacked.        *)
LEMMA AdoptedWhole ==
  ASSUME NEW old \in Pages, NEW doc \in Documents, Windowed(doc),
         Whole(old.shown, old.truncated, old.clipped, old.cursor),
         old.cursor <= doc.next, old.truncated => doc.truncated,
         NEW new \in Adopted(old, doc, old.cursor)
  PROVE  Whole(new.shown, new.truncated, new.clipped, new.cursor)
<1> DEFINE size == Len(old.shown)
<1>1. /\ old.shown \in Seq(1 .. MaxSent) /\ old.cursor \in 0 .. MaxSent /\ size \in Nat
      /\ doc.next \in Nat /\ doc.first \in Nat /\ doc.first <= doc.next + 1 /\ MaxSent \in Nat
      /\ \A i \in 1 .. size : old.shown[i] \in Nat
  BY LenProperties, ElementOfSeq, StreamAssumption DEF Pages, Documents, Windowed
<1> DEFINE all == Appended(old.shown, doc, old.cursor, old.cursor)
           passed == Passed(doc, old.cursor, old.cursor)
           added == Added(doc, old.cursor, old.cursor)
<1>16. old.shown \in Seq(1 .. MaxSent) /\ old.cursor \in 0 .. MaxSent
  BY DEF Pages
<1>13. /\ passed \in Nat /\ added \in Nat /\ all \in Seq(1 .. MaxSent) /\ Len(all) = size + added
       /\ \A i \in 1 .. size : all[i] = old.shown[i]
       /\ \A i \in 1 .. added : all[size + i] = passed + i
  <2>1. passed \in Nat /\ added \in Nat /\ all \in Seq(1 .. MaxSent)
    BY <1>16, AppendedEvents, Zenon
  <2>2. Len(all) = Len(old.shown) + added
    BY <1>16, AppendedEvents, Zenon
  <2>3. \A i \in 1 .. Len(old.shown) : all[i] = old.shown[i]
    BY <1>16, AppendedEvents, Zenon
  <2>4. \A i \in 1 .. added : all[Len(old.shown) + i] = passed + i
    BY <1>16, AppendedEvents, Zenon
  <2> HIDE DEF passed, added, all
  <2> QED
    BY <2>1, <2>2, <2>3, <2>4
<1>3. old.cursor <= passed /\ passed <= doc.next /\ added = doc.next - passed
      /\ (doc.first = 1 => passed = old.cursor)
  <2>1. /\ doc.next \in Nat /\ doc.first \in Nat /\ doc.first - 1 <= doc.next
        /\ old.cursor \in Nat /\ old.cursor <= doc.next
    BY <1>1
  <2>2. passed = IF doc.first - 1 < old.cursor THEN old.cursor ELSE doc.first - 1
    BY <2>1 DEF Later, Passed
  <2> HIDE DEF passed, all, size
  <2>3. old.cursor <= passed /\ passed <= doc.next /\ (doc.first = 1 => passed = old.cursor) /\ passed \in Int
    BY <2>1, <2>2
  <2>4. added = IF passed < doc.next THEN doc.next - passed ELSE 0
    BY DEF Added, passed
  <2>5. added = doc.next - passed
    BY <2>1, <2>3, <2>4
  <2> QED
    BY <2>3, <2>5
<1>14. \A i \in 1 .. size : old.shown[i] <= old.cursor
  BY DEF Whole
<1>2. PICK kept \in {k \in 0 .. Len(all) : k <= WindowSize} :
        new = [old EXCEPT !.state = doc.status, !.truncated = doc.truncated, !.cursor = doc.next,
                          !.shown = SubSeq(all, Len(all) - kept + 1, Len(all)),
                          !.clipped = @ \/ kept < Len(all),
                          !.stored = doc.status \in Underway,
                          !.timer = IF doc.status \in Underway THEN old.version ELSE @,
                          !.awaiting = "poll"]
  BY DEF Adopted
<1> HIDE DEF size, all, passed, added
<1>15. \A d \in 1 .. added : passed + d \in Nat /\ passed + d <= doc.next /\ old.cursor < passed + d
  <2> TAKE d \in 1 .. added
  <2>1. /\ d \in Nat /\ d >= 1 /\ d <= added /\ added = doc.next - passed /\ old.cursor <= passed
        /\ doc.next \in Nat /\ passed \in Nat /\ old.cursor \in Nat
    <3>1. doc.next \in Nat /\ old.cursor \in Nat
      BY <1>1
    <3>2. passed \in Nat /\ added \in Nat
      BY <1>13
    <3>3. added = doc.next - passed /\ old.cursor <= passed
      BY <1>3
    <3>4. d \in Nat /\ d >= 1 /\ d <= added
      BY <3>2
    <3> QED
      BY <3>1, <3>2, <3>3, <3>4
  <2> QED
    BY <2>1
<1>4. ASSUME NEW i \in 1 .. Len(all)
      PROVE  /\ i \in 1 .. size => all[i] \in Nat /\ all[i] = old.shown[i] /\ all[i] <= old.cursor
             /\ i \notin 1 .. size => all[i] = passed + (i - size) /\ i - size \in 1 .. added
             /\ all[i] <= doc.next /\ all[i] \in Nat
  <2>1. CASE i \in 1 .. size
    <3>1. all[i] = old.shown[i] /\ old.shown[i] <= old.cursor /\ old.shown[i] \in Nat
      BY <1>1, <1>13, <1>14, <2>1
    <3> QED
      BY <1>1, <1>3, <2>1, <3>1
  <2>2. CASE i \notin 1 .. size
    <3>5. size \in Nat /\ added \in Nat /\ Len(all) = size + added
      BY <1>1, <1>13
    <3>1. i - size \in 1 .. added /\ size + (i - size) = i
      BY <2>2, <3>5
    <3>2. all[size + (i - size)] = passed + (i - size)
      BY <1>13, <3>1
    <3>3. all[i] = passed + (i - size)
      BY <3>1, <3>2
    <3>4. passed + (i - size) \in Nat /\ passed + (i - size) <= doc.next
      BY <1>15, <3>1
    <3> QED
      BY <2>2, <3>1, <3>3, <3>4
  <2> QED
    BY <2>1, <2>2
<1>5. ASSUME NEW i \in 1 .. Len(all), NEW j \in 1 .. Len(all), i < j PROVE all[i] < all[j]
  <2>1. CASE j \in 1 .. size
    <3>1. i \in 1 .. size
      BY <1>1, <1>13, <1>5, <2>1
    <3> QED
      BY <1>4, <1>5, <2>1, <3>1 DEF Whole, size
  <2>2. CASE i \in 1 .. size /\ j \notin 1 .. size
    <3>1. all[i] <= old.cursor /\ all[j] = passed + (j - size) /\ j - size \in 1 .. added /\ all[i] \in Nat
      BY <1>4, <2>2
    <3>2. old.cursor < passed + (j - size)
      BY <1>15, <3>1
    <3>3. all[i] < passed + (j - size)
      <4> DEFINE x == all[i]
                 y == passed + (j - size)
      <4>1. x \in Nat /\ y \in Nat /\ x <= old.cursor /\ old.cursor < y /\ old.cursor \in Nat
        <5>1. passed \in Nat /\ added \in Nat
          BY <1>13
        <5>2. j - size \in Nat
          BY <3>1, <5>1
        <5>3. passed + (j - size) \in Nat /\ old.cursor \in Nat
          BY <1>16, <5>1, <5>2
        <5> QED
          BY <3>1, <3>2, <5>3
      <4> HIDE DEF x, y
      <4>2. x < y
        BY <4>1
      <4> QED
        BY <4>2 DEF x, y
    <3> QED
      BY <3>1, <3>3
  <2>3. CASE i \notin 1 .. size /\ j \notin 1 .. size
    <3>1. all[i] = passed + (i - size) /\ all[j] = passed + (j - size)
      BY <1>4, <2>3
    <3> QED
      BY <1>1, <1>13, <1>5, <3>1
  <2>4. i \in 1 .. size \/ i \notin 1 .. size
    OBVIOUS
  <2> QED
    BY <2>1, <2>2, <2>3, <2>4
<1>6. /\ new.shown = SubSeq(all, Len(all) - kept + 1, Len(all))
        /\ new.clipped = (old.clipped \/ kept < Len(all))
        /\ new.truncated = doc.truncated /\ new.cursor = doc.next
  BY <1>2 DEF Pages
<1>7. kept \in Nat /\ kept <= Len(all) /\ Len(all) \in Nat /\ Len(all) - kept \in Nat
  BY <1>1, <1>2, <1>13
<1>8. Len(new.shown) = kept /\ \A i \in 1 .. kept : new.shown[i] = all[Len(all) - kept + i]
  <2>1. Len(all) - kept + 1 \in Int /\ Len(all) \in Int
    BY <1>7
  <2>2. \A i \in Len(all) - kept + 1 .. Len(all) : all[i] \in 1 .. MaxSent
    <3>1. \A i \in Len(all) - kept + 1 .. Len(all) : i \in 1 .. Len(all)
      BY <1>7
    <3> QED
      BY <1>13, <3>1, ElementOfSeq
  <2> DEFINE from == Len(all) - kept + 1
             part == SubSeq(all, from, Len(all))
  <2>3. /\ Len(part) = IF from <= Len(all) THEN Len(all) - from + 1 ELSE 0
        /\ \A i \in 1 .. Len(all) - from + 1 : part[i] = all[from + i - 1]
    <3> HIDE DEF from
    <3> QED
      BY <2>1, <2>2, SubSeqProperties DEF from
  <2>4. Len(all) - (Len(all) - kept + 1) + 1 = kept /\ \A i \in 1 .. kept : (Len(all) - kept + 1) + i - 1 = Len(all) - kept + i
    BY <1>7
  <2>5. new.shown = part /\ (kept = 0 => ~(from <= Len(all))) /\ (kept # 0 => from <= Len(all))
    BY <1>6, <1>7
  <2> HIDE DEF part
  <2>6. Len(part) = kept
    BY <1>7, <2>3, <2>4, <2>5
  <2>7. \A i \in 1 .. kept : part[i] = all[Len(all) - kept + i]
    BY <2>3, <2>4
  <2> QED
    BY <2>5, <2>6, <2>7
<1>9. ASSUME ~doc.truncated, ~new.clipped PROVE new.shown = [i \in 1 .. new.cursor |-> i]
  <2>1. ~old.truncated /\ ~old.clipped /\ ~(kept < Len(all)) /\ doc.first = 1 /\ passed = old.cursor
    BY <1>3, <1>6, <1>9 DEF Windowed, Pages
  <2>2. old.shown = [i \in 1 .. old.cursor |-> i]
    BY <2>1 DEF Whole
  <2>3. size = old.cursor /\ Len(all) = doc.next
    <3>1. DOMAIN old.shown = 1 .. old.cursor /\ DOMAIN old.shown = 1 .. size
      BY <1>1, <2>2, LenProperties DEF size
    <3>2. size = old.cursor
      BY <1>1, <3>1
    <3> QED
      BY <1>1, <1>13, <1>3, <2>1, <3>2
  <2>4. ASSUME NEW i \in 1 .. doc.next PROVE all[i] = i
    <3>1. i \in 1 .. Len(all)
      BY <2>3
    <3>2. CASE i \in 1 .. size
      BY <1>4, <2>2, <2>3, <3>1, <3>2
    <3>3. CASE i \notin 1 .. size
      <4>1. all[i] = passed + (i - size)
        BY <1>4, <3>1, <3>3
      <4>2. passed = size
        BY <2>1, <2>3
      <4>3. size \in Nat /\ i \in Int /\ doc.next \in Nat
        BY <1>1
      <4>4. size + (i - size) = i
        BY <4>3
      <4> QED
        BY <4>1, <4>2, <4>4
    <3> QED
      BY <3>2, <3>3
  <2>5. new.shown = all
    <3>1. kept = Len(all) /\ Len(all) - kept + 1 = 1
      BY <1>7, <2>1
    <3> QED
      BY <1>13, <1>6, <3>1, SubSeqFull
  <2>6. all = [i \in 1 .. doc.next |-> all[i]]
    BY <1>13, <2>3, LenProperties
  <2> QED
    BY <1>6, <2>4, <2>5, <2>6
<1>10. \A i \in 1 .. kept : Len(all) - kept + i \in 1 .. Len(all)
  BY <1>7
<1>11. ASSUME NEW i \in 1 .. kept, NEW j \in 1 .. kept, i < j PROVE new.shown[i] < new.shown[j]
  <2>1. Len(all) - kept + i < Len(all) - kept + j
    BY <1>7, <1>11
  <2> QED
    BY <1>5, <1>8, <1>10, <2>1
<1>12. \A i \in 1 .. kept : new.shown[i] <= new.cursor
  BY <1>4, <1>6, <1>8, <1>10
<1> QED
  BY <1>6, <1>8, <1>9, <1>11, <1>12 DEF Whole

-----------------------------------------------------------------------------
(* The steps *)

(* The type invariant in the names above.                                    *)
LEMMA StreamTypes ==
  StreamTypeOK <=> /\ run \in Runs /\ page \in Pages /\ Len(page.shown) <= WindowSize
                   /\ requests \in [Versions0 -> AnyRequest] /\ deletion \in Deletions
BY DEF StreamTypeOK, Runs, Pages, PageStates, AnyRequest, Deletions

(* The same of the next state.                                               *)
LEMMA StreamTypesNext ==
  StreamTypeOK' <=> /\ run' \in Runs /\ page' \in Pages /\ Len(page'.shown) <= WindowSize
                    /\ requests' \in [Versions0 -> AnyRequest] /\ deletion' \in Deletions
BY DEF StreamTypeOK, Runs, Pages, PageStates, AnyRequest, Deletions

(* What the Host and the network do: the run only goes on, the answers tell  *)
(* of it as it is, and the page sees nothing yet.                            *)
LEMMA HostMoves ==
  ASSUME StreamInv, run' \in Runs, Windowed(run'.doc), run'.known => run'.doc \in Documents,
         run.doc.next <= run'.doc.next, run.doc.truncated => run'.doc.truncated,
         run.doc.status \in Final => run'.doc.status = run.doc.status /\ run'.doc.next = run.doc.next,
         page' = page, requests' \in [Versions0 -> AnyRequest], deletion' \in Deletions,
         deletion'.version = deletion.version, deletion'.stage = "none" <=> deletion.stage = "none",
         \A v \in Versions0 :
           /\ requests'[v].kind = requests[v].kind /\ requests'[v].after = requests[v].after
           /\ requests'[v].stage = "answered" =>
                \/ requests[v].stage = "answered" /\ requests'[v].doc = requests[v].doc
                \/ run'.known /\ requests'[v].doc = run'.doc
  PROVE  StreamInv'
<1>1. StreamTypeOK /\ Waits /\ Shown /\ KeepsAsking
  BY DEF StreamInv
<1>2. /\ run \in Runs /\ page \in Pages /\ requests \in [Versions0 -> AnyRequest] /\ deletion \in Deletions
      /\ Len(page.shown) <= WindowSize
  BY <1>1, StreamTypes
<1>3. StreamTypeOK'
  BY <1>2, StreamTypesNext
<1>4. Waits'
  BY <1>1, <1>2 DEF Waits
<1>5. /\ run.doc.next \in Int /\ run'.doc.next \in Int /\ page.cursor \in Int
      /\ \A v \in Versions0 : requests[v].doc.next \in Int
  BY <1>2 DEF Runs, Pages, AnyRequest, Documents, NoDocument
<1>6. ASSUME NEW v \in Versions0, requests'[v].stage = "answered"
      PROVE  /\ Past(requests[v].doc)'
             /\ requests'[v].kind = "poll" /\ v = page.version =>
                  page.cursor <= requests'[v].doc.next /\ (page.truncated => requests'[v].doc.truncated)
  <2>1. CASE requests[v].stage = "answered" /\ requests'[v].doc = requests[v].doc
    <3>1. Past(requests[v].doc) /\ requests[v].kind = "poll" /\ v = page.version =>
            page.cursor <= requests[v].doc.next /\ (page.truncated => requests[v].doc.truncated)
      BY <1>1, <2>1 DEF Shown
    <3> QED
      BY <1>1, <1>5, <2>1, <3>1 DEF Past, Shown
  <2>2. CASE run'.known /\ requests'[v].doc = run'.doc
    BY <1>1, <1>5, <2>2 DEF Past, Shown
  <2> QED
    BY <1>6, <2>1, <2>2
<1>7. Shown'
  <2>1. page.cursor <= run'.doc.next /\ (page.truncated => run'.doc.truncated)
    BY <1>1, <1>5 DEF Shown
  <2>2. page.state \in Final => page.state = run'.doc.status /\ page.cursor = run'.doc.next
    BY <1>1 DEF Shown
  <2>3. ASSUME NEW v \in Versions0, requests'[v].kind = "poll", v = page.version
        PROVE  requests'[v].after = page.cursor
    BY <1>1, <2>3 DEF Shown
  <2>4. Whole(page.shown, page.truncated, page.clipped, page.cursor)
    BY <1>1 DEF Shown
  <2> QED
    BY <1>6, <2>1, <2>2, <2>3, <2>4 DEF Shown
<1>8. KeepsAsking'
  BY <1>1, <1>2 DEF KeepsAsking, Active, Pages
<1> QED
  BY <1>3, <1>4, <1>7, <1>8 DEF StreamInv

(* The steps of the Host and of the network are of that kind.                *)
LEMMA HostSteps ==
  ASSUME StreamInv,
         \/ AppendEvent \/ CompleteRun \/ ForgetRun \/ HandleDeletion \/ CanceledElsewhere \/ RequestFails
         \/ \E v \in Versions0 : HandleRequest(v)
  PROVE  StreamInv'
<1>1. /\ run \in Runs /\ requests \in [Versions0 -> AnyRequest] /\ deletion \in Deletions
      /\ Windowed(run.doc) /\ (run.known => run.doc \in Documents) /\ MaxSent \in Nat
  BY StreamTypes, StreamAssumption DEF StreamInv, Shown
<1>2. /\ run.doc.next \in 0 .. MaxSent /\ run.doc.first \in 1 .. MaxSent + 1 /\ run.doc.truncated \in BOOLEAN
      /\ run.doc \in Documents \cup {NoDocument} /\ (run.doc.status # "absent" => run.doc \in Documents)
  <2>1. run.doc \in Documents \cup {NoDocument} /\ 1 \in 1 .. MaxSent + 1 /\ 0 \in 0 .. MaxSent
    BY <1>1 DEF Runs
  <2>2. CASE run.doc \in Documents
    BY <2>2 DEF Documents
  <2>3. CASE run.doc = NoDocument
    <3>1. run.doc.status = "absent" /\ run.doc.first = 1 /\ run.doc.next = 0 /\ run.doc.truncated = FALSE
      BY <2>3 DEF NoDocument
    <3> QED
      BY <2>1, <3>1
  <2> QED
    BY <2>1, <2>2, <2>3
<1>3. CASE AppendEvent
  <2>3. page' = page /\ requests' = requests /\ deletion' = deletion
    BY <1>3 DEF AppendEvent
  <2>1. CASE run' = [run EXCEPT !.broken = TRUE]
    <3>1. run' \in Runs /\ run'.doc = run.doc /\ run'.known = run.known
      BY <1>1, <2>1 DEF Runs
    <3> QED
      BY <1>1, <1>2, <2>3, <3>1, HostMoves
  <2>2. ASSUME NEW first \in run.doc.first .. run.doc.next + 2, run.doc.status \in Underway, run.doc.next < MaxSent,
               run' = [run EXCEPT !.doc.next = @ + 1, !.doc.first = first,
                                  !.doc.truncated = @ \/ first > run.doc.first]
        PROVE  StreamInv'
    <3> DEFINE next == run.doc.next
               old == run.doc.first
    <3>7. next \in Int /\ old \in Int /\ next >= 0 /\ next < MaxSent /\ MaxSent \in Nat /\ old >= 1
          /\ first \in old .. next + 2
      BY <1>1, <1>2, <2>2
    <3> HIDE DEF next, old
    <3>8. first \in 1 .. MaxSent + 1 /\ next + 1 \in 0 .. MaxSent /\ next <= next + 1 /\ first <= (next + 1) + 1
          /\ (~(first > old) /\ old = 1 => first = 1)
      BY <3>7
    <3>1. run.doc \in Documents /\ run.doc.next + 1 \in 0 .. MaxSent
          /\ (run.doc.truncated \/ first > run.doc.first) \in BOOLEAN
      BY <1>2, <2>2, <3>8 DEF Underway, next
    <3>2. run' = [run EXCEPT !.doc = [run.doc EXCEPT !.next = run.doc.next + 1, !.first = first,
                                        !.truncated = (run.doc.truncated \/ first > run.doc.first)]]
      BY <2>2, <3>1, <1>1 DEF Runs, Documents
    <3>3. run'.doc \in Documents /\ run' \in Runs /\ run'.doc.next = run.doc.next + 1 /\ run'.doc.first = first
          /\ run'.doc.truncated = (run.doc.truncated \/ first > run.doc.first) /\ run'.doc.status = run.doc.status
      BY <3>1, <3>2, <3>8, <1>1 DEF Runs, Documents
    <3>4. Windowed(run'.doc) /\ run.doc.next <= run'.doc.next /\ run.doc.status \notin Final
      BY <1>1, <1>2, <2>2, <3>3, <3>8 DEF Windowed, Underway, Final, next, old
    <3> QED
      BY <1>1, <1>2, <2>3, <3>3, <3>4, HostMoves
  <2> QED
    BY <1>3, <2>1, <2>2 DEF AppendEvent
<1>4. ASSUME run'.doc \in Documents, run' \in Runs, run'.doc.next = run.doc.next, run'.doc.first = run.doc.first,
             run'.doc.truncated = run.doc.truncated, run.doc.status \in Final => run'.doc.status = run.doc.status,
             page' = page, requests' = requests, deletion' = deletion
      PROVE  StreamInv'
  <2>1. Windowed(run'.doc) /\ run.doc.next <= run'.doc.next
    BY <1>1, <1>2, <1>4 DEF Windowed
  <2> QED
    BY <1>1, <1>2, <1>4, <2>1, HostMoves
<1>5. CASE CompleteRun
  <2>1. PICK status \in Final : run' = [run EXCEPT !.doc.status = status]
    BY <1>5 DEF CompleteRun, Final
  <2>2. run.doc \in Documents /\ run.doc.status \notin Final
    BY <1>2, <1>5 DEF CompleteRun, Underway, Final
  <2>3. run'.doc \in Documents /\ run' \in Runs /\ run'.doc.next = run.doc.next /\ run'.doc.first = run.doc.first
        /\ run'.doc.truncated = run.doc.truncated
    BY <1>1, <2>1, <2>2 DEF Runs, Documents
  <2> QED
    BY <1>4, <1>5, <2>2, <2>3 DEF CompleteRun
<1>6. CASE ForgetRun
  <2>1. run' \in Runs /\ run'.doc = run.doc /\ run.doc \in Documents
    BY <1>1, <1>6 DEF Runs, ForgetRun
  <2> QED
    BY <1>4, <1>6, <2>1 DEF ForgetRun
<1>7. CASE CanceledElsewhere
  <2>1. run.doc \in Documents /\ run.doc.status \notin Final
    BY <1>2, <1>7 DEF CanceledElsewhere, Final
  <2>2. run'.doc \in Documents /\ run' \in Runs /\ run'.doc.next = run.doc.next /\ run'.doc.first = run.doc.first
        /\ run'.doc.truncated = run.doc.truncated
    BY <1>1, <1>7, <2>1 DEF Runs, Documents, CanceledElsewhere, Underway
  <2> QED
    BY <1>4, <1>7, <2>1, <2>2 DEF CanceledElsewhere
<1>8. CASE HandleDeletion
  <2>1. deletion' \in Deletions /\ deletion'.version = deletion.version /\ deletion'.stage # "none"
    BY <1>1, <1>8 DEF HandleDeletion, Deletions
  <2>2. deletion.stage # "none" /\ page' = page /\ requests' = requests
    BY <1>8 DEF HandleDeletion
  <2>3. CASE run' = run
    BY <1>1, <1>2, <2>1, <2>2, <2>3, HostMoves
  <2>4. CASE run.known /\ run' = [run EXCEPT !.doc.status = IF @ = "running" THEN "canceling" ELSE @]
    <3>1. run'.doc \in Documents /\ run' \in Runs /\ run'.doc.next = run.doc.next /\ run'.doc.first = run.doc.first
          /\ run'.doc.truncated = run.doc.truncated /\ (run.doc.status \in Final => run'.doc.status = run.doc.status)
      BY <1>1, <2>4 DEF Runs, Documents, Underway, Final
    <3>2. Windowed(run'.doc) /\ run.doc.next <= run'.doc.next
      BY <1>1, <1>2, <3>1 DEF Windowed
    <3> QED
      BY <1>1, <1>2, <2>1, <2>2, <3>1, <3>2, HostMoves
  <2> QED
    BY <1>8, <2>3, <2>4 DEF HandleDeletion
<1>9. CASE RequestFails
  <2>1. run' = run /\ page' = page
    BY <1>9 DEF RequestFails
  <2>2. ASSUME NEW v \in Versions0, requests' = [requests EXCEPT ![v].stage = "failed"], deletion' = deletion
        PROVE  StreamInv'
    <3>1. requests' \in [Versions0 -> AnyRequest] /\ \A u \in Versions0 :
            /\ requests'[u].kind = requests[u].kind /\ requests'[u].after = requests[u].after
            /\ requests'[u].doc = requests[u].doc /\ (requests'[u].stage = "answered" => requests[u].stage = "answered")
      BY <1>1, <2>2 DEF AnyRequest
    <3> QED
      BY <1>1, <1>2, <2>1, <2>2, <3>1, HostMoves
  <2>3. CASE /\ deletion.stage \in {"sent", "done"} /\ deletion' = [deletion EXCEPT !.stage = "failed"]
             /\ requests' = requests
    <3>1. deletion' \in Deletions /\ deletion'.version = deletion.version /\ deletion'.stage # "none" /\ deletion.stage # "none"
      BY <1>1, <2>3 DEF Deletions
    <3> QED
      BY <1>1, <1>2, <2>1, <2>3, <3>1, HostMoves
  <2> QED
    BY <1>9, <2>2, <2>3 DEF RequestFails
<1>10. ASSUME NEW v \in Versions0, HandleRequest(v) PROVE StreamInv'
  <2>1. page' = page /\ deletion' = deletion
    BY <1>10 DEF HandleRequest
  <2>2. /\ run' \in Runs /\ Windowed(run'.doc) /\ (run'.known => run'.doc \in Documents)
        /\ run.doc.next <= run'.doc.next /\ (run.doc.truncated => run'.doc.truncated)
        /\ run.doc.status \in Final => run'.doc.status = run.doc.status /\ run'.doc.next = run.doc.next
    <3>1. CASE run' = run
      BY <1>1, <1>2, <3>1
    <3>2. CASE run.doc.status = "absent" /\ run' = [run EXCEPT !.doc.status = "running", !.known = TRUE]
      <4>1. run.doc = NoDocument
        BY <1>2, <3>2 DEF Documents, Underway, Final
      <4>2. run'.doc = [NoDocument EXCEPT !.status = "running"] /\ run' = [run EXCEPT !.doc = run'.doc, !.known = TRUE]
        BY <1>1, <3>2, <4>1 DEF Runs
      <4>3. run'.doc \in Documents
        <5>1. 1 \in 1 .. MaxSent + 1 /\ 0 \in 0 .. MaxSent /\ "running" \in Underway
          BY StreamAssumption DEF Underway
        <5> QED
          BY <4>2, <5>1 DEF Documents, NoDocument
      <4>4. run' \in Runs
        BY <1>1, <4>2, <4>3 DEF Runs
      <4> QED
        BY <4>1, <4>2, <4>3, <4>4 DEF NoDocument, Windowed, Final
    <3> QED
      BY <1>10, <3>1, <3>2 DEF HandleRequest
  <2>3. /\ requests' \in [Versions0 -> AnyRequest]
        /\ \A u \in Versions0 :
             /\ requests'[u].kind = requests[u].kind /\ requests'[u].after = requests[u].after
             /\ requests'[u].stage = "answered" =>
                  \/ requests[u].stage = "answered" /\ requests'[u].doc = requests[u].doc
                  \/ run'.known /\ requests'[u].doc = run'.doc
    <3>1. CASE run'.known /\ requests' = [requests EXCEPT ![v].stage = "answered", ![v].doc = run'.doc]
      <4> DEFINE answer == [requests[v] EXCEPT !.stage = "answered", !.doc = run'.doc]
      <4>1. requests[v] \in AnyRequest
        BY <1>1
      <4>2. run'.doc \in Documents \cup {NoDocument}
        BY <2>2, <3>1
      <4>3. /\ answer \in AnyRequest /\ answer.kind = requests[v].kind /\ answer.after = requests[v].after
            /\ answer.doc = run'.doc
        BY <4>1, <4>2 DEF AnyRequest
      <4>4. requests' = [requests EXCEPT ![v] = answer]
        BY <3>1
      <4> HIDE DEF answer
      <4>5. requests' \in [Versions0 -> AnyRequest]
        BY <1>1, <4>3, <4>4
      <4>6. \A u \in Versions0 : requests'[u] = IF u = v THEN answer ELSE requests[u]
        BY <1>1, <4>4
      <4> QED
        BY <3>1, <4>3, <4>5, <4>6
    <3>2. CASE requests' = [requests EXCEPT ![v].stage = "gone"]
      BY <1>1, <3>2 DEF AnyRequest
    <3> QED
      BY <1>10, <3>1, <3>2 DEF HandleRequest
  <2> QED
    BY <1>1, <2>1, <2>2, <2>3, HostMoves
<1> QED
  BY <1>3, <1>5, <1>6, <1>7, <1>8, <1>9, <1>10

(* The page asks to run the command.                                         *)
LEMMA ExecuteStep ==
  ASSUME StreamInv, Execute PROVE StreamInv'
<1>1. /\ run \in Runs /\ page \in Pages /\ requests \in [Versions0 -> AnyRequest] /\ deletion \in Deletions
      /\ Waits /\ Shown /\ Len(page.shown) <= WindowSize
  BY StreamTypes DEF StreamInv
<1>2. /\ run' = run /\ deletion' = deletion /\ page' \in Pages /\ page.state = "none" /\ ~page.restoring
      /\ page'.shown = page.shown /\ page'.truncated = page.truncated /\ page'.clipped = page.clipped
      /\ page'.cursor = page.cursor /\ page'.state = page.state /\ page'.version = page.version
      /\ page'.timer = page.timer /\ page'.awaiting = page.awaiting /\ page'.restoring = page.restoring
  BY <1>1 DEF Execute, Pages
<1>3. ASSUME NEW v \in Versions0
      PROVE  requests'[v] = IF v = page.version
                            THEN [kind |-> "post", stage |-> "sent", after |-> 0, doc |-> NoDocument]
                            ELSE requests[v]
  BY <1>1 DEF Execute, Send
<1>4. requests' \in [Versions0 -> AnyRequest] /\ page.version \in Versions0
  BY <1>1, StreamAssumption DEF Execute, Send, Pages, AnyRequest
<1>5. StreamTypeOK'
  BY <1>1, <1>2, <1>4, StreamTypesNext
<1>6. Waits'
  BY <1>1, <1>2, <1>3 DEF Waits
<1>7. Whole(page.shown, page.truncated, page.clipped, page.cursor)'
  BY <1>1, <1>2 DEF Shown
<1>8. Shown'
  BY <1>1, <1>2, <1>3, <1>7 DEF Shown, Past
<1>9. KeepsAsking'
  BY <1>2 DEF KeepsAsking, Active, Underway
<1> QED
  BY <1>5, <1>6, <1>8, <1>9 DEF StreamInv

(* A timer of the page: a poll, another attempt to restore, or nothing.      *)
LEMMA PollStep ==
  ASSUME StreamInv, Poll PROVE StreamInv'
<1>1. /\ run \in Runs /\ page \in Pages /\ requests \in [Versions0 -> AnyRequest] /\ deletion \in Deletions
      /\ Waits /\ Shown /\ KeepsAsking /\ Len(page.shown) <= WindowSize
  BY StreamTypes DEF StreamInv
<1>2. /\ run' = run /\ deletion' = deletion /\ page' \in Pages
      /\ page'.shown = page.shown /\ page'.truncated = page.truncated /\ page'.clipped = page.clipped
      /\ page'.cursor = page.cursor /\ page'.state = page.state /\ page'.version = page.version
      /\ page'.timer = -1 /\ page'.awaiting = page.awaiting /\ page'.restoring = page.restoring
      /\ page.timer # -1 /\ page.timer \in Versions0 /\ page.version \in Int /\ -1 \notin Versions0
  BY <1>1 DEF Poll, Pages, Versions0
<1>7. Whole(page.shown, page.truncated, page.clipped, page.cursor)'
  BY <1>1, <1>2 DEF Shown
<1>3. CASE page.awaiting = "restore"
  <2>1. page.restoring /\ page.timer = 1 /\ page.version = 1 /\ page.state = "none" /\ 1 \in Versions0
    BY <1>1, <1>2, <1>3 DEF Waits
  <2>2. ASSUME NEW v \in Versions0
        PROVE  requests'[v] = IF v = 1
                              THEN [kind |-> "restore", stage |-> "sent", after |-> 0, doc |-> NoDocument]
                              ELSE requests[v]
    BY <1>1, <1>3, <2>1 DEF Poll, Send
  <2>3. requests' \in [Versions0 -> AnyRequest]
    BY <1>1, <1>3, <2>1, StreamAssumption DEF Poll, Send, AnyRequest
  <2>4. StreamTypeOK'
    BY <1>1, <1>2, <2>3, StreamTypesNext
  <2>5. Waits'
    BY <1>1, <1>2, <1>3, <2>1, <2>2 DEF Waits
  <2>6. Shown'
    BY <1>1, <1>2, <1>7, <2>1, <2>2 DEF Shown, Past
  <2>7. KeepsAsking'
    BY <1>2, <2>1, <2>2 DEF KeepsAsking
  <2> QED
    BY <2>4, <2>5, <2>6, <2>7 DEF StreamInv
<1>4. CASE page.awaiting # "restore" /\ page.timer = page.version /\ Active
  <2>1. page.awaiting = "poll" /\ ~page.restoring /\ page.state # "none" /\ page.version \in Versions0
    BY <1>1, <1>2, <1>4 DEF Pages, Waits, Active, Underway
  <2>2. ASSUME NEW v \in Versions0
        PROVE  requests'[v] = IF v = page.version
                              THEN [kind |-> "poll", stage |-> "sent", after |-> page.cursor, doc |-> NoDocument]
                              ELSE requests[v]
    BY <1>1, <1>4, <2>1 DEF Poll, Send
  <2>3. requests' \in [Versions0 -> AnyRequest]
    <3>1. page.cursor \in 0 .. MaxSent
      BY <1>1 DEF Pages
    <3>2. [kind |-> "poll", stage |-> "sent", after |-> page.cursor, doc |-> NoDocument] \in AnyRequest
      BY <3>1 DEF AnyRequest
    <3>3. requests' = [requests EXCEPT ![page.version] = [kind |-> "poll", stage |-> "sent",
                                                          after |-> page.cursor, doc |-> NoDocument]]
      BY <1>4, <2>1 DEF Poll, Send
    <3> QED
      BY <1>1, <3>2, <3>3
  <2>4. StreamTypeOK'
    BY <1>1, <1>2, <2>3, StreamTypesNext
  <2>5. Waits'
    BY <1>1, <1>2, <1>4, <2>1, <2>2 DEF Waits
  <2>6. Shown'
    BY <1>1, <1>2, <1>7, <2>1, <2>2 DEF Shown, Past
  <2>7. KeepsAsking'
    BY <1>2, <2>1, <2>2 DEF KeepsAsking
  <2> QED
    BY <2>4, <2>5, <2>6, <2>7 DEF StreamInv
<1>5. CASE page.awaiting # "restore" /\ ~(page.timer = page.version /\ Active)
  <2>1. requests' = requests
    BY <1>5 DEF Poll
  <2>2. StreamTypeOK'
    BY <1>1, <1>2, <2>1, StreamTypesNext
  <2>3. Waits'
    BY <1>1, <1>2, <1>5, <2>1 DEF Waits
  <2>4. Shown'
    BY <1>1, <1>2, <1>7, <2>1 DEF Shown, Past
  <2>5. ~page.restoring
    BY <1>1, <1>5 DEF Waits
  <2>6. KeepsAsking'
    BY <1>1, <1>2, <1>5, <2>1, <2>5 DEF KeepsAsking, Active
  <2> QED
    BY <2>2, <2>3, <2>4, <2>6 DEF StreamInv
<1> QED
  BY <1>3, <1>4, <1>5

(* The page cancels the run.                                                 *)
LEMMA CancelStep ==
  ASSUME StreamInv, Cancel PROVE StreamInv'
<1>1. /\ run \in Runs /\ page \in Pages /\ requests \in [Versions0 -> AnyRequest] /\ deletion \in Deletions
      /\ Waits /\ Shown /\ Len(page.shown) <= WindowSize
  BY StreamTypes DEF StreamInv
<1>2. page.version \in Nat /\ page.version + 1 \in Versions0 /\ page.version <= page.version + 1
  BY <1>1, StreamAssumption DEF Pages, Cancel, Versions0
<1>3. /\ run' = run /\ requests' = requests /\ deletion' = [stage |-> "sent", version |-> page.version + 1]
      /\ page' \in Pages
      /\ page'.shown = page.shown /\ page'.truncated = page.truncated /\ page'.clipped = page.clipped
      /\ page'.cursor = page.cursor /\ page'.state = page.state /\ page'.version = page.version + 1
      /\ page'.timer = -1 /\ page'.awaiting = page.awaiting /\ page'.restoring = page.restoring
      /\ page.state \in Underway
  BY <1>1, <1>2 DEF Cancel, Pages, Active
<1>4. Whole(page.shown, page.truncated, page.clipped, page.cursor)'
  BY <1>1, <1>3 DEF Shown
<1>5. StreamTypeOK'
  BY <1>1, <1>2, <1>3, StreamTypesNext DEF Deletions
<1>6. page.state # "none" /\ ~page.restoring
  BY <1>1, <1>3 DEF Waits, Underway
<1>7. \A v \in Versions0 : requests[v].kind \notin {"restore", "post"}
        /\ (requests[v].kind = "poll" => v <= page.version + 1 /\ v # page.version + 1)
  BY <1>1, <1>2, <1>6 DEF Waits, Versions0
<1>8. Waits'
  BY <1>1, <1>3, <1>6, <1>7 DEF Waits
<1>9. Shown'
  BY <1>1, <1>3, <1>4, <1>7 DEF Shown, Past
<1>10. KeepsAsking'
  BY <1>3 DEF KeepsAsking
<1> QED
  BY <1>5, <1>8, <1>9, <1>10 DEF StreamInv

(* The answer to the DELETE.                                                 *)
LEMMA CanceledStep ==
  ASSUME StreamInv, Canceled PROVE StreamInv'
<1>1. /\ run \in Runs /\ page \in Pages /\ requests \in [Versions0 -> AnyRequest] /\ deletion \in Deletions
      /\ Waits /\ Shown /\ Len(page.shown) <= WindowSize
  BY StreamTypes DEF StreamInv
<1>2. /\ run' = run /\ requests' = requests /\ deletion' = NoDeletion /\ NoDeletion \in Deletions
      /\ deletion.version = page.version /\ page.state # "none"
  BY <1>1, StreamAssumption DEF Canceled, Waits, Deletions, NoDeletion, Versions0
<1>3. ~page.restoring
  BY <1>1, <1>2 DEF Waits
<1>4. /\ page' \in Pages
      /\ page'.shown = page.shown /\ page'.truncated = page.truncated /\ page'.clipped = page.clipped
      /\ page'.cursor = page.cursor /\ page'.version = page.version /\ page'.awaiting = page.awaiting
      /\ page'.restoring = page.restoring
      /\ page'.state # "none" /\ (page'.state \in Final => page'.state = page.state)
      /\ (page'.state \in Underway => page'.timer = page.version)
  <2>1. CASE Active
    BY <1>1, <1>2, <2>1 DEF Canceled, Pages, PageStates, Deletions, Underway, Final, Active
  <2>2. CASE ~Active
    BY <1>1, <1>2, <2>2 DEF Canceled, Active
  <2> QED
    BY <2>1, <2>2
<1>5. Whole(page.shown, page.truncated, page.clipped, page.cursor)'
  BY <1>1, <1>4 DEF Shown
<1>6. StreamTypeOK'
  BY <1>1, <1>2, <1>4, StreamTypesNext
<1>7. Waits'
  BY <1>1, <1>2, <1>3, <1>4 DEF Waits, NoDeletion
<1>8. Shown'
  BY <1>1, <1>2, <1>4, <1>5 DEF Shown, Past
<1>9. KeepsAsking'
  BY <1>2, <1>3, <1>4 DEF KeepsAsking, Active
<1> QED
  BY <1>6, <1>7, <1>8, <1>9 DEF StreamInv

(* A page that takes an answer which it waited for: what it shows of the run *)
(* is whole, and it polls on or the run has ended.                           *)
LEMMA Adopts ==
  ASSUME StreamInv, NEW v \in Versions0, requests[v].stage = "answered",
         NEW old \in Pages, Whole(old.shown, old.truncated, old.clipped, old.cursor),
         old.cursor <= requests[v].doc.next, old.truncated => requests[v].doc.truncated, ~old.restoring,
         page' \in Adopted(old, requests[v].doc, old.cursor),
         requests' = [requests EXCEPT ![v] = NoRequest], run' = run, deletion' = deletion,
         deletion.stage # "none" => deletion.version = old.version,
         \A u \in Versions0 : u # v =>
           /\ requests[u].kind \notin {"restore", "post"}
           /\ requests[u].kind = "poll" => u <= old.version /\ u # old.version
  PROVE  StreamInv'
<1> DEFINE doc == requests[v].doc
<1>1. /\ run \in Runs /\ page \in Pages /\ requests \in [Versions0 -> AnyRequest] /\ deletion \in Deletions
      /\ Waits /\ Shown
  BY StreamTypes DEF StreamInv
<1>2. Past(doc)
  BY <1>1 DEF Shown
<1>3. doc \in Documents /\ Windowed(doc) /\ doc.status \in Underway \cup Final
  BY <1>2 DEF Past, Documents
<1>4. old.cursor \in 0 .. MaxSent
  BY DEF Pages
<1>5. /\ page' \in Pages /\ Len(page'.shown) <= WindowSize
      /\ page'.state = doc.status /\ page'.truncated = doc.truncated /\ page'.cursor = doc.next
      /\ page'.version = old.version /\ page'.awaiting = "poll" /\ page'.restoring = old.restoring
      /\ page'.timer = IF doc.status \in Underway THEN old.version ELSE old.timer
  BY <1>3, <1>4, AdoptedPage
<1>6. Whole(page'.shown, page'.truncated, page'.clipped, page'.cursor)
  BY <1>3, AdoptedWhole
<1>7. NoRequest \in AnyRequest
  BY StreamAssumption DEF NoRequest, AnyRequest
<1>8. requests' \in [Versions0 -> AnyRequest] /\ \A u \in Versions0 : requests'[u] = IF u = v THEN NoRequest ELSE requests[u]
  BY <1>1, <1>7
<1>9. StreamTypeOK'
  BY <1>1, <1>5, <1>8, StreamTypesNext
<1>10. Waits'
  BY <1>1, <1>3, <1>5, <1>8 DEF Waits, NoRequest, Underway, Final
<1>11. Shown'
  <2>1. doc.next <= run.doc.next /\ (doc.truncated => run.doc.truncated)
        /\ (doc.status \in Final => doc.status = run.doc.status /\ doc.next = run.doc.next)
    BY <1>2 DEF Past
  <2>2. ASSUME NEW u \in Versions0 PROVE requests'[u].stage = "answered" => Past(requests[u].doc)' /\ u # v
    BY <1>1, <1>8 DEF Shown, Past, NoRequest
  <2>3. ASSUME NEW u \in Versions0 PROVE ~(requests'[u].kind = "poll" /\ u = page'.version)
    BY <1>5, <1>8 DEF NoRequest
  <2> QED
    BY <1>1, <1>5, <1>6, <2>1, <2>2, <2>3 DEF Shown
<1>12. KeepsAsking'
  BY <1>5 DEF KeepsAsking, Active
<1> QED
  BY <1>9, <1>10, <1>11, <1>12 DEF StreamInv

(* An answer that the page takes no document from: it is done with, waits to *)
(* ask again, or has lost its run.                                           *)
LEMMA Dismisses ==
  ASSUME StreamInv, NEW v \in Versions0, page' \in Pages,
         requests' = [requests EXCEPT ![v] = NoRequest], run' = run, deletion' = deletion,
         page'.shown = page.shown, page'.truncated = page.truncated, page'.clipped = page.clipped,
         page'.cursor = page.cursor, page'.version = page.version, page'.awaiting = page.awaiting,
         page'.state = page.state \/ (page.state # "none" /\ page'.state = "lost"),
         page'.restoring = page.restoring
           \/ (~page'.restoring /\ page'.timer = -1 /\ \A u \in Versions0 : u # v => requests[u].kind # "restore"),
         page'.timer = page.timer
           \/ (page'.timer = v /\ v = page.version /\ \A u \in Versions0 : u # v => requests[u].kind # "restore"),
         page'.awaiting = "restore" /\ page'.timer # -1 => page'.restoring /\ page'.timer = 1,
         page'.state \in Underway \/ page'.restoring => page'.timer = v \/ v # page.version
  PROVE  StreamInv'
<1>1. /\ run \in Runs /\ page \in Pages /\ requests \in [Versions0 -> AnyRequest] /\ deletion \in Deletions
      /\ Waits /\ Shown /\ KeepsAsking /\ Len(page.shown) <= WindowSize
  BY StreamTypes DEF StreamInv
<1>2. NoRequest \in AnyRequest
  BY StreamAssumption DEF NoRequest, AnyRequest
<1>3. requests' \in [Versions0 -> AnyRequest] /\ \A u \in Versions0 : requests'[u] = IF u = v THEN NoRequest ELSE requests[u]
  BY <1>1, <1>2
<1>4. StreamTypeOK'
  BY <1>1, <1>3, StreamTypesNext
<1>5. Waits'
  BY <1>1, <1>3 DEF Waits, NoRequest
<1>6. Shown'
  <2>1. Whole(page'.shown, page'.truncated, page'.clipped, page'.cursor)
    BY <1>1 DEF Shown
  <2>2. page'.state \in Final => page'.state = page.state
    BY DEF Final
  <2> QED
    BY <1>1, <1>3, <2>1, <2>2 DEF Shown, Past, NoRequest
<1>7. KeepsAsking'
  <2> SUFFICES ASSUME page'.state \in Underway \/ page'.restoring, v # page.version
               PROVE  KeepsAsking'
    BY DEF KeepsAsking, Active
  <2>1. page.state \in Underway \/ page.restoring
    BY DEF Underway
  <2>2. page.version \in Versions0 /\ page'.timer = page.timer
    BY <1>1 DEF Pages
  <2> QED
    BY <1>1, <1>3, <2>1, <2>2 DEF KeepsAsking, Active
<1> QED
  BY <1>4, <1>5, <1>6, <1>7 DEF StreamInv

(* The answer to the POST.                                                   *)
LEMMA StartedStep ==
  ASSUME StreamInv, NEW v \in Versions0, Started(v) PROVE StreamInv'
<1>1. /\ page \in Pages /\ requests \in [Versions0 -> AnyRequest] /\ Waits /\ Shown
  BY StreamTypes DEF StreamInv
<1>2. /\ page.state = "none" /\ ~page.restoring /\ v = page.version /\ deletion.stage = "none"
      /\ page.awaiting = "restore" => page.timer = -1
      /\ page.shown = <<>> /\ page.cursor = 0 /\ ~page.clipped /\ ~page.truncated
      /\ \A u \in Versions0 : u # v => requests[u].kind \notin {"restore", "post", "poll"}
  BY <1>1 DEF Started, Waits
<1>3. requests' = [requests EXCEPT ![v] = NoRequest] /\ run' = run /\ deletion' = deletion
  BY DEF Started
<1>4. CASE requests[v].stage = "answered"
  <2> DEFINE old == [page EXCEPT !.version = 1, !.submitting = FALSE, !.timer = -1,
                                 !.shown = <<>>, !.clipped = FALSE, !.cursor = 0]
  <2>1. page' \in Adopted(old, requests[v].doc, 0)
    BY <1>4 DEF Started
  <2>2. <<>> \in Seq(1 .. MaxSent) /\ 1 \in Versions0 /\ 0 \in 0 .. MaxSent
    BY StreamAssumption DEF Versions0
  <2>3. /\ old \in Pages /\ old.shown = <<>> /\ old.cursor = 0 /\ old.restoring = page.restoring
        /\ old.truncated = page.truncated /\ old.clipped = FALSE
    BY <1>1, <2>2 DEF Pages
  <2>4. Whole(old.shown, old.truncated, old.clipped, old.cursor)
    <3>1. Len(<<>>) = 0 /\ [i \in 1 .. 0 |-> i] = <<>>
      OBVIOUS
    <3> QED
      BY <2>3, <3>1 DEF Whole
  <2>5. old.cursor <= requests[v].doc.next
    BY <1>1, <1>4, <2>3 DEF Shown, Past, Documents
  <2> HIDE DEF old
  <2> QED
    BY <1>2, <1>3, <1>4, <2>1, <2>3, <2>4, <2>5, Adopts
<1>5. CASE requests[v].stage # "answered"
  <2>1. page' = [page EXCEPT !.submitting = FALSE]
    BY <1>5 DEF Started
  <2>2. /\ page' \in Pages /\ page'.shown = page.shown /\ page'.truncated = page.truncated
        /\ page'.clipped = page.clipped /\ page'.cursor = page.cursor /\ page'.version = page.version
        /\ page'.awaiting = page.awaiting /\ page'.state = page.state /\ page'.restoring = page.restoring
        /\ page'.timer = page.timer
    BY <1>1, <2>1 DEF Pages
  <2>3. page'.state \notin Underway
    BY <1>2, <2>2 DEF Underway
  <2> QED
    BY <1>2, <1>3, <2>2, <2>3, Dismisses
<1> QED
  BY <1>4, <1>5

(* The answer to a poll.                                                     *)
LEMMA PolledStep ==
  ASSUME StreamInv, NEW v \in Versions0, Polled(v) PROVE StreamInv'
<1>1. /\ page \in Pages /\ requests \in [Versions0 -> AnyRequest] /\ deletion \in Deletions /\ Waits /\ Shown
  BY StreamTypes DEF StreamInv
<1>2. /\ requests[v].kind = "poll" /\ requests[v].stage \in {"answered", "gone", "failed"}
      /\ requests' = [requests EXCEPT ![v] = NoRequest] /\ run' = run /\ deletion' = deletion
  BY DEF Polled
<1>3. /\ page.state # "none" /\ ~page.restoring /\ page.awaiting # "restore"
      /\ \A u \in Versions0 : requests[u].kind \notin {"restore", "post"}
      /\ deletion.stage # "none" => deletion.version = page.version
  BY <1>1, <1>2 DEF Waits
<1>4. CASE v # page.version
  <2>1. page' = page
    BY <1>4 DEF Polled
  <2>2. /\ page' \in Pages /\ page'.shown = page.shown /\ page'.truncated = page.truncated
        /\ page'.clipped = page.clipped /\ page'.cursor = page.cursor /\ page'.version = page.version
        /\ page'.awaiting = page.awaiting /\ page'.awaiting # "restore"
        /\ page'.state = page.state /\ page'.restoring = page.restoring /\ page'.timer = page.timer
    BY <1>1, <1>3, <2>1
  <2>3. ~page.restoring /\ ~page'.restoring
    BY <1>3, <2>1
  <2> QED
    BY <1>2, <1>4, <2>2, <2>3, Dismisses
<1>5. CASE v = page.version /\ requests[v].stage = "answered"
  <2>1. page' \in Adopted(page, requests[v].doc, requests[v].after)
    BY <1>5 DEF Polled
  <2>2. /\ requests[v].after = page.cursor /\ page.cursor <= requests[v].doc.next
        /\ page.truncated => requests[v].doc.truncated
        /\ Whole(page.shown, page.truncated, page.clipped, page.cursor)
    BY <1>1, <1>2, <1>5 DEF Shown
  <2>3. \A u \in Versions0 : u # v /\ requests[u].kind = "poll" => u <= page.version /\ u # page.version
    BY <1>1, <1>5 DEF Waits
  <2> QED
    BY <1>1, <1>2, <1>3, <1>5, <2>1, <2>2, <2>3, Adopts
<1>6. CASE v = page.version /\ requests[v].stage = "gone"
  <2>1. page' = [page EXCEPT !.state = "lost", !.stored = FALSE]
    BY <1>6 DEF Polled
  <2>2. /\ page' \in Pages /\ page'.shown = page.shown /\ page'.truncated = page.truncated
        /\ page'.clipped = page.clipped /\ page'.cursor = page.cursor /\ page'.version = page.version
        /\ page'.awaiting = page.awaiting /\ page'.state = "lost" /\ page'.restoring = page.restoring
        /\ page'.timer = page.timer /\ page'.state \notin Underway /\ page.restoring = FALSE
    BY <1>1, <1>3, <2>1 DEF Pages, PageStates, Underway
  <2>3. ~page.restoring /\ ~page'.restoring /\ page'.awaiting # "restore"
    BY <1>3, <2>1, <2>2
  <2>4. page.state # "none" /\ page'.state = "lost"
    BY <1>3, <2>2
  <2> QED
    BY <1>2, <2>2, <2>3, <2>4, Dismisses
<1>7. CASE v = page.version /\ requests[v].stage = "failed"
  <2>1. page' = [page EXCEPT !.timer = v]
    BY <1>7 DEF Polled
  <2>2. /\ page' \in Pages /\ page'.shown = page.shown /\ page'.truncated = page.truncated
        /\ page'.clipped = page.clipped /\ page'.cursor = page.cursor /\ page'.version = page.version
        /\ page'.awaiting = page.awaiting /\ page'.state = page.state /\ page'.restoring = page.restoring
        /\ page'.timer = v
    BY <1>1, <2>1 DEF Pages
  <2> QED
    BY <1>2, <1>3, <1>7, <2>2, Dismisses
<1> QED
  BY <1>2, <1>4, <1>5, <1>6, <1>7

(* The answer to a page that restores its run.                               *)
LEMMA RestoredStep ==
  ASSUME StreamInv, NEW v \in Versions0, Restored(v) PROVE StreamInv'
<1>1. /\ page \in Pages /\ requests \in [Versions0 -> AnyRequest] /\ Waits /\ Shown
  BY StreamTypes DEF StreamInv
<1>2. /\ requests[v].kind = "restore" /\ requests[v].stage \in {"answered", "gone", "failed"}
      /\ requests' = [requests EXCEPT ![v] = NoRequest] /\ run' = run /\ deletion' = deletion
  BY DEF Restored
<1>3. /\ page.state = "none" /\ page.restoring /\ v = 1 /\ page.timer = -1 /\ page.version = 1
      /\ deletion.stage = "none" /\ page.cursor = 0 /\ ~page.truncated
      /\ \A u \in Versions0 : u # v => requests[u].kind \notin {"restore", "post", "poll"}
  BY <1>1, <1>2 DEF Waits
<1>4. CASE requests[v].stage = "answered"
  <2> DEFINE old == [page EXCEPT !.restoring = FALSE]
  <2>1. page' \in Adopted(old, requests[v].doc, 0)
    BY <1>2, <1>4 DEF Restored
  <2>2. /\ old \in Pages /\ old.shown = page.shown /\ old.cursor = 0 /\ ~old.restoring
        /\ old.truncated = page.truncated /\ old.clipped = page.clipped
    BY <1>1, <1>3 DEF Pages
  <2>3. Whole(old.shown, old.truncated, old.clipped, old.cursor)
    BY <1>1, <1>3, <2>2 DEF Shown
  <2>4. old.cursor <= requests[v].doc.next
    BY <1>1, <1>4, <2>2 DEF Shown, Past, Documents
  <2> HIDE DEF old
  <2> QED
    BY <1>2, <1>3, <1>4, <2>1, <2>2, <2>3, <2>4, Adopts
<1>5. CASE requests[v].stage = "gone"
  <2>1. page' = [page EXCEPT !.restoring = FALSE, !.stored = FALSE]
    BY <1>2, <1>5 DEF Restored
  <2>2. /\ page' \in Pages /\ page'.shown = page.shown /\ page'.truncated = page.truncated
        /\ page'.clipped = page.clipped /\ page'.cursor = page.cursor /\ page'.version = page.version
        /\ page'.awaiting = page.awaiting /\ page'.state = page.state /\ ~page'.restoring
        /\ page'.timer = page.timer
    BY <1>1, <2>1 DEF Pages
  <2>3. page'.state \notin Underway
    BY <1>3, <2>2 DEF Underway
  <2> QED
    BY <1>2, <1>3, <2>2, <2>3, Dismisses
<1>6. CASE requests[v].stage = "failed"
  <2>1. page' = [page EXCEPT !.timer = v]
    BY <1>2, <1>6 DEF Restored
  <2>2. /\ page' \in Pages /\ page'.shown = page.shown /\ page'.truncated = page.truncated
        /\ page'.clipped = page.clipped /\ page'.cursor = page.cursor /\ page'.version = page.version
        /\ page'.awaiting = page.awaiting /\ page'.state = page.state /\ page'.restoring = page.restoring
        /\ page'.timer = v
    BY <1>1, <2>1 DEF Pages
  <2> QED
    BY <1>2, <1>3, <2>2, Dismisses
<1> QED
  BY <1>2, <1>4, <1>5, <1>6

(* The page is loaded again: nothing of the old one is left.                 *)
LEMMA ReloadStep ==
  ASSUME StreamInv, Reload PROVE StreamInv'
<1>1. /\ run \in Runs /\ page \in Pages /\ requests \in [Versions0 -> AnyRequest] /\ Shown
  BY StreamTypes DEF StreamInv
<1>2. /\ <<>> \in Seq(1 .. MaxSent) /\ Len(<<>>) = 0 /\ 0 <= WindowSize /\ 0 \in Versions0 /\ 1 \in Versions0
      /\ 0 \in 0 .. MaxSent /\ [i \in 1 .. 0 |-> i] = <<>>
  BY StreamAssumption DEF Versions0
<1>3. run' = run /\ deletion' = NoDeletion /\ NoDeletion \in Deletions /\ deletion'.stage = "none"
  BY <1>2 DEF Reload, NoDeletion, Deletions
<1>4. /\ page' \in Pages /\ page'.shown = <<>> /\ page'.cursor = 0 /\ ~page'.clipped /\ ~page'.truncated
      /\ page'.state = "none" /\ page'.timer = -1 /\ (page'.restoring => page'.version = 1 /\ page'.awaiting = "restore")
  <2>1. BlankPage \in Pages
    BY <1>2 DEF BlankPage, Pages, PageStates
  <2>2. CASE page.stored
    <3>1. page' = [BlankPage EXCEPT !.stored = TRUE, !.restoring = TRUE, !.version = 1, !.awaiting = "restore"]
      BY <2>2 DEF Reload
    <3> QED
      BY <1>2, <2>1, <3>1 DEF BlankPage, Pages
  <2>3. CASE ~page.stored
    <3>1. page' = BlankPage
      BY <2>3 DEF Reload
    <3> QED
      BY <2>1, <3>1 DEF BlankPage
  <2> QED
    BY <2>2, <2>3
<1>5. /\ requests' \in [Versions0 -> AnyRequest]
      /\ \A v \in Versions0 : requests'[v].stage # "answered"
           /\ (requests'[v].kind = "none" \/ (page'.restoring /\ v = 1 /\ requests'[v].kind = "restore"))
      /\ page'.restoring => requests'[1].kind = "restore"
  <2>1. NoRequest \in AnyRequest /\ [NoRequest EXCEPT !.kind = "restore", !.stage = "sent"] \in AnyRequest
    BY <1>2 DEF NoRequest, AnyRequest
  <2>2. CASE page.stored
    <3>1. page'.restoring
      BY <2>2 DEF Reload, BlankPage
    <3> DEFINE restore == [NoRequest EXCEPT !.kind = "restore", !.stage = "sent"]
    <3>7. restore.kind = "restore" /\ restore.stage = "sent"
      BY DEF NoRequest
    <3>2. requests' = [v \in Versions0 |-> IF v = 1 THEN [NoRequest EXCEPT !.kind = "restore", !.stage = "sent"]
                                            ELSE NoRequest]
      BY <2>2 DEF Reload
    <3>3. requests' \in [Versions0 -> AnyRequest]
      BY <2>1, <3>2
    <3>4. \A v \in Versions0 : requests'[v] = IF v = 1 THEN restore ELSE NoRequest
      BY <3>2
    <3> HIDE DEF restore
    <3>8. 1 \in Versions0 /\ NoRequest.kind = "none" /\ NoRequest.stage = "none"
      BY <1>2 DEF NoRequest
    <3>5. \A v \in Versions0 : requests'[v].stage # "answered"
            /\ (requests'[v].kind = "none" \/ (page'.restoring /\ v = 1 /\ requests'[v].kind = "restore"))
      BY <3>1, <3>4, <3>7, <3>8
    <3>6. requests'[1].kind = "restore"
      BY <3>4, <3>7, <3>8
    <3> QED
      BY <3>3, <3>5, <3>6
  <2>3. CASE ~page.stored
    <3>1. page' = BlankPage /\ requests' = [v \in Versions0 |-> NoRequest]
      BY <2>3 DEF Reload
    <3>2. ~page'.restoring
      BY <3>1 DEF BlankPage
    <3>3. requests' \in [Versions0 -> AnyRequest]
      BY <2>1, <3>1
    <3>4. \A v \in Versions0 : requests'[v].stage = "none" /\ requests'[v].kind = "none"
      BY <3>1 DEF NoRequest
    <3> QED
      BY <3>2, <3>3, <3>4
  <2> QED
    BY <2>2, <2>3
<1>6. Len(page'.shown) <= WindowSize
  BY <1>2, <1>4
<1>7. StreamTypeOK'
  BY <1>1, <1>3, <1>4, <1>5, <1>6, StreamTypesNext
<1>8. Waits'
  BY <1>3, <1>4, <1>5 DEF Waits
<1>9. Whole(page'.shown, page'.truncated, page'.clipped, page'.cursor)
  BY <1>2, <1>4 DEF Whole
<1>10. page'.cursor <= run'.doc.next
  BY <1>1, <1>3, <1>4 DEF Runs, Documents, NoDocument
<1>11. Shown'
  BY <1>1, <1>3, <1>4, <1>5, <1>9, <1>10 DEF Shown, Final
<1>12. KeepsAsking'
  BY <1>4, <1>5 DEF KeepsAsking, Active, Underway
<1> QED
  BY <1>7, <1>8, <1>11, <1>12 DEF StreamInv

-----------------------------------------------------------------------------
(* The results *)

(* Before anything is asked.                                                 *)
LEMMA StreamStart == ASSUME StreamInit PROVE StreamInv
<1>1. /\ <<>> \in Seq(1 .. MaxSent) /\ Len(<<>>) = 0 /\ 0 <= WindowSize /\ 0 \in Versions0
      /\ 0 \in 0 .. MaxSent /\ [i \in 1 .. 0 |-> i] = <<>>
  BY StreamAssumption DEF Versions0
<1>2. run \in Runs /\ Windowed(run.doc) /\ ~run.known /\ run.doc.next = 0
  BY DEF StreamInit, Runs, Windowed, NoDocument
<1>3. page \in Pages /\ page = BlankPage
  BY <1>1 DEF StreamInit, BlankPage, Pages, PageStates
<1>4. requests \in [Versions0 -> AnyRequest] /\ \A v \in Versions0 : requests[v] = NoRequest
  BY <1>1 DEF StreamInit, NoRequest, AnyRequest
<1>5. deletion \in Deletions /\ deletion.stage = "none"
  BY <1>1 DEF StreamInit, NoDeletion, Deletions
<1>6. StreamTypeOK
  BY <1>1, <1>2, <1>3, <1>4, <1>5, StreamTypes DEF BlankPage
<1>7. Waits
  BY <1>3, <1>4, <1>5 DEF Waits, BlankPage, NoRequest
<1>8. Whole(page.shown, page.truncated, page.clipped, page.cursor)
  BY <1>1, <1>3 DEF Whole, BlankPage
<1>9. Shown
  <2>1. page.cursor = 0 /\ page.cursor <= run.doc.next /\ page.state = "none" /\ page.truncated = FALSE
    BY <1>2, <1>3 DEF BlankPage
  <2>2. \A v \in Versions0 : requests[v].stage = "none" /\ requests[v].kind = "none"
    BY <1>4 DEF NoRequest
  <2> QED
    BY <1>2, <1>8, <2>1, <2>2 DEF Shown, Final
<1>10. KeepsAsking
  BY <1>3 DEF KeepsAsking, Active, BlankPage, Underway
<1> QED
  BY <1>6, <1>7, <1>9, <1>10 DEF StreamInv

(* The invariant of the run and its page.                                    *)
LEMMA StreamInvariant == StreamSpec => []StreamInv
<1>1. StreamInit => StreamInv
  BY StreamStart
<1>2. StreamInv /\ [StreamNext]_streamVars => StreamInv'
  <2> SUFFICES ASSUME StreamInv, [StreamNext]_streamVars PROVE StreamInv'
    OBVIOUS
  <2>1. CASE UNCHANGED streamVars
    BY <2>1 DEF streamVars, StreamInv, StreamTypeOK, Waits, Shown, Past, KeepsAsking, Active
  <2>2. CASE \/ AppendEvent \/ CompleteRun \/ ForgetRun \/ HandleDeletion \/ CanceledElsewhere \/ RequestFails
             \/ \E v \in Versions0 : HandleRequest(v)
    BY <2>2, HostSteps
  <2>3. CASE Execute
    BY <2>3, ExecuteStep
  <2>4. CASE Poll
    BY <2>4, PollStep
  <2>5. CASE Cancel
    BY <2>5, CancelStep
  <2>6. CASE Canceled
    BY <2>6, CanceledStep
  <2>7. CASE Reload
    BY <2>7, ReloadStep
  <2>8. ASSUME NEW v \in Versions0, Started(v) PROVE StreamInv'
    BY <2>8, StartedStep
  <2>9. ASSUME NEW v \in Versions0, Polled(v) PROVE StreamInv'
    BY <2>9, PolledStep
  <2>10. ASSUME NEW v \in Versions0, Restored(v) PROVE StreamInv'
    BY <2>10, RestoredStep
  <2> QED
    BY <2>1, <2>2, <2>3, <2>4, <2>5, <2>6, <2>7, <2>8, <2>9, <2>10 DEF StreamNext
<1> QED
  BY <1>1, <1>2, PTL DEF StreamSpec

(* For any number of events, size of window and number of cancellations: the *)
(* run, what the page shows and the answers on their way have their types,   *)
(* and the page never holds more than the window.                            *)
THEOREM StreamTypeCorrect == StreamSpec => []StreamTypeOK
<1>1. StreamInv => StreamTypeOK
  BY DEF StreamInv
<1> QED
  BY <1>1, StreamInvariant, PTL

(* A page that shows a run as active, or restores one, has asked for it or   *)
(* will, in whatever order requests are answered, fail or are overtaken by a *)
(* cancellation or a reload (command-run.js: schedulePoll, scheduleRestore). *)
THEOREM PageKeepsAsking == StreamSpec => []KeepsAsking
<1>1. StreamInv => KeepsAsking
  BY DEF StreamInv
<1> QED
  BY <1>1, StreamInvariant, PTL

(* The page shows events once, in order and without an unannounced gap, and  *)
(* an end that it shows is the run's, with every event of it                 *)
(* (command-run-output.js: append; registry/run.rs: append_journal_event).   *)
THEOREM PageShowsWhole == StreamSpec => []ShownIsWhole
<1>1. StreamInv => ShownIsWhole
  <2> SUFFICES ASSUME Shown PROVE ShownIsWhole
    BY DEF StreamInv
  <2> QED
    BY DEF Shown, Whole, ShownIsWhole
<1> QED
  BY <1>1, StreamInvariant, PTL
=============================================================================
