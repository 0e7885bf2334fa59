----------------------------- MODULE RunJournal -----------------------------
(***************************************************************************)
(* The durable journal of one command run (run_journal): its writer in the *)
(* process that owns the run, the owner lease that process holds while it  *)
(* lives, and the readers in other processes, which close the journal of a *)
(* run whose owner has gone.                                               *)
(*                                                                         *)
(* A step is one operation on the file system, so that the other processes *)
(* see every intermediate state.  The lease is a file opened with share    *)
(* mode 0: the handle is lost with its process, the file is not.           *)
(***************************************************************************)
EXTENDS Naturals

CONSTANTS Readers,       \* processes that read the journal
          Capacity,      \* events that fit in MAX_EVENTS_FILE_BYTES
          MaxEvents      \* bound on the events of a run

ASSUME CapacityAssumption == Capacity \in Nat /\ MaxEvents \in Nat
ASSUME ReaderAssumption   == Readers \cap {"absent", "free", "writer"} = {}

VARIABLES
  root,    \* whether the run's directory has its final name
  state,   \* _state.json: the status, the event count and "truncated"
  log,     \* events.jsonl: complete records, those of them synced, a partial one
  owner,   \* the owner lease: "absent", "free" (no handle), or who holds it
  writer,  \* the Writer: where it stands and what it remembers
  reader,  \* each reader: where it stands, the state and the length it has read
  lost     \* whether the machine has stopped, and not only a process

vars == <<root, state, log, owner, writer, reader, lost>>

Ends     == {"exited", "canceled", "failed", "interrupted"}
Normal   == {"exited", "canceled"}
States   == [status : {"running"} \cup Ends, count : Nat, truncated : BOOLEAN]
NewState == [status |-> "running", count |-> 0, truncated |-> FALSE]
Ended(s) == s.status # "running"

(* The stages in which the process that owns the run holds the lease. *)
Holding == {"leased", "renamed", "open", "appending", "publishing", "published", "abandoned"}

(* No file holds or counts an event whose sequence number was not given out. *)
TypeOK ==
  /\ root \in BOOLEAN
  /\ state \in States
  /\ log \in [stored : Nat, synced : Nat, tail : BOOLEAN]
  /\ state.count <= writer.seq /\ log.stored <= writer.seq
  /\ owner \in {"absent", "free", "writer"} \cup Readers
  /\ writer \in [pc : Holding \cup {"idle", "refused", "closed", "done", "gone"},
                 seq : Nat, memory : States, broken : BOOLEAN]
  /\ reader \in [Readers -> [pc : {"idle", "running", "owned", "reconciling", "synced",
                                   "releasing", "removing", "settled", "read", "invalid"},
                             seen : States, length : Nat]]
  /\ lost \in BOOLEAN

Init ==
  /\ root = FALSE /\ state = NewState
  /\ log = [stored |-> 0, synced |-> 0, tail |-> FALSE]
  /\ owner = "absent"
  /\ writer = [pc |-> "idle", seq |-> 0, memory |-> NewState, broken |-> FALSE]
  /\ reader = [r \in Readers |-> [pc |-> "idle", seen |-> NewState, length |-> 0]]
  /\ lost = FALSE

Goto(pc) == writer' = [writer EXCEPT !.pc = pc]

-----------------------------------------------------------------------------
(* RunJournal::start: the lease first, then the directory under a work name *)
(* and its rename.  What fails before the rename removes everything.        *)

StartLease ==
  /\ writer.pc = "idle"
  /\ owner' = "writer" /\ Goto("leased")
  /\ UNCHANGED <<root, state, log, reader, lost>>

StartFails ==
  /\ writer.pc = "leased"
  /\ owner' = "absent" /\ Goto("refused")
  /\ UNCHANGED <<root, state, log, reader, lost>>

StartRename ==
  /\ writer.pc = "leased"
  /\ root' = TRUE /\ Goto("renamed")
  /\ UNCHANGED <<state, log, owner, reader, lost>>

(* The event file is opened again under the final name; an error here drops *)
(* the lease and leaves its file.                                           *)
StartOpen ==
  /\ writer.pc = "renamed"
  /\ \/ Goto("open") /\ UNCHANGED owner
     \/ Goto("refused") /\ owner' = "free"
  /\ UNCHANGED <<root, state, log, reader, lost>>

-----------------------------------------------------------------------------
(* Writer::append *)

(* Every event takes a sequence number, and is counted only when stored.    *)
CanAppend == writer.pc = "open" /\ ~writer.broken /\ writer.seq < MaxEvents

Full == writer.memory.truncated \/ log.stored >= Capacity

AppendBegin ==
  /\ CanAppend /\ ~Full
  /\ writer' = [writer EXCEPT !.pc = "appending", !.seq = @ + 1]
  /\ log' = [log EXCEPT !.tail = TRUE]
  /\ UNCHANGED <<root, state, owner, reader, lost>>

AppendEnd ==
  /\ writer.pc = "appending"
  /\ writer' = [writer EXCEPT !.pc = "open", !.memory.count = writer.seq]
  /\ log' = [log EXCEPT !.stored = @ + 1, !.tail = FALSE]
  /\ UNCHANGED <<root, state, owner, reader, lost>>

(* Nothing, or the beginning of the record, has reached the file. *)
AppendFails ==
  /\ writer.pc = "appending"
  /\ writer' = [writer EXCEPT !.pc = "open", !.broken = TRUE]
  /\ \E partial \in BOOLEAN : log' = [log EXCEPT !.tail = partial]
  /\ UNCHANGED <<root, state, owner, reader, lost>>

(* Mutant: an event that was not stored is counted too. *)
AppendOverflowCounts ==
  /\ CanAppend /\ Full
  /\ LET cut == [writer.memory EXCEPT !.truncated = TRUE, !.count = writer.seq + 1]
     IN state' = cut /\ writer' = [writer EXCEPT !.seq = @ + 1, !.memory = cut]
  /\ UNCHANGED <<root, log, owner, reader, lost>>

(* The first event that does not fit publishes the truncated state; the     *)
(* later ones are only handed to the live observers.                        *)
AppendOverflow ==
  /\ CanAppend /\ Full
  /\ LET cut == [writer.memory EXCEPT !.truncated = TRUE]
     IN \/ /\ state' = cut
           /\ writer' = [writer EXCEPT !.seq = @ + 1, !.memory = cut]
        \/ /\ ~writer.memory.truncated
           /\ writer' = [writer EXCEPT !.seq = @ + 1, !.memory = cut, !.broken = TRUE]
           /\ UNCHANGED state
  /\ UNCHANGED <<root, log, owner, reader, lost>>

-----------------------------------------------------------------------------
(* Writer::finish *)

Completed(want) ==
  [writer.memory EXCEPT !.status = IF writer.broken THEN "failed" ELSE want]

(* Mutant: the end is published without waiting for the events. *)
FinishUnsynced(want) ==
  /\ writer.pc = "open"
  /\ writer' = [writer EXCEPT !.pc = "publishing", !.memory = Completed(want)]
  /\ UNCHANGED <<root, state, log, owner, reader, lost>>

FinishSync(want) ==
  /\ writer.pc = "open"
  /\ \/ /\ log' = [log EXCEPT !.synced = log.stored]
        /\ writer' = [writer EXCEPT !.pc = "publishing", !.memory = Completed(want)]
     \/ /\ writer' = [writer EXCEPT !.pc = "publishing", !.memory = Completed("failed")]
        /\ UNCHANGED log
  /\ UNCHANGED <<root, state, owner, reader, lost>>

FinishPublish ==
  /\ writer.pc = "publishing"
  /\ \/ state' = writer.memory /\ Goto("published")
     \/ Goto("abandoned") /\ UNCHANGED state
  /\ UNCHANGED <<root, log, owner, reader, lost>>

(* RunOwnerLease::release closes the handle and then removes the file, which *)
(* another process may have opened in between.                              *)
FinishClose ==
  /\ writer.pc = "published"
  /\ owner' = "free" /\ Goto("closed")
  /\ UNCHANGED <<root, state, log, reader, lost>>

Unlink == owner' = IF owner = "free" THEN "absent" ELSE owner

FinishRemove ==
  /\ writer.pc = "closed"
  /\ Unlink /\ Goto("done")
  /\ UNCHANGED <<root, state, log, reader, lost>>

(* The owning process ends, or drops the journal unfinished. *)
WriterGone ==
  /\ writer.pc \in Holding \cup {"closed"}
  /\ Goto("gone")
  /\ owner' = IF owner = "writer" THEN "free" ELSE owner
  /\ UNCHANGED <<root, state, log, reader, lost>>

-----------------------------------------------------------------------------
(* read_reconciled_state and read_run *)

Move(r, pc) == reader' = [reader EXCEPT ![r].pc = pc]

See(r, pc, s) == reader' = [reader EXCEPT ![r].pc = pc, ![r].seen = s]

ReadState(r) ==
  /\ reader[r].pc = "idle" /\ root
  /\ See(r, IF Ended(state) THEN "settled" ELSE "running", state)
  /\ UNCHANGED <<root, state, log, owner, writer, lost>>

(* Mutant: a lease that is held is taken over. *)
TryAcquireHeld(r) ==
  /\ reader[r].pc = "running"
  /\ IF owner # "absent" THEN owner' = r /\ Move(r, "owned")
                         ELSE Move(r, "settled") /\ UNCHANGED owner
  /\ UNCHANGED <<root, state, log, writer, lost>>

(* A held lease is an active run and an absent one a legacy run: both are   *)
(* reported as read.                                                        *)
TryAcquire(r) ==
  /\ reader[r].pc = "running"
  /\ IF owner = "free" THEN owner' = r /\ Move(r, "owned")
                       ELSE Move(r, "settled") /\ UNCHANGED owner
  /\ UNCHANGED <<root, state, log, writer, lost>>

(* Mutant: the state read before the lease was acquired is good enough. *)
RecheckSkipped(r) ==
  /\ reader[r].pc = "owned"
  /\ Move(r, "reconciling")
  /\ UNCHANGED <<root, state, log, owner, writer, lost>>

Recheck(r) ==
  /\ reader[r].pc = "owned"
  /\ See(r, IF Ended(state) THEN "releasing" ELSE "reconciling", state)
  /\ UNCHANGED <<root, state, log, owner, writer, lost>>

(* An error drops the lease and leaves its file. *)
Refuse(r) == Move(r, "invalid") /\ owner' = "free"

(* Read the events, cut the incomplete tail and sync what is left. *)
Reconcile(r) ==
  /\ reader[r].pc = "reconciling"
  /\ IF reader[r].seen.count > log.stored
       THEN Refuse(r) /\ UNCHANGED log
       ELSE /\ log' = [log EXCEPT !.synced = log.stored, !.tail = FALSE]
            /\ reader' = [reader EXCEPT ![r].pc = "synced", ![r].length = log.stored]
            /\ UNCHANGED owner
  /\ UNCHANGED <<root, state, writer, lost>>

ReconcilePublish(r) ==
  /\ reader[r].pc = "synced"
  /\ LET end == [reader[r].seen EXCEPT !.status = "interrupted", !.count = reader[r].length]
     IN  state' = end /\ See(r, "releasing", end)
  /\ UNCHANGED <<root, log, owner, writer, lost>>

(* Mutant: an error releases the lease and so removes its file. *)
ReconcileFailsRelease(r) ==
  /\ reader[r].pc \in {"reconciling", "synced"}
  /\ Move(r, "idle") /\ owner' = "absent"
  /\ UNCHANGED <<root, state, log, writer, lost>>

(* The read fails without a verdict on the journal. *)
ReconcileFails(r) ==
  /\ reader[r].pc \in {"reconciling", "synced"}
  /\ Move(r, "idle") /\ owner' = "free"
  /\ UNCHANGED <<root, state, log, writer, lost>>

ReleaseClose(r) ==
  /\ reader[r].pc = "releasing"
  /\ Move(r, "removing") /\ owner' = "free"
  /\ UNCHANGED <<root, state, log, writer, lost>>

ReleaseRemove(r) ==
  /\ reader[r].pc = "removing"
  /\ Unlink /\ Move(r, "settled")
  /\ UNCHANGED <<root, state, log, writer, lost>>

(* read_events, and the two checks of read_run on what it returns. *)
Consistent(s) ==
  IF Ended(s) THEN ~log.tail /\ s.count = log.stored
              ELSE s.count <= log.stored

ReadEvents(r) ==
  /\ reader[r].pc = "settled"
  /\ reader' = [reader EXCEPT ![r].pc = IF Consistent(reader[r].seen) THEN "read" ELSE "invalid",
                              ![r].length = log.stored]
  /\ UNCHANGED <<root, state, log, owner, writer, lost>>

Quit(r) == [reader EXCEPT ![r] = [pc |-> "idle", seen |-> NewState, length |-> 0]]

(* The read is over, or its process ends at any point. *)
ReaderEnds(r) ==
  /\ reader[r].pc # "idle"
  /\ reader' = Quit(r)
  /\ owner' = IF owner = r THEN "free" ELSE owner
  /\ UNCHANGED <<root, state, log, writer, lost>>

-----------------------------------------------------------------------------
(* Every process ends and what was not synced may be lost, from the end of  *)
(* the event file.  Published states are written through.                   *)
PowerLoss ==
  /\ writer.pc # "idle"
  /\ writer' = [writer EXCEPT !.pc = "gone"]
  /\ reader' = [r \in Readers |-> [pc |-> "idle", seen |-> NewState, length |-> 0]]
  /\ owner' = IF owner = "absent" THEN "absent" ELSE "free"
  /\ \E kept \in log.synced .. log.stored, tail \in BOOLEAN :
       /\ tail => log.tail \/ kept < log.stored
       /\ log' = [log EXCEPT !.stored = kept, !.tail = tail]
  /\ lost' = TRUE
  /\ UNCHANGED <<root, state>>

WriterStep ==
  \/ StartLease \/ StartFails \/ StartRename \/ StartOpen
  \/ AppendBegin \/ AppendEnd \/ AppendFails \/ AppendOverflow
  \/ \E want \in Ends \ {"interrupted"} : FinishSync(want)
  \/ FinishPublish \/ FinishClose \/ FinishRemove \/ WriterGone

ReaderStep(r) ==
  \/ ReadState(r) \/ TryAcquire(r) \/ Recheck(r) \/ Reconcile(r) \/ ReconcilePublish(r)
  \/ ReconcileFails(r) \/ ReleaseClose(r) \/ ReleaseRemove(r) \/ ReadEvents(r) \/ ReaderEnds(r)

(* A journal nobody has to read any more may rest. *)
Rest == writer.pc \in {"refused", "done", "gone"} /\ UNCHANGED vars

Next == WriterStep \/ (\E r \in Readers : ReaderStep(r)) \/ PowerLoss \/ Rest

Spec == Init /\ [][Next]_vars

-----------------------------------------------------------------------------
(* Properties *)

(* A run that the journal says ended normally has all its events in it,     *)
(* whole and in the counted number, even after the machine lost power.      *)
NormalEndIsComplete ==
  state.status \in Normal => state.count = log.stored /\ ~log.tail

(* The journal's end is final: no reader that was late, was killed, or      *)
(* raced another reader for the lease overwrites it.                        *)
EndIsFinal == [][Ended(state) => state' = state]_vars

(* A journal still marked running can always be claimed by a reader once    *)
(* its owner is gone: the lease file is removed only after an end has been  *)
(* published.  Without it the run would read as running for ever (Legacy).  *)
RunningIsGuarded == root /\ ~Ended(state) => owner # "absent"

(* "command execution owner ended before publishing a terminal state" is    *)
(* true whenever it is written: no reader closes the journal of a run whose *)
(* owner is alive.                                                          *)
InterruptedOwnerIsGone == state.status = "interrupted" => writer.pc \in {"gone", "refused"}

(* At most one process is allowed to change the state file.                 *)
Publishers ==
  {r \in Readers : reader[r].pc \in {"reconciling", "synced"}}
    \cup (IF writer.pc \in Holding \ {"published"} THEN {"writer"} ELSE {})
SinglePublisher == \A p, q \in Publishers : p = q

(* A process crash, an overflow or a race with the writer or with another   *)
(* reader never makes a journal unreadable; only a failed event write or a  *)
(* power loss can.                                                          *)
ReadableUnlessBroken ==
  lost \/ writer.broken \/ \A r \in Readers : reader[r].pc # "invalid"

(* The files, the lease and the readers implement the append-only log with  *)
(* one end that a reader is promised.                                       *)
Log == INSTANCE JournalLog WITH Lossy <- {"failed"},
                                length <- log.stored,
                                end <- IF root THEN state.status ELSE "none"
LogSpec == Log!Spec

(* "terminal run journal has an incomplete event record" is never the       *)
(* verdict on a journal that this program has closed itself, as long as the *)
(* machine does not stop.                                                   *)
ClosedJournalIsWhole == Ended(state) /\ ~lost => ~log.tail
=============================================================================
