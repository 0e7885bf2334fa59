----------------------------- MODULE CommandRuns -----------------------------
(***************************************************************************)
(* The Entry Host's registry of command runs (server/command_run), the     *)
(* in-memory life of each run, the native runner behind it and the order   *)
(* in which the Host shuts them down.                                      *)
(*                                                                         *)
(* Four kinds of thread meet here: the blocking task of a POST that starts *)
(* a run, the blocking task of a DELETE that cancels one, the monitor      *)
(* thread of a run's process tree, and the Host's own shutdown.  A step is *)
(* what one thread does under one lock, or between two locks.  Poisoned    *)
(* locks (a panic in another thread) are left out.                         *)
(***************************************************************************)
EXTENDS Integers, FiniteSets

CONSTANTS Runs,         \* identities of the runs that may be started
          Deletes,      \* DELETE requests that may be in flight
          Queries,      \* facet queries that may borrow a run slot
          Host,         \* the shutting-down Host, as a caller of cancel
          MaxActive,    \* MAX_ACTIVE_RUNS
          MaxTerminal,  \* MAX_TERMINAL_RUNS
          TerminateCanFail \* whether the system may refuse TerminateJobObject

ASSUME FiniteAssumption == IsFiniteSet(Runs) /\ IsFiniteSet(Queries)
ASSUME TaskAssumption   == Runs \cap Queries = {}
ASSUME HostAssumption   == Host \notin Deletes
ASSUME LimitAssumption  == MaxActive \in Nat /\ MaxTerminal \in Nat
ASSUME TerminateAssumption == TerminateCanFail \in BOOLEAN

VARIABLES
  accepting,  \* RegistryState.accepting
  active,     \* RegistryState.active
  runs,       \* the keys of RegistryState.runs
  order,      \* RegistryState.order, as the pairs <<older, newer>>
  starter,    \* where the POST task of a run stands
  status,     \* RunState.status; "absent" before the run is created
  control,    \* whether CommandRun.control holds the runner's control
  proc,       \* the process tree in the run's Job Object; "leftover" when
              \* only descendants of the command are left of it
  monitor,    \* where the monitor thread of the run stands
  journal,    \* the status the durable journal of the run shows
  broken,     \* RunState.journal_error and Writer.write_error are set
  call,       \* the CommandRun::cancel calls in flight
  query,      \* the QuerySlot each facet query holds
  host        \* the progress of CommandRuns::shutdown and of Host exit

registryVars == <<accepting, active, runs, order>>
runVars      == <<starter, status, control, proc, monitor, journal, broken>>
vars         == <<registryVars, runVars, call, query, host>>

Callers   == Deletes \cup {Host}
Live      == {"running", "canceling"}
Terminal  == {"exited", "canceled", "failed"}
Refusals  == {"shutting_down", "capacity", "journal_error"}
InStart   == {"starting", "spawned", "start_error", "failing"}
IsTerminal(r) == status[r] \in Terminal

(* The registry has been dropped: nothing can find a run any more. *)
Gone == host.pc \in {"dropped", "exited"}

Calls == [pc : {"idle", "found", "terminating", "rollback", "answered"},
          run : SUBSET Runs, ok : BOOLEAN]

TypeOK ==
  /\ accepting \in BOOLEAN
  /\ active \in Nat
  /\ runs \subseteq Runs
  /\ order \subseteq Runs \X Runs
  /\ starter \in [Runs -> {"idle", "answered", "failed"} \cup InStart \cup Refusals]
  /\ status  \in [Runs -> {"absent"} \cup Live \cup Terminal]
  /\ control \in [Runs -> BOOLEAN]
  /\ proc    \in [Runs -> {"none", "alive", "leftover", "dead"}]
  /\ monitor \in [Runs -> {"none", "waiting", "completed", "ended"}]
  /\ journal \in [Runs -> {"none", "running"} \cup Terminal]
  /\ broken  \in [Runs -> BOOLEAN]
  /\ call \in [Callers -> Calls]
  /\ query \in [Queries -> {"idle", "held", "done"}]
  /\ host \in [pc : {"serving", "cancel", "join", "done", "dropped", "exited"},
               snapshot : SUBSET Runs, todo : SUBSET Runs, failed : BOOLEAN]

NoCall == [pc |-> "idle", run |-> {}, ok |-> FALSE]

Init ==
  /\ accepting = TRUE /\ active = 0 /\ runs = {} /\ order = {}
  /\ starter = [r \in Runs |-> "idle"]
  /\ status  = [r \in Runs |-> "absent"]
  /\ control = [r \in Runs |-> FALSE]
  /\ proc    = [r \in Runs |-> "none"]
  /\ monitor = [r \in Runs |-> "none"]
  /\ journal = [r \in Runs |-> "none"]
  /\ broken  = [r \in Runs |-> FALSE]
  /\ call  = [c \in Callers |-> NoCall]
  /\ query = [q \in Queries |-> "idle"]
  /\ host  = [pc |-> "serving", snapshot |-> {}, todo |-> {}, failed |-> FALSE]

-----------------------------------------------------------------------------
(* Retention.  prune_terminal keeps the newest MaxTerminal terminal runs:   *)
(* walking the deque from the oldest, it drops terminal runs until no more  *)
(* than MaxTerminal are left.                                               *)

(* Mutant: retention by age alone. *)
ExcessOldest ==
  {r \in runs : Cardinality({s \in runs : <<r, s>> \in order}) >= MaxTerminal}

Excess ==
  {r \in runs : /\ IsTerminal(r)
                /\ Cardinality({s \in runs : IsTerminal(s) /\ <<r, s>> \in order})
                     >= MaxTerminal}

Forget(gone) ==
  /\ runs'  = runs \ gone
  /\ order' = {p \in order : p[1] \notin gone /\ p[2] \notin gone}

(* usize::saturating_sub *)
ReleaseSlot == active' = IF active = 0 THEN 0 ELSE active - 1

(* RegistryInner::completed: one slot back, then prune. *)
Completed == ReleaseSlot /\ Forget(Excess)

-----------------------------------------------------------------------------
(* CommandRuns::start, as the POST task executes it. *)

Refuse(r, why) ==
  /\ starter' = [starter EXCEPT ![r] = why]
  /\ Forget(Excess)
  /\ UNCHANGED <<accepting, active, status, control, proc, monitor, journal,
                 broken, call, query, host>>

RefuseStart(r) ==
  /\ starter[r] = "idle" /\ ~Gone
  /\ \/ ~accepting /\ Refuse(r, "shutting_down")
     \/ accepting /\ active >= MaxActive /\ Refuse(r, "capacity")
     \/ accepting /\ active < MaxActive /\ Refuse(r, "journal_error")

(* Mutant: an off-by-one at the limit. *)
RegisterAtLimit(r) ==
  /\ starter[r] = "idle" /\ ~Gone
  /\ accepting /\ active <= MaxActive
  /\ runs' = runs \cup {r} /\ order' = order \cup (runs \X {r})
  /\ active'  = active + 1
  /\ status'  = [status  EXCEPT ![r] = "running"]
  /\ journal' = [journal EXCEPT ![r] = "running"]
  /\ starter' = [starter EXCEPT ![r] = "starting"]
  /\ UNCHANGED <<accepting, control, proc, monitor, broken, call, query, host>>

Register(r) ==
  /\ starter[r] = "idle" /\ ~Gone
  /\ accepting /\ active < MaxActive
  /\ LET kept == runs \ Excess
     IN  /\ runs'  = kept \cup {r}
         /\ order' = (order \cap (kept \X kept)) \cup (kept \X {r})
  /\ active'  = active + 1
  /\ status'  = [status  EXCEPT ![r] = "running"]
  /\ journal' = [journal EXCEPT ![r] = "running"]
  /\ starter' = [starter EXCEPT ![r] = "starting"]
  /\ UNCHANGED <<accepting, control, proc, monitor, broken, call, query, host>>

(* EntryRunner::start: the suspended child joins its Job, is resumed, and   *)
(* gets its monitor.  On any error the Job has been closed, and the child   *)
(* killed with it, before the start returns.                                *)
Spawn(r) ==
  /\ starter[r] = "starting"
  /\ \/ /\ starter' = [starter EXCEPT ![r] = "spawned"]
        /\ proc'    = [proc    EXCEPT ![r] = "alive"]
        /\ monitor' = [monitor EXCEPT ![r] = "waiting"]
     \/ /\ starter' = [starter EXCEPT ![r] = "start_error"]
        /\ UNCHANGED <<proc, monitor>>
  /\ UNCHANGED <<registryVars, status, control, journal, broken, call, query, host>>

AttachControl(r) ==
  /\ starter[r] = "spawned"
  /\ starter' = [starter EXCEPT ![r] = "answered"]
  /\ control' = [control EXCEPT ![r] = TRUE]
  /\ UNCHANGED <<registryVars, status, proc, monitor, journal, broken, call, query, host>>

-----------------------------------------------------------------------------
(* CommandRun::complete.  The journal decides whether the wanted status is  *)
(* reported: a recorded write error or a failed sync publishes "failed",    *)
(* and a state file that cannot be published stays "running".               *)

(* Mutant: the outcome is reported whatever the journal answers. *)
SettleUnchecked(r, want) ==
  /\ status' = [status EXCEPT ![r] = want]
  /\ \E durable \in {"running", "failed", want} :
       journal' = [journal EXCEPT ![r] = durable]

Settle(r, want) ==
  \/ /\ want = "failed" \/ ~broken[r]
     /\ status'  = [status  EXCEPT ![r] = want]
     /\ journal' = [journal EXCEPT ![r] = want]
  \/ /\ status'  = [status  EXCEPT ![r] = "failed"]
     /\ \E durable \in {"running", "failed"} :
          journal' = [journal EXCEPT ![r] = durable]

Complete(r, outcome) ==
  Settle(r, IF status[r] = "canceling" THEN "canceled" ELSE outcome)

(* A start that failed completes its run and then hands its slot back,      *)
(* under two different locks.                                               *)
FailComplete(r) ==
  /\ starter[r] = "start_error"
  /\ IF IsTerminal(r) THEN UNCHANGED <<status, journal>> ELSE Complete(r, "failed")
  /\ starter' = [starter EXCEPT ![r] = "failing"]
  /\ UNCHANGED <<registryVars, control, proc, monitor, broken, call, query, host>>

(* Mutant: the slot is returned twice: once here, once more by name. *)
RemoveFailedStartAnyway(r) ==
  /\ starter[r] = "failing"
  /\ Forget({r}) /\ active' = IF active < 2 THEN 0 ELSE active - 2
  /\ starter' = [starter EXCEPT ![r] = "failed"]
  /\ UNCHANGED <<accepting, status, control, proc, monitor, journal, broken,
                 call, query, host>>

RemoveFailedStart(r) ==
  /\ starter[r] = "failing"
  /\ IF r \in runs THEN Forget({r}) /\ ReleaseSlot
                   ELSE UNCHANGED <<runs, order, active>>
  /\ starter' = [starter EXCEPT ![r] = "failed"]
  /\ UNCHANGED <<accepting, status, control, proc, monitor, journal, broken,
                 call, query, host>>

-----------------------------------------------------------------------------
(* The process tree and its monitor thread.                                 *)

(* The command ends, and what it started may outlive it for a while.  The   *)
(* rest of the tree ends by itself, or when the last handle of its Job is   *)
(* closed because the registry has forgotten the run.                       *)
Exit(r) ==
  /\ \/ proc[r] = "alive" /\ proc' = [proc EXCEPT ![r] = "leftover"]
     \/ proc[r] = "leftover" /\ proc' = [proc EXCEPT ![r] = "dead"]
  /\ UNCHANGED <<registryVars, starter, status, control, monitor, journal, broken,
                 call, query, host>>

(* An output event the journal cannot append. *)
AppendFails(r) ==
  /\ monitor[r] = "waiting" /\ status[r] \in Live /\ ~broken[r]
  /\ ~Gone
  /\ broken' = [broken EXCEPT ![r] = TRUE]
  /\ UNCHANGED <<registryVars, starter, status, control, proc, monitor, journal,
                 call, query, host>>

(* The monitor terminates what is left of the tree, or fails to and reports *)
(* that.  Then RunObserver::completed, first half: the observer's weak      *)
(* reference still finds the run unless the registry has been dropped.      *)
Reap(r, outcome) ==
  \/ proc' = [proc EXCEPT ![r] = "dead"]
  \/ TerminateCanFail /\ outcome = "failed" /\ UNCHANGED proc

MonitorComplete(r) ==
  /\ monitor[r] = "waiting" /\ proc[r] \in {"leftover", "dead"}
  /\ \E outcome \in {"exited", "failed"} :
       /\ Reap(r, outcome)
       /\ IF Gone \/ IsTerminal(r)
            THEN /\ monitor' = [monitor EXCEPT ![r] = "ended"]
                 /\ UNCHANGED <<status, journal>>
            ELSE /\ monitor' = [monitor EXCEPT ![r] = "completed"]
                 /\ Complete(r, outcome)
  /\ UNCHANGED <<registryVars, starter, control, broken, call, query, host>>

(* RunObserver::completed, second half. *)
MonitorRelease(r) ==
  /\ monitor[r] = "completed"
  /\ monitor' = [monitor EXCEPT ![r] = "ended"]
  /\ IF Gone THEN UNCHANGED <<active, runs, order>>
                                          ELSE Completed
  /\ UNCHANGED <<accepting, starter, status, control, proc, journal, broken,
                 call, query, host>>

-----------------------------------------------------------------------------
(* CommandRun::cancel: mark the run under its state lock, terminate its Job *)
(* through the control, and roll the mark back when that fails.             *)

Find(c, r) == call' = [call EXCEPT ![c] = [pc |-> "found", run |-> {r}, ok |-> FALSE]]

Answer(c, ok) == call' = [call EXCEPT ![c].pc = "answered", ![c].ok = ok]

Target(c, r) == r \in call[c].run

CancelFind(c, r) ==
  /\ c \in Deletes /\ call[c].pc = "idle"
  /\ r \in runs
  /\ Find(c, r)
  /\ UNCHANGED <<registryVars, runVars, query, host>>

CancelMark(c, r) ==
  /\ call[c].pc = "found" /\ Target(c, r)
  /\ IF status[r] = "running"
       THEN /\ status' = [status EXCEPT ![r] = "canceling"]
            /\ call' = [call EXCEPT ![c].pc = "terminating"]
       ELSE Answer(c, TRUE) /\ UNCHANGED status
  /\ UNCHANGED <<registryVars, starter, control, proc, monitor, journal, broken,
                 query, host>>

CancelTerminate(c, r) ==
  /\ call[c].pc = "terminating" /\ Target(c, r)
  /\ \/ /\ control[r]
        /\ proc' = [proc EXCEPT ![r] = "dead"]
        /\ Answer(c, TRUE)
     \/ /\ ~control[r] \/ TerminateCanFail
        /\ call' = [call EXCEPT ![c].pc = "rollback"]
        /\ UNCHANGED proc
  /\ UNCHANGED <<registryVars, starter, status, control, monitor, journal, broken,
                 query, host>>

(* Mutants: a rollback that does not look at the status, and none at all. *)
CancelRollbackBlind(c, r) ==
  /\ call[c].pc = "rollback" /\ Target(c, r)
  /\ status' = [status EXCEPT ![r] = "running"]
  /\ Answer(c, FALSE)
  /\ UNCHANGED <<registryVars, starter, control, proc, monitor, journal, broken,
                 query, host>>
CancelRollbackMissing(c, r) ==
  /\ call[c].pc = "rollback" /\ Target(c, r)
  /\ Answer(c, FALSE)
  /\ UNCHANGED <<registryVars, runVars, query, host>>

CancelRollback(c, r) ==
  /\ call[c].pc = "rollback" /\ Target(c, r)
  /\ status' = [status EXCEPT ![r] = IF @ = "canceling" THEN "running" ELSE @]
  /\ Answer(c, FALSE)
  /\ UNCHANGED <<registryVars, starter, control, proc, monitor, journal, broken,
                 query, host>>

-----------------------------------------------------------------------------
(* CommandRuns::query borrows a slot and QuerySlot::drop returns it.        *)

QueryReserve(q) ==
  /\ query[q] = "idle" /\ ~Gone
  /\ accepting /\ active < MaxActive
  /\ active' = active + 1
  /\ query' = [query EXCEPT ![q] = "held"]
  /\ UNCHANGED <<accepting, runs, order, runVars, call, host>>

QueryRelease(q) ==
  /\ query[q] = "held"
  /\ query' = [query EXCEPT ![q] = "done"]
  /\ Completed
  /\ UNCHANGED <<accepting, runVars, call, host>>

-----------------------------------------------------------------------------
(* CommandRuns::shutdown: refuse new work, cancel every run, then join the  *)
(* monitor of every run whose control is attached.                          *)

ShutdownClose ==
  /\ host.pc = "serving"
  /\ accepting' = FALSE
  /\ host' = [host EXCEPT !.pc = "cancel", !.snapshot = runs, !.todo = runs]
  /\ UNCHANGED <<active, runs, order, runVars, call, query>>

ShutdownCancel(r) ==
  /\ host.pc = "cancel" /\ r \in host.todo /\ call[Host].pc = "idle"
  /\ Find(Host, r)
  /\ UNCHANGED <<registryVars, runVars, query, host>>

ShutdownCanceled ==
  /\ call[Host].pc = "answered"
  /\ host' = [host EXCEPT !.todo = @ \ call[Host].run,
                          !.failed = @ \/ ~call[Host].ok]
  /\ call' = [call EXCEPT ![Host] = NoCall]
  /\ UNCHANGED <<registryVars, runVars, query>>

ShutdownJoining ==
  /\ host.pc = "cancel" /\ host.todo = {}
  /\ host' = [host EXCEPT !.pc = "join", !.todo = host.snapshot]
  /\ UNCHANGED <<registryVars, runVars, call, query>>

(* Mutant: shutdown cancels but does not join. *)
ShutdownJoinNot(r) ==
  /\ host.pc = "join" /\ r \in host.todo
  /\ host' = [host EXCEPT !.todo = @ \ {r}]
  /\ UNCHANGED <<registryVars, runVars, call, query>>

ShutdownJoin(r) ==
  /\ host.pc = "join" /\ r \in host.todo
  /\ ~control[r] \/ monitor[r] = "ended"
  /\ host' = [host EXCEPT !.todo = @ \ {r}]
  /\ UNCHANGED <<registryVars, runVars, call, query>>

ShutdownReturn ==
  /\ host.pc = "join" /\ host.todo = {}
  /\ host' = [host EXCEPT !.pc = "done"]
  /\ UNCHANGED <<registryVars, runVars, call, query>>

(* The last reference to the registry goes when no request task holds one:  *)
(* every run is dropped, and with it its control, which terminates the Job  *)
(* and ignores the result.                                                  *)
DropRegistry ==
  /\ host.pc = "done"
  /\ \A r \in Runs : starter[r] \notin InStart
  /\ \A c \in Deletes : call[c].pc \in {"idle", "answered"}
  /\ \A q \in Queries : query[q] # "held"
  /\ host' = [host EXCEPT !.pc = "dropped"]
  /\ runs' = {} /\ order' = {}
  /\ \E survivors \in SUBSET (IF TerminateCanFail THEN Runs ELSE {}) :
       proc' = [r \in Runs |-> IF r \in runs /\ control[r] /\ r \notin survivors
                                 THEN "dead" ELSE proc[r]]
  /\ UNCHANGED <<accepting, active, starter, status, control, monitor, journal,
                 broken, call, query>>

(* Mutant: a Job without KILL_ON_JOB_CLOSE. *)
HostExitOrphans ==
  /\ host.pc = "dropped"
  /\ host' = [host EXCEPT !.pc = "exited"]
  /\ UNCHANGED <<registryVars, runVars, call, query>>

(* The Host process ends and its Job handles close: KILL_ON_JOB_CLOSE.      *)
HostExit ==
  /\ host.pc = "dropped"
  /\ host' = [host EXCEPT !.pc = "exited"]
  /\ proc' = [r \in Runs |-> IF proc[r] = "none" THEN "none" ELSE "dead"]
  /\ UNCHANGED <<registryVars, starter, status, control, monitor, journal, broken,
                 call, query>>

-----------------------------------------------------------------------------
StartStep(r) == Spawn(r) \/ AttachControl(r) \/ FailComplete(r) \/ RemoveFailedStart(r)

MonitorStep(r) == MonitorComplete(r) \/ MonitorRelease(r)

CancelStep(c) ==
  \E r \in Runs : CancelMark(c, r) \/ CancelTerminate(c, r) \/ CancelRollback(c, r)

ShutdownStep ==
  \/ ShutdownCanceled \/ ShutdownJoining \/ ShutdownReturn \/ DropRegistry \/ HostExit
  \/ \E r \in Runs : ShutdownCancel(r) \/ ShutdownJoin(r)

(* Everything the Host has begun has ended. *)
Finished == host.pc = "exited" /\ UNCHANGED vars

Next ==
  \/ \E r \in Runs : \/ RefuseStart(r) \/ Register(r) \/ StartStep(r)
                     \/ Exit(r) \/ AppendFails(r) \/ MonitorStep(r)
  \/ \E c \in Callers : CancelStep(c)
  \/ \E c \in Deletes, r \in Runs : CancelFind(c, r)
  \/ \E q \in Queries : QueryReserve(q) \/ QueryRelease(q)
  \/ ShutdownClose \/ ShutdownStep
  \/ Finished

Spec == Init /\ [][Next]_vars

(* Threads that have begun an operation keep running; requests, process     *)
(* exits, the end of a facet query and the Host's decision to stop are the  *)
(* environment's.                                                           *)
Fairness ==
  /\ \A r \in Runs : WF_vars(StartStep(r)) /\ WF_vars(MonitorStep(r))
  /\ \A c \in Callers : WF_vars(CancelStep(c))
  /\ WF_vars(ShutdownStep)

FairSpec == Spec /\ Fairness

-----------------------------------------------------------------------------
(* Properties *)

(* The threads that own one unit of RegistryState.active, and the guards.   *)
Holders ==
  {r \in Runs : starter[r] \in {"starting", "start_error", "failing"}
                  \/ monitor[r] \in {"waiting", "completed"}}

HeldQueries == {q \in Queries : query[q] = "held"}

Owners == Holders \cup HeldQueries

(* What really runs: commands, and facet queries. *)
Working == {r \in Runs : proc[r] = "alive"} \cup HeldQueries
Spent   == {r \in Runs : proc[r] \in {"leftover", "dead"}} \cup {q \in Queries : query[q] = "done"}

(* The registry implements a pool of MAX_ACTIVE_RUNS slots.                 *)
Pool == INSTANCE SlotPool WITH Tasks <- Runs \cup Queries, Slots <- MaxActive,
                               working <- Working, spent <- Spent

(* MAX_ACTIVE_RUNS bounds what really runs: commands and facet queries      *)
(* together never exceed it and none runs twice, whatever order starts,     *)
(* failed starts, completions, query guards and the end of the Host take    *)
(* and return the slots in.                                                 *)
PoolSpec == Pool!Spec

(* The counter the limit is tested on never falls below the number of slots *)
(* in use: no thread gives back a slot it does not hold, or gives one back  *)
(* twice, or early.                                                         *)
SlotsAccounted == Cardinality(Owners) <= active

(* While the registry exists, a run that has not reached a terminal status  *)
(* can still be found in it: pruning and failed starts never make a live    *)
(* command unreachable for GET, DELETE and shutdown.                        *)
LiveRunsReachable == Gone \/ \A r \in Runs : status[r] \in Live => r \in runs

(* What the Host reports as a normal end, the durable journal says too: a   *)
(* completion the journal did not take is reported as failed.               *)
ReportedEndIsDurable ==
  \A r \in Runs : status[r] \in {"exited", "canceled"} => journal[r] = status[r]

(* A run's terminal status, and the terminal status of its journal, are     *)
(* final against late completions, late cancellations and rollbacks.        *)
TerminalIsFinal ==
  [][\A r \in Runs : /\ IsTerminal(r) => status'[r] = status[r]
                     /\ journal[r] \in Terminal => journal'[r] = journal[r]]_vars

(* A shutdown that reports success has left no live command behind: every   *)
(* run of its snapshot is terminal and its command has ended, unless a      *)
(* DELETE request has meddled with that run (it may roll back the mark that *)
(* made the shutdown take the run for cancelled).                           *)
QuietShutdown ==
  (host.pc = "done" /\ ~host.failed) =>
    \A r \in host.snapshot :
      (\A c \in Deletes : ~Target(c, r)) => IsTerminal(r) /\ proc[r] # "alive"

(* A run does not stay "canceling": the cancellation completes, or is       *)
(* rolled back, or the whole registry goes.                                 *)
CancelingSettles ==
  \A r \in Runs : status[r] = "canceling" ~> (status[r] # "canceling" \/ Gone)

(* Once shutdown has returned, every process tree ends without its command  *)
(* having to end by itself, also one that shutdown could not cancel and     *)
(* descendants that outlived their command.                                 *)
HostExitReclaims ==
  \A r \in Runs : host.pc = "done" ~> proc[r] \in {"none", "dead"}

(* "too many command runs are active" is answered only when that many runs  *)
(* and queries hold a slot.                                                 *)
CapacityRefusalIsTrue ==
  [][\A r \in Runs : (starter[r] = "idle" /\ starter'[r] = "capacity") =>
       Cardinality(Owners) >= MaxActive]_vars

(* Host exit reclaims the commands it owns: a shutdown that has begun       *)
(* returns, without waiting for a command to end by itself.                 *)
ShutdownReturns == host.pc = "cancel" ~> host.pc = "done"
=============================================================================
