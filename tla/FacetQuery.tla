---------------------------- MODULE FacetQuery ----------------------------
(***************************************************************************)
(* One facet query (entry_runner.rs and entry_runner/query.rs): the Host   *)
(* starts the Entry Launcher in a Job Object, two readers and a monitor    *)
(* report to an observer, and the asking thread waits with a timeout,      *)
(* cancels what took too long or said too much, and joins the monitor.     *)
(***************************************************************************)
EXTENDS ProcessTree

CONSTANTS MaxSaid,      \* bound on the chunks written to each stream
          QueryLimit,   \* the chunks that fit into MAX_QUERY_OUTPUT_BYTES
          MaxFaults     \* bound on failed calls

ASSUME QueryAssumption == MaxSaid \in Nat /\ QueryLimit \in Nat /\ MaxFaults \in Nat

VARIABLES
  asker,      \* the thread that asks, and what it will answer
  queryTree,  \* the Launcher, its worker and what that runs
  said,       \* how many chunks were written to each stream
  heard,      \* the thread that reads each stream
  monitor,    \* the thread that waits for the Launcher
  observed,   \* the state of the observer
  faults

queryVars == <<asker, queryTree, said, heard, monitor, observed, faults>>

-----------------------------------------------------------------------------
Outcomes == {"none", "zero", "nonzero", "failed"}

QueryTypeOK ==
  /\ asker \in [stage : {"starting", "suspended", "first reader", "second reader", "abandoned",
                         "monitored", "waiting", "canceling", "joining", "done"},
                wait : {"none", "completed", "rejected", "timed out"},
                answer : {"none", "document", "error"}]
  /\ queryTree \in Trees
  /\ said \in [Streams -> 0 .. MaxSaid]
  /\ heard \in [Streams -> [post : {"none", "reading", "ended"}, read : 0 .. MaxSaid, failed : BOOLEAN]]
  /\ monitor \in [stage : {"none", "waiting", "cleaning", "joining", "ended"}, failed : BOOLEAN]
  /\ observed \in [stdout : 0 .. MaxSaid, stderr : 0 .. MaxSaid,
                   outcome : Outcomes, rejected : BOOLEAN]
  /\ faults \in 0 .. MaxFaults

QueryInit ==
  /\ asker = [stage |-> "starting", wait |-> "none", answer |-> "none"]
  /\ queryTree = NoProcess
  /\ said = [s \in Streams |-> 0]
  /\ heard = [s \in Streams |-> [post |-> "none", read |-> 0, failed |-> FALSE]]
  /\ monitor = [stage |-> "none", failed |-> FALSE]
  /\ observed = [stdout |-> 0, stderr |-> 0, outcome |-> "none", rejected |-> FALSE]
  /\ faults = 0

-----------------------------------------------------------------------------
Asks(stage)   == asker.stage = stage
AskerGoes(to) == asker' = [asker EXCEPT !.stage = to]
Refuses       == asker' = [asker EXCEPT !.stage = "done", !.answer = "error"]
Fault         == faults < MaxFaults /\ faults' = faults + 1

(* NativeEntryRunner::start: the Job, the environment and the process.      *)
CreateLauncher ==
  /\ Asks("starting")
  /\ \/ AskerGoes("suspended") /\ queryTree' = Suspended /\ UNCHANGED faults
     \/ Refuses /\ Fault /\ UNCHANGED queryTree
  /\ UNCHANGED <<said, heard, monitor, observed>>

(* assign_and_resume; failed_before_start kills what it could not resume.   *)
AssignLauncher ==
  /\ Asks("suspended")
  /\ \/ AskerGoes("first reader") /\ queryTree' = Resumed(queryTree) /\ UNCHANGED faults
     \/ /\ Refuses /\ Fault
        /\ queryTree' \in {Closed(KilledRoot(t, 1)) : t \in {queryTree, Assigned(queryTree)}}
  /\ UNCHANGED <<said, heard, monitor, observed>>

(* The first reader that cannot be started drops the Job on the way out,    *)
(* the second one is preceded by a reader that has to end.                  *)
StartReader(s) ==
  /\ Asks(IF s = "stdout" THEN "first reader" ELSE "second reader")
  /\ \/ /\ heard' = [heard EXCEPT ![s].post = "reading"]
        /\ AskerGoes(IF s = "stdout" THEN "second reader" ELSE "monitored")
        /\ UNCHANGED <<queryTree, faults>>
     \/ /\ Fault /\ UNCHANGED heard
        /\ IF s = "stdout" THEN Refuses /\ queryTree' = Closed(queryTree)
           ELSE AskerGoes("abandoned") /\ queryTree' \in {Terminated(queryTree, 1),
                                                           KilledRoot(queryTree, 1)}
  /\ UNCHANGED <<said, monitor, observed>>

AbandonStart ==
  /\ Asks("abandoned") /\ queryTree.root = "exited" /\ heard["stdout"].post = "ended"
  /\ Refuses /\ queryTree' = Closed(queryTree)
  /\ UNCHANGED <<said, heard, monitor, observed, faults>>

StartMonitor ==
  /\ Asks("monitored")
  /\ \/ /\ monitor' = [monitor EXCEPT !.stage = "waiting"]
        /\ AskerGoes("waiting") /\ UNCHANGED <<queryTree, faults>>
     \/ Refuses /\ Fault /\ queryTree' = Closed(queryTree) /\ UNCHANGED monitor
  /\ UNCHANGED <<said, heard, observed>>

-----------------------------------------------------------------------------
(* The monitor: wait, terminate_remaining, join both readers, report.       *)
AwaitLauncher ==
  /\ monitor.stage = "waiting" /\ queryTree.root = "exited"
  /\ monitor' = [monitor EXCEPT !.stage = "cleaning"]
  /\ UNCHANGED <<asker, queryTree, said, heard, observed, faults>>

TerminateRemaining ==
  /\ monitor.stage = "cleaning"
  /\ \/ /\ queryTree' = Terminated(queryTree, 0)
        /\ monitor' = [monitor EXCEPT !.stage = "joining"] /\ UNCHANGED faults
     \/ /\ Fault /\ UNCHANGED queryTree
        /\ monitor' = [stage |-> "joining", failed |-> TRUE]
  /\ UNCHANGED <<asker, said, heard, observed>>

(* Mutant: the outcome is reported before the readers have ended. *)
ReportEarly ==
  /\ monitor.stage = "joining"
  /\ observed' = [observed EXCEPT !.outcome =
       IF monitor.failed THEN "failed" ELSE IF queryTree.code = 0 THEN "zero" ELSE "nonzero"]
  /\ monitor' = [monitor EXCEPT !.stage = "ended"]
  /\ UNCHANGED <<asker, queryTree, said, heard, faults>>

ReportOutcome ==
  /\ monitor.stage = "joining"
  /\ \A s \in Streams : heard[s].post = "ended"
  /\ observed' = [observed EXCEPT !.outcome =
       IF monitor.failed \/ \E s \in Streams : heard[s].failed THEN "failed"
       ELSE IF queryTree.code = 0 THEN "zero" ELSE "nonzero"]
  /\ monitor' = [monitor EXCEPT !.stage = "ended"]
  /\ UNCHANGED <<asker, queryTree, said, heard, faults>>

-----------------------------------------------------------------------------
(* The observer: what exceeds the limit, or is no output at all, is what    *)
(* the query is rejected for.                                               *)
HearOutput(s) ==
  /\ heard[s].post = "reading" /\ heard[s].read < said[s]
  /\ heard' = [heard EXCEPT ![s].read = @ + 1]
  /\ observed' = IF observed.rejected \/ observed.stdout + observed.stderr >= QueryLimit
                 THEN [observed EXCEPT !.rejected = TRUE]
                 ELSE [observed EXCEPT ![s] = @ + 1]
  /\ UNCHANGED <<asker, queryTree, said, monitor, faults>>

HearProgress(s) ==
  /\ heard[s].post = "reading" /\ heard[s].read < said[s]
  /\ heard' = [heard EXCEPT ![s].read = @ + 1]
  /\ observed' = [observed EXCEPT !.rejected = TRUE]
  /\ UNCHANGED <<asker, queryTree, said, monitor, faults>>

HearEnd(s) ==
  /\ heard[s].post = "reading"
  /\ \/ /\ heard[s].read = said[s] /\ ~Exists(queryTree)
        /\ heard' = [heard EXCEPT ![s].post = "ended"] /\ UNCHANGED faults
     \/ /\ Fault /\ heard' = [heard EXCEPT ![s].post = "ended", ![s].failed = TRUE]
  /\ UNCHANGED <<asker, queryTree, said, monitor, observed>>

-----------------------------------------------------------------------------
(* QueryObserver::wait: a rejection comes before an outcome, and that       *)
(* before the timeout.                                                      *)
EndWait ==
  /\ Asks("waiting")
  /\ LET wait == IF observed.rejected THEN "rejected"
                 ELSE IF observed.outcome # "none" THEN "completed" ELSE "timed out" IN
     asker' = [asker EXCEPT !.wait = wait,
                 !.stage = IF wait = "completed" THEN "joining" ELSE "canceling"]
  /\ UNCHANGED <<queryTree, said, heard, monitor, observed, faults>>

(* The result of the cancellation is not looked at.                         *)
CancelQuery ==
  /\ Asks("canceling")
  /\ AskerGoes("joining")
  /\ \/ queryTree' = Terminated(queryTree, 1) /\ UNCHANGED faults
     \/ Fault /\ UNCHANGED queryTree
  /\ UNCHANGED <<said, heard, monitor, observed>>

(* The monitor is joined, the control dropped and the Job closed.           *)
AnswerQuery ==
  /\ Asks("joining") /\ monitor.stage = "ended"
  /\ asker' = [asker EXCEPT !.stage = "done",
       !.answer = IF /\ asker.wait = "completed"
                     /\ observed.outcome = "zero" /\ observed.stderr = 0
                  THEN "document" ELSE "error"]
  /\ queryTree' = Closed(queryTree)
  /\ UNCHANGED <<said, heard, monitor, observed, faults>>

-----------------------------------------------------------------------------
Say(s) ==
  /\ Runs(queryTree) /\ said[s] < MaxSaid
  /\ said' = [said EXCEPT ![s] = @ + 1]
  /\ UNCHANGED <<asker, queryTree, heard, monitor, observed, faults>>

LiveOn ==
  /\ queryTree' \in Lives(queryTree)
  /\ UNCHANGED <<asker, said, heard, monitor, observed, faults>>

QueryNext ==
  \/ CreateLauncher \/ AssignLauncher \/ AbandonStart \/ StartMonitor
  \/ AwaitLauncher \/ TerminateRemaining \/ ReportOutcome
  \/ EndWait \/ CancelQuery \/ AnswerQuery \/ LiveOn
  \/ \E s \in Streams : StartReader(s) \/ HearOutput(s) \/ HearProgress(s) \/ HearEnd(s) \/ Say(s)

QuerySpec == QueryInit /\ [][QueryNext]_queryVars

-----------------------------------------------------------------------------
(* A facet query that answers with a document has it whole: all that was     *)
(* written was output, heard in full, by a Launcher that ended with zero on  *)
(* its own; and whatever it answers, nothing that it started still runs.     *)
AnswerIsWhole ==
  asker.stage = "done" =>
    /\ ~Runs(queryTree)
    /\ asker.answer = "document" =>
         /\ observed.stdout = said["stdout"] /\ said["stderr"] = 0
         /\ queryTree.root = "exited" /\ queryTree.code = 0 /\ ~queryTree.killed
=============================================================================
