-------------------------- MODULE CommandExecution --------------------------
(***************************************************************************)
(* One command run from the console (command/execute.rs, guard.rs,         *)
(* process.rs, process/journaled.rs and console_cancel.rs): the guards and *)
(* the command itself run one after the other, each in a Job Object of its *)
(* own; two readers copy what it writes to the run journal and to the      *)
(* console; the user may press Ctrl-C at any time.                         *)
(***************************************************************************)
EXTENDS ProcessTree, Sequences

CONSTANTS MaxWrites,       \* bound on the chunks written to each stream
          MaxBreakdowns    \* bound on failed calls

ASSUME ExecutionAssumption == MaxWrites \in Nat /\ MaxBreakdowns \in Nat

VARIABLES
  cli,         \* the thread that executes the command
  tree,        \* the processes of the phase under way
  written,     \* how many chunks the processes have written to each stream
  reader,      \* the thread that reads each stream
  recorded,    \* how many chunks of each stream the journal holds
  ending,      \* the status of the journal
  requested, terminationFailed,   \* REQUESTED and TERMINATION_FAILED
  breakdowns

executionVars == <<cli, tree, written, reader, recorded, ending, requested, terminationFailed,
                   breakdowns>>

-----------------------------------------------------------------------------
Guards == {<<>>, <<"global">>, <<"command">>, <<"global", "command">>}

Results == {"none", "zero", "nonzero", "error"}

Stages == {"resolving", "starting journal", "planning", "preparing", "starting", "watching stdout",
           "watching stderr", "waiting", "stopping", "canceling", "joining stdout", "joining stderr",
           "leaving", "deciding", "ending", "done", "dead"}

ExecutionTypeOK ==
  /\ cli \in [stage : Stages, phases : {Append(g, "run") : g \in Guards} \cup Guards,
              result : Results, end : {"none", "exited", "canceled", "failed"}]
  /\ tree \in Trees
  /\ written \in [Streams -> 0 .. MaxWrites]
  /\ reader \in [Streams -> [post : {"none", "reading", "ended"}, read : 0 .. MaxWrites,
                             journaling : BOOLEAN, failed : BOOLEAN]]
  /\ recorded \in [Streams -> 0 .. MaxWrites]
  /\ ending \in {"none", "running", "exited", "canceled", "failed"}
  /\ requested \in BOOLEAN /\ terminationFailed \in BOOLEAN
  /\ breakdowns \in 0 .. MaxBreakdowns

NoReader == [post |-> "none", read |-> 0, journaling |-> TRUE, failed |-> FALSE]

ExecutionInit ==
  /\ cli = [stage |-> "resolving", phases |-> <<>>, result |-> "none", end |-> "none"]
  /\ tree = NoProcess
  /\ written = [s \in Streams |-> 0]
  /\ reader = [s \in Streams |-> NoReader]
  /\ recorded = [s \in Streams |-> 0]
  /\ ending = "none"
  /\ requested = FALSE /\ terminationFailed = FALSE /\ breakdowns = 0

-----------------------------------------------------------------------------
At(stage)      == cli.stage = stage
Goes(stage)    == cli' = [cli EXCEPT !.stage = stage]
Breakdown      == breakdowns < MaxBreakdowns /\ breakdowns' = breakdowns + 1
ResultOf(code) == IF code = 0 THEN "zero" ELSE "nonzero"

(* What ? makes of an error, once the readers that run have been joined.    *)
Errs(stage) == cli' = [cli EXCEPT !.stage = stage, !.result = "error"]

-----------------------------------------------------------------------------
(* preflight and Invocation::resolve: what they refuse is never journaled.  *)
Resolve ==
  /\ At("resolving")
  /\ Goes("starting journal") \/ Errs("done")
  /\ UNCHANGED <<tree, written, reader, recorded, ending, requested, terminationFailed, breakdowns>>

StartJournal ==
  /\ At("starting journal")
  /\ \/ Goes("planning") /\ ending' = "running" /\ UNCHANGED breakdowns
     \/ Errs("done") /\ Breakdown /\ UNCHANGED ending
  /\ UNCHANGED <<tree, written, reader, recorded, requested, terminationFailed>>

(* execute_invocation finds the guards again: they may have changed.        *)
Plan ==
  /\ At("planning")
  /\ \/ \E guards \in Guards :
          cli' = [cli EXCEPT !.stage = "preparing", !.phases = Append(guards, "run")]
     \/ Errs("deciding")
  /\ UNCHANGED <<tree, written, reader, recorded, ending, requested, terminationFailed, breakdowns>>

(* The environment, the adapter, and the process, which is created          *)
(* suspended.  The adapter of the command itself is resolved only now.      *)
Prepare ==
  /\ At("preparing")
  /\ \/ Goes("starting") /\ tree' = Suspended
     \/ Errs("deciding") /\ UNCHANGED tree
  /\ reader' = [s \in Streams |-> [NoReader EXCEPT !.read = written[s]]]
  /\ UNCHANGED <<written, recorded, ending, requested, terminationFailed, breakdowns>>

(* assign_and_resume.  A process that could not be assigned or resumed is   *)
(* killed, which may fail as well; the Job is closed on the way out.        *)
AssignAndResume ==
  /\ At("starting")
  /\ \/ Goes("watching stdout") /\ tree' = Resumed(tree) /\ UNCHANGED breakdowns
     \/ /\ Errs("deciding") /\ Breakdown
        /\ tree' \in {Closed(t) : t \in {KilledRoot(tree, 1), KilledRoot(Assigned(tree), 1),
                                         tree, Assigned(tree)}}
  /\ UNCHANGED <<written, reader, recorded, ending, requested, terminationFailed>>

(* spawn_reader, for stdout and then for stderr.                            *)
SpawnReader(s) ==
  /\ At(IF s = "stdout" THEN "watching stdout" ELSE "watching stderr")
  /\ \/ /\ reader' = [reader EXCEPT ![s].post = "reading"]
        /\ Goes(IF s = "stdout" THEN "watching stderr" ELSE "waiting")
        /\ UNCHANGED <<tree, breakdowns>>
     \/ /\ Breakdown /\ Errs("stopping")
        /\ tree' \in {tree, Terminated(tree, 1)}
        /\ UNCHANGED reader
  /\ UNCHANGED <<written, recorded, ending, requested, terminationFailed>>

(* stop_unmonitored_child waits for the root, and for the one reader.       *)
StopUnmonitored ==
  /\ At("stopping") /\ tree.root = "exited"
  /\ \A s \in Streams : reader[s].post # "reading"
  /\ Goes("leaving")
  /\ UNCHANGED <<tree, written, reader, recorded, ending, requested, terminationFailed, breakdowns>>

-----------------------------------------------------------------------------
(* wait_for_child_or_cancellation looks at the request before the child.    *)

NoticeRequest ==
  /\ At("waiting") /\ requested
  /\ \/ /\ tree' = Terminated(tree, 1) /\ Goes("canceling")
        /\ UNCHANGED <<terminationFailed, breakdowns>>
     \/ /\ Breakdown /\ UNCHANGED tree
        /\ IF tree.root = "exited"
           THEN /\ cli' = [cli EXCEPT !.stage = "joining stdout", !.result = ResultOf(tree.code)]
                /\ UNCHANGED terminationFailed
           ELSE Errs("joining stdout") /\ terminationFailed' = TRUE
  /\ UNCHANGED <<written, reader, recorded, ending, requested>>

AwaitCanceled ==
  /\ At("canceling") /\ tree.root = "exited"
  /\ \/ /\ cli' = [cli EXCEPT !.stage = "joining stdout", !.result = ResultOf(tree.code)]
        /\ UNCHANGED <<terminationFailed, breakdowns>>
     \/ Errs("joining stdout") /\ Breakdown /\ terminationFailed' = TRUE
  /\ UNCHANGED <<tree, written, reader, recorded, ending, requested>>

(* What the root leaves behind is terminated.                               *)
NoticeExit ==
  /\ At("waiting")
  /\ \/ /\ tree.root = "exited"
        /\ tree' = Terminated(tree, 1)
        /\ cli' = [cli EXCEPT !.stage = "joining stdout", !.result = ResultOf(tree.code)]
        /\ UNCHANGED breakdowns
     \/ Breakdown /\ Errs("joining stdout") /\ UNCHANGED tree
  /\ UNCHANGED <<written, reader, recorded, ending, requested, terminationFailed>>

JoinReader(s) ==
  /\ At(IF s = "stdout" THEN "joining stdout" ELSE "joining stderr")
  /\ reader[s].post = "ended"
  /\ Goes(IF s = "stdout" THEN "joining stderr" ELSE "leaving")
  /\ UNCHANGED <<tree, written, reader, recorded, ending, requested, terminationFailed, breakdowns>>

-----------------------------------------------------------------------------
(* read_output and render_event: a chunk is shown as the journal has        *)
(* recorded it; once the journal fails, it is shown without.                *)
ReadOutput(s) ==
  /\ reader[s].post = "reading" /\ reader[s].read < written[s]
  /\ LET chunkRead == [reader[s] EXCEPT !.read = @ + 1] IN
     \/ /\ reader' = [reader EXCEPT ![s] = chunkRead]
        /\ recorded' = [recorded EXCEPT ![s] = IF reader[s].journaling THEN @ + 1 ELSE @]
        /\ UNCHANGED breakdowns
     \/ /\ Breakdown     \* the console
        /\ reader' = [reader EXCEPT ![s] = [chunkRead EXCEPT !.failed = TRUE]]
        /\ recorded' = [recorded EXCEPT ![s] = IF reader[s].journaling THEN @ + 1 ELSE @]
     \/ /\ Breakdown     \* the journal
        /\ reader' = [reader EXCEPT ![s] = [chunkRead EXCEPT !.failed = TRUE, !.journaling = FALSE]]
        /\ UNCHANGED recorded
  /\ UNCHANGED <<cli, tree, written, ending, requested, terminationFailed>>

(* A pipe ends when no process is left that could write to it.              *)
EndOfOutput(s) ==
  /\ reader[s].post = "reading"
  /\ \/ /\ reader[s].read = written[s] /\ ~Exists(tree)
        /\ reader' = [reader EXCEPT ![s].post = "ended"] /\ UNCHANGED breakdowns
     \/ /\ Breakdown
        /\ reader' = [reader EXCEPT ![s].post = "ended", ![s].failed = TRUE]
  /\ UNCHANGED <<cli, tree, written, recorded, ending, requested, terminationFailed>>

-----------------------------------------------------------------------------
(* Mutant: what the readers met is forgotten with them. *)
LeaveAnyway ==
  /\ At("leaving")
  /\ tree' = Closed(tree)
  /\ LET rest == IF cli.phases = <<>> THEN <<>> ELSE Tail(cli.phases) IN
     cli' = [cli EXCEPT !.phases = rest,
               !.stage = IF cli.result = "zero" /\ rest # <<>> THEN "preparing" ELSE "deciding"]
  /\ UNCHANGED <<written, reader, recorded, ending, requested, terminationFailed, breakdowns>>

(* run_process_journaled returns and closes the Job.  A guard that does not *)
(* exit with zero is the end of the run.                                    *)
LeavePhase ==
  /\ At("leaving")
  /\ tree' = Closed(tree)
  /\ LET rest   == Tail(cli.phases)
         result == IF \E s \in Streams : reader[s].failed THEN "error" ELSE cli.result IN
     cli' = [cli EXCEPT !.phases = rest, !.result = result,
               !.stage = IF result = "zero" /\ rest # <<>> THEN "preparing" ELSE "deciding"]
  /\ UNCHANGED <<written, reader, recorded, ending, requested, terminationFailed, breakdowns>>

(* execute_journaled_with_cancellation decides how the run has ended ...    *)
Decide ==
  /\ At("deciding")
  /\ cli' = [cli EXCEPT !.stage = "ending",
               !.end = CASE requested /\ ~terminationFailed -> "canceled"
                         [] cli.result \in {"zero", "nonzero"} -> "exited"
                         [] OTHER -> "failed"]
  /\ UNCHANGED <<tree, written, reader, recorded, ending, requested, terminationFailed, breakdowns>>

(* ... and records it.                                                      *)
FinishJournal ==
  /\ At("ending")
  /\ Goes("done")
  /\ \/ ending' = cli.end /\ UNCHANGED breakdowns
     \/ Breakdown /\ UNCHANGED ending
  /\ UNCHANGED <<tree, written, reader, recorded, requested, terminationFailed>>

-----------------------------------------------------------------------------
(* handle_console_control only records the request.                         *)
Interrupt ==
  /\ cli.stage \notin {"done", "dead"} /\ ~requested
  /\ requested' = TRUE
  /\ UNCHANGED <<cli, tree, written, reader, recorded, ending, terminationFailed, breakdowns>>

Write(s) ==
  /\ Runs(tree) /\ written[s] < MaxWrites
  /\ written' = [written EXCEPT ![s] = @ + 1]
  /\ UNCHANGED <<cli, tree, reader, recorded, ending, requested, terminationFailed, breakdowns>>

Live ==
  /\ tree' \in Lives(tree)
  /\ UNCHANGED <<cli, written, reader, recorded, ending, requested, terminationFailed, breakdowns>>

(* Mutant: the processes inherit the handle of their Job, which stays open. *)
DiesInherited ==
  /\ cli.stage \notin {"done", "dead"} /\ Breakdown
  /\ Goes("dead")
  /\ reader' = [s \in Streams |-> NoReader]
  /\ UNCHANGED <<tree, written, recorded, ending, requested, terminationFailed>>

(* Killed, with all its threads; its handles are closed.                    *)
CliDies ==
  /\ cli.stage \notin {"done", "dead"} /\ Breakdown
  /\ Goes("dead")
  /\ tree' = Closed(tree)
  /\ reader' = [s \in Streams |-> NoReader]
  /\ UNCHANGED <<written, recorded, ending, requested, terminationFailed>>

ExecutionNext ==
  \/ Resolve \/ StartJournal \/ Plan \/ Prepare \/ AssignAndResume \/ StopUnmonitored
  \/ NoticeRequest \/ AwaitCanceled \/ NoticeExit
  \/ \E s \in Streams : SpawnReader(s) \/ JoinReader(s) \/ ReadOutput(s) \/ EndOfOutput(s) \/ Write(s)
  \/ LeavePhase \/ Decide \/ FinishJournal
  \/ Interrupt \/ Live \/ CliDies

ExecutionSpec == ExecutionInit /\ [][ExecutionNext]_executionVars

-----------------------------------------------------------------------------
(* A process of the run is running only while the run watches it: from       *)
(* assign_and_resume until its Job is closed.  So no process is left when    *)
(* the next phase starts, when the journal says that the run has ended, or   *)
(* when the console process has been killed.                                 *)
RunOwnsItsProcesses ==
  Runs(tree) => cli.stage \in {"watching stdout", "watching stderr", "waiting", "stopping",
                               "canceling", "joining stdout", "joining stderr", "leaving"}

(* A journal that says how the command exited holds everything its phases    *)
(* have written: what a reader failed to record makes the run failed.        *)
ExitedIsWhole == ending = "exited" => recorded = written
=============================================================================
