-------------------------- MODULE ExecutionProofs --------------------------
(***************************************************************************)
(* What holds of a command run from the console and of a facet query for    *)
(* any number of chunks written and of failed calls, and of the saved       *)
(* contexts for any number of consoles, contexts and notes.                 *)
(*                                                                         *)
(* Execution and query rest on the same two facts.  A process runs only in  *)
(* a Job that its owner holds (Owned), so closing the Job leaves none; and  *)
(* a pipe that a reader has seen the end of has no writer left (Heard), so  *)
(* what was read by then is all that will ever be written.                  *)
(*                                                                         *)
(* A command between its look at a context and the end of its publication   *)
(* holds the lock of the DataRoot (Locked); so what it looked at is still   *)
(* there when it publishes (Drafted).                                       *)
(***************************************************************************)
EXTENDS CommandExecution, FacetQuery, ContextStore, SequenceTheorems, TLAPS

-----------------------------------------------------------------------------
(* ProcessTree *)

(* A tree that is owned has no process left once its Job is terminated; no   *)
(* termination starts one.                                                   *)
LEMMA TerminatedTree ==
  ASSUME NEW t \in Trees, NEW code \in {0, 1}
  PROVE  /\ Terminated(t, code) \in Trees /\ Terminated(t, code).owned = t.owned
         /\ t.owned => ~Exists(Terminated(t, code))
         /\ Exists(Terminated(t, code)) => Exists(t)
         /\ Runs(Terminated(t, code)) => Runs(t)
         /\ t.root = "exited" => /\ Terminated(t, code).root = "exited"
                                 /\ Terminated(t, code).code = t.code
                                 /\ Terminated(t, code).killed = t.killed
         /\ t.root # "exited" /\ Terminated(t, code).killed => Terminated(t, code).code = code \/ t.killed
         /\ Terminated(t, code).killed /\ ~t.killed => Terminated(t, code).code = code
         /\ Terminated(t, code).root = "none" => t.root = "none"
BY DEF Terminated, KilledRoot, Trees, Exists, Runs

(* So it is when the Job is closed, as it is when its holder ends.           *)
LEMMA ClosedTree ==
  ASSUME NEW t \in Trees
  PROVE  /\ Closed(t) \in Trees
         /\ t.owned => ~Exists(Closed(t))
         /\ Exists(Closed(t)) => Exists(t)
         /\ Runs(Closed(t)) => Runs(t)
         /\ t.root = "exited" => /\ Closed(t).root = "exited"
                                 /\ Closed(t).code = t.code
                                 /\ Closed(t).killed = t.killed
         /\ Closed(t).killed /\ ~t.killed => Closed(t).code = 1
<1> DEFINE u == Terminated(t, 1)
<1>1. /\ u \in Trees /\ (t.owned => ~Exists(u)) /\ (Exists(u) => Exists(t)) /\ (Runs(u) => Runs(t))
      /\ t.root = "exited" => u.root = "exited" /\ u.code = t.code /\ u.killed = t.killed
      /\ u.killed /\ ~t.killed => u.code = 1
  BY TerminatedTree
<1>2. Closed(t) = [u EXCEPT !.owned = FALSE]
  BY DEF Closed
<1> HIDE DEF u
<1> QED
  BY <1>1, <1>2 DEF Trees, Exists, Runs

(* Killing the root alone leaves what it started, and the Job, as they are.  *)
LEMMA KilledTree ==
  ASSUME NEW t \in Trees, NEW code \in {0, 1}
  PROVE  /\ KilledRoot(t, code) \in Trees /\ KilledRoot(t, code).owned = t.owned
         /\ Exists(KilledRoot(t, code)) => Exists(t)
         /\ Runs(KilledRoot(t, code)) => Runs(t)
         /\ KilledRoot(t, code).killed /\ ~t.killed => KilledRoot(t, code).code = code
         /\ t.root = "exited" => KilledRoot(t, code) = t
BY DEF KilledRoot, Trees, Exists, Runs

(* Assigning a suspended root to the Job starts nothing, resuming it does.   *)
LEMMA AssignedTree ==
  ASSUME NEW t \in Trees
  PROVE  /\ Assigned(t) \in Trees /\ Assigned(t).owned /\ Assigned(t).killed = t.killed
         /\ (Runs(Assigned(t)) <=> Runs(t))
         /\ Resumed(t) \in Trees /\ Resumed(t).owned /\ Resumed(t).killed = t.killed
         /\ Resumed(t).code = t.code
BY DEF Assigned, Resumed, Trees, Runs

(* What processes do on their own starts none in a tree that runs none, and  *)
(* does not change how a root has ended.                                     *)
LEMMA LivesTree ==
  ASSUME NEW t \in Trees, NEW u \in Lives(t)
  PROVE  /\ u \in Trees /\ u.owned = t.owned /\ (Runs(u) => Runs(t)) /\ (Exists(u) => Exists(t))
         /\ u.killed = t.killed
         /\ t.root = "exited" => u.root = "exited" /\ u.code = t.code
         /\ u.code # t.code => t.root = "running"
<1>1. ASSUME NEW code \in {0, 1}, t.root = "running", u = [t EXCEPT !.root = "exited", !.code = code]
      PROVE  /\ u \in Trees /\ u.owned = t.owned /\ u.killed = t.killed /\ u.helper = t.helper
             /\ u.root = "exited"
  BY <1>1 DEF Trees
<1>2. ASSUME NEW h \in BOOLEAN, IF h THEN t.root = "running" ELSE t.helper, u = [t EXCEPT !.helper = h]
      PROVE  /\ u \in Trees /\ u.owned = t.owned /\ u.killed = t.killed /\ u.root = t.root
             /\ u.code = t.code /\ (u.helper => t.helper \/ t.root = "running")
  BY <1>2 DEF Trees
<1>3. \/ \E code \in {0, 1} : t.root = "running" /\ u = [t EXCEPT !.root = "exited", !.code = code]
      \/ \E h \in BOOLEAN : (IF h THEN t.root = "running" ELSE t.helper) /\ u = [t EXCEPT !.helper = h]
  BY DEF Lives
<1> QED
  BY <1>1, <1>2, <1>3 DEF Runs, Exists

(* There is no process at first, and a suspended one does not run.           *)
LEMMA FirstTrees ==
  /\ NoProcess \in Trees /\ ~Exists(NoProcess) /\ ~NoProcess.killed
  /\ Suspended \in Trees /\ ~Runs(Suspended) /\ ~Suspended.killed
BY DEF NoProcess, Suspended, Trees, Runs, Exists

-----------------------------------------------------------------------------
(* A command run from the console.                                           *)

Watched == {"watching stdout", "watching stderr", "waiting", "stopping",
            "canceling", "joining stdout", "joining stderr", "leaving"}

Phased == Watched \cup {"preparing", "starting"}

OutputReaders == [post : {"none", "reading", "ended"}, read : Nat, journaling : BOOLEAN, failed : BOOLEAN]
Clis == [stage : Stages, phases : Seq({"global", "command", "run"}), result : Results,
         end : {"none", "exited", "canceled", "failed"}]

ExecutionTyped ==
  /\ cli \in Clis /\ tree \in Trees
  /\ written \in [Streams -> Nat] /\ recorded \in [Streams -> Nat]
  /\ reader \in [Streams -> OutputReaders]
  /\ cli.stage \in Phased => cli.phases # <<>>

Owned ==
  /\ cli.stage \in Watched => tree.owned
  /\ cli.stage \notin Watched => ~Runs(tree)
  /\ \A s \in Streams : reader[s].post = "reading" => cli.stage \in Watched \ {"leaving"}

(* Before the first phase nothing is known, and nothing is written.          *)
Fresh ==
  cli.stage \in {"resolving", "starting journal", "planning"} =>
    /\ cli.result = "none" /\ cli.end = "none"
    /\ \A s \in Streams : reader[s] = NoReader /\ written[s] = 0 /\ recorded[s] = 0

(* What a reader that met no failure has read is recorded, and what it has   *)
(* read is all there is once it has ended.                                   *)
HeardBy(s) ==
  /\ reader[s].read <= written[s]
  /\ ~reader[s].journaling => reader[s].failed
  /\ cli.stage = "starting" => reader[s].post = "none"
  /\ cli.stage \in Phased /\ ~reader[s].failed => recorded[s] = reader[s].read
  /\ cli.stage \in Watched /\ reader[s].post = "ended" /\ ~reader[s].failed =>
       ~Exists(tree) /\ reader[s].read = written[s]

Heard == \A s \in Streams : HeardBy(s)

Joined ==
  /\ cli.stage = "joining stderr" => reader["stdout"].post = "ended"
  /\ cli.stage = "stopping" => cli.result = "error"
  /\ cli.stage = "leaving" => cli.result = "error" \/ \A s \in Streams : reader[s].post = "ended"

Ended ==
  /\ cli.stage \in {"preparing", "starting"} => recorded = written
  /\ cli.stage = "deciding" /\ cli.result \in {"zero", "nonzero"} => recorded = written
  /\ cli.stage \in {"ending", "done"} /\ cli.end = "exited" => recorded = written
  /\ ending = "exited" => cli.stage = "done" /\ cli.end = "exited"

ExecutionInv == ExecutionTyped /\ Owned /\ Fresh /\ Heard /\ Joined /\ Ended

(* The thread goes on to a stage, with what it knows or with a result.       *)
LEMMA CliGoes ==
  ASSUME cli \in Clis, NEW stage \in Stages, Goes(stage)
  PROVE  cli' \in Clis /\ cli'.stage = stage /\ cli'.phases = cli.phases /\ cli'.result = cli.result
         /\ cli'.end = cli.end
BY DEF Clis, Goes

(* It goes on with a result ...                                              *)
LEMMA CliResults ==
  ASSUME cli \in Clis, NEW stage \in Stages, NEW result \in Results,
         cli' = [cli EXCEPT !.stage = stage, !.result = result]
  PROVE  cli' \in Clis /\ cli'.stage = stage /\ cli'.phases = cli.phases /\ cli'.result = result
BY DEF Clis

(* ... which may be an error.                                                *)
LEMMA CliErrs ==
  ASSUME cli \in Clis, NEW stage \in Stages, Errs(stage)
  PROVE  cli' \in Clis /\ cli'.stage = stage /\ cli'.phases = cli.phases /\ cli'.result = "error"
<1>1. "error" \in Results
  BY DEF Results
<1> QED
  BY <1>1, CliResults DEF Errs

(* What is counted is a number.                                              *)
LEMMA Counts ==
  ASSUME ExecutionTyped, NEW s \in Streams
  PROVE  /\ written[s] \in Nat /\ recorded[s] \in Nat /\ reader[s].read \in Nat
         /\ 0 <= written[s] /\ written[s] <= written[s]
<1>1. written[s] \in Nat /\ recorded[s] \in Nat /\ reader[s].read \in Nat
  BY DEF ExecutionTyped, OutputReaders
<1> QED
  BY <1>1

(* What is recorded of each stream is recorded of both.                      *)
LEMMA AllRecorded ==
  ASSUME ExecutionTyped, \A s \in Streams : recorded[s] = written[s]
  PROVE  recorded = written
BY DEF ExecutionTyped

(* The names of the stages and of the results.                               *)
LEMMA Named ==
  /\ Stages = {"resolving", "starting journal", "planning", "preparing", "starting", "watching stdout",
               "watching stderr", "waiting", "stopping", "canceling", "joining stdout", "joining stderr",
               "leaving", "deciding", "ending", "done", "dead"}
  /\ Results = {"none", "zero", "nonzero", "error"}
BY DEF Stages, Results

(* Before the phases the run goes on with nothing known, or is refused.      *)
LEMMA FirstEffect ==
  ASSUME ExecutionTyped, Resolve \/ StartJournal
  PROVE  /\ cli' \in Clis /\ cli.stage \in {"resolving", "starting journal"} /\ cli'.phases = cli.phases
         /\ \/ cli'.stage \in {"starting journal", "planning"} /\ cli'.result = cli.result
            \/ cli'.stage = "done" /\ cli'.result = "error"
         /\ UNCHANGED <<tree, written, reader, recorded>>
<1>1. /\ cli \in Clis /\ "starting journal" \in Stages /\ "planning" \in Stages /\ "done" \in Stages
  BY Named DEF ExecutionTyped
<1>2. /\ cli.stage \in {"resolving", "starting journal"}
      /\ Goes("starting journal") \/ Goes("planning") \/ Errs("done")
      /\ UNCHANGED <<tree, written, reader, recorded>>
  BY DEF Resolve, StartJournal, At
<1>3. CASE Goes("starting journal")
  BY <1>1, <1>2, <1>3, CliGoes
<1>4. CASE Goes("planning")
  BY <1>1, <1>2, <1>4, CliGoes
<1>5. CASE Errs("done")
  BY <1>1, <1>2, <1>5, CliErrs
<1> QED
  BY <1>2, <1>3, <1>4, <1>5

(* The phases are known, and there is at least the command itself, or the    *)
(* run has failed.                                                           *)
LEMMA PlanEffect ==
  ASSUME ExecutionTyped, Plan
  PROVE  /\ cli' \in Clis /\ cli.stage = "planning"
         /\ \/ cli'.stage = "preparing" /\ cli'.phases # <<>> /\ cli'.result = cli.result
            \/ cli'.stage = "deciding" /\ cli'.result = "error"
         /\ UNCHANGED <<tree, written, reader, recorded, ending>>
<1>1. CASE Errs("deciding")
  <2>1. "deciding" \in Stages /\ "error" \in Results /\ cli \in Clis
    BY Named DEF ExecutionTyped
  <2> QED
    BY <1>1, <2>1, CliErrs DEF Plan, At
<1>2. ASSUME NEW guards \in Guards,
             cli' = [cli EXCEPT !.stage = "preparing", !.phases = Append(guards, "run")]
      PROVE  cli' \in Clis /\ cli'.stage = "preparing" /\ cli'.phases # <<>> /\ cli'.result = cli.result
  <2>1. guards \in Seq({"global", "command", "run"})
    <3>1. guards \in {<<>>, <<"global">>, <<"command">>, <<"global", "command">>}
      BY DEF Guards
    <3> DEFINE P == {"global", "command", "run"}
    <3>2. "global" \in P /\ "command" \in P
      OBVIOUS
    <3> HIDE DEF P
    <3>3. <<>> \in Seq(P) /\ <<"global">> \in Seq(P) /\ <<"command">> \in Seq(P)
      BY <3>2
    <3>4. <<"global", "command">> \in Seq(P)
      BY <3>2
    <3> QED
      BY <3>1, <3>3, <3>4 DEF P
  <2>2. /\ Append(guards, "run") \in Seq({"global", "command", "run"})
        /\ Append(guards, "run") # <<>>
    BY <2>1, AppendProperties
  <2>3. cli \in Clis /\ "preparing" \in Stages
    BY Named DEF ExecutionTyped
  <2> QED
    BY <1>2, <2>2, <2>3 DEF Clis
<1> QED
  BY <1>1, <1>2 DEF Plan, At

(* The process runs in its Job, or none runs (assign_and_resume).            *)
LEMMA AssignEffect ==
  ASSUME ExecutionTyped, ~Runs(tree), AssignAndResume
  PROVE  /\ cli' \in Clis /\ tree' \in Trees /\ cli.stage = "starting" /\ cli'.phases = cli.phases
         /\ \/ cli'.stage = "watching stdout" /\ cli'.result = cli.result /\ tree'.owned
            \/ cli'.stage = "deciding" /\ cli'.result = "error" /\ ~Runs(tree')
         /\ UNCHANGED <<written, reader, recorded, ending>>
<1>1. /\ cli \in Clis /\ tree \in Trees /\ "watching stdout" \in Stages /\ "deciding" \in Stages
      /\ "error" \in Results
  BY Named DEF ExecutionTyped
<1>2. CASE Goes("watching stdout") /\ tree' = Resumed(tree)
  <2>1. cli' \in Clis /\ cli'.stage = "watching stdout" /\ cli'.phases = cli.phases
        /\ cli'.result = cli.result
    BY <1>1, <1>2, CliGoes
  <2>2. tree' \in Trees /\ tree'.owned
    BY <1>1, <1>2, AssignedTree
  <2> QED
    BY <2>1, <2>2 DEF AssignAndResume, At
<1>3. CASE /\ Errs("deciding")
           /\ tree' \in {Closed(t) : t \in {KilledRoot(tree, 1), KilledRoot(Assigned(tree), 1),
                                            tree, Assigned(tree)}}
  <2>1. PICK t \in {KilledRoot(tree, 1), KilledRoot(Assigned(tree), 1), tree, Assigned(tree)} :
          tree' = Closed(t)
    BY <1>3
  <2>2. t \in Trees /\ ~Runs(t)
    <3>1. Assigned(tree) \in Trees /\ ~Runs(Assigned(tree))
      BY <1>1, AssignedTree
    <3>2. KilledRoot(tree, 1) \in Trees /\ ~Runs(KilledRoot(tree, 1))
      BY <1>1, KilledTree
    <3>3. KilledRoot(Assigned(tree), 1) \in Trees /\ ~Runs(KilledRoot(Assigned(tree), 1))
      BY <3>1, KilledTree
    <3> QED
      BY <1>1, <2>1, <3>1, <3>2, <3>3
  <2>3. tree' \in Trees /\ ~Runs(tree')
    BY <2>1, <2>2, ClosedTree
  <2> QED
    <3>1. cli' \in Clis /\ cli'.stage = "deciding" /\ cli'.phases = cli.phases /\ cli'.result = "error"
      BY <1>1, <1>3, CliErrs
    <3> QED
      BY <2>3, <3>1 DEF AssignAndResume, At
<1> QED
  BY <1>2, <1>3 DEF AssignAndResume

(* A reader is started, or the phase is abandoned with an error              *)
(* (spawn_reader).                                                           *)
LEMMA SpawnEffect ==
  ASSUME ExecutionTyped, NEW s \in Streams, SpawnReader(s)
  PROVE  /\ cli' \in Clis /\ tree' \in Trees /\ cli'.phases = cli.phases /\ tree'.owned = tree.owned
         /\ cli.stage = IF s = "stdout" THEN "watching stdout" ELSE "watching stderr"
         /\ reader' \in [Streams -> OutputReaders]
         /\ \/ /\ cli'.stage \in {"watching stderr", "waiting"} /\ cli'.result = cli.result
               /\ tree' = tree /\ reader'[s].post = "reading"
            \/ cli'.stage = "stopping" /\ cli'.result = "error" /\ reader' = reader
         /\ \A q \in Streams : /\ reader'[q].read = reader[q].read
                               /\ reader'[q].journaling = reader[q].journaling
                               /\ reader'[q].failed = reader[q].failed
                               /\ reader'[q].post = reader[q].post \/ reader'[q].post = "reading"
         /\ Exists(tree') => Exists(tree)
         /\ UNCHANGED <<written, recorded, ending>>
<1>1. /\ cli \in Clis /\ tree \in Trees /\ "watching stderr" \in Stages /\ "waiting" \in Stages
      /\ "stopping" \in Stages /\ "error" \in Results /\ reader \in [Streams -> OutputReaders]
  BY Named DEF ExecutionTyped
<1>2. CASE /\ reader' = [reader EXCEPT ![s].post = "reading"]
           /\ Goes(IF s = "stdout" THEN "watching stderr" ELSE "waiting")
           /\ UNCHANGED <<tree, breakdowns>>
  <2>1. PICK stage \in {"watching stderr", "waiting"} : Goes(stage)
    BY <1>2
  <2>2. cli' \in Clis /\ cli'.phases = cli.phases /\ cli'.stage = stage /\ cli'.result = cli.result
    BY <1>1, <2>1, CliGoes
  <2>3. /\ reader' \in [Streams -> OutputReaders] /\ reader'[s].post = "reading"
        /\ \A q \in Streams : /\ reader'[q].read = reader[q].read
                              /\ reader'[q].journaling = reader[q].journaling
                              /\ reader'[q].failed = reader[q].failed
                              /\ reader'[q].post = reader[q].post \/ reader'[q].post = "reading"
    BY <1>1, <1>2 DEF OutputReaders
  <2> QED
    BY <1>1, <1>2, <2>1, <2>2, <2>3 DEF SpawnReader, At
<1>3. CASE Errs("stopping") /\ tree' \in {tree, Terminated(tree, 1)} /\ UNCHANGED reader
  <2>1. tree' \in Trees /\ tree'.owned = tree.owned /\ (Exists(tree') => Exists(tree))
    <3>1. /\ Terminated(tree, 1) \in Trees /\ Terminated(tree, 1).owned = tree.owned
          /\ Exists(Terminated(tree, 1)) => Exists(tree)
      BY <1>1, TerminatedTree
    <3> QED
      BY <1>1, <1>3, <3>1
  <2>2. cli' \in Clis /\ cli'.phases = cli.phases /\ cli'.stage = "stopping" /\ cli'.result = "error"
    BY <1>1, <1>3, CliErrs
  <2> QED
    BY <1>1, <1>3, <2>1, <2>2 DEF SpawnReader, At
<1> QED
  BY <1>2, <1>3 DEF SpawnReader

(* The wait for the root ends, or its Job is terminated and it goes on.      *)
LEMMA RequestEffect ==
  ASSUME ExecutionTyped, NoticeRequest \/ NoticeExit \/ AwaitCanceled
  PROVE  /\ cli' \in Clis /\ tree' \in Trees /\ cli'.phases = cli.phases /\ tree'.owned = tree.owned
         /\ cli.stage \in {"waiting", "canceling"} /\ cli'.stage \in {"canceling", "joining stdout"}
         /\ Exists(tree') => Exists(tree)
         /\ UNCHANGED <<written, reader, recorded, ending>>
<1>1. /\ cli \in Clis /\ tree \in Trees /\ "canceling" \in Stages /\ "joining stdout" \in Stages
      /\ Results = {"none", "zero", "nonzero", "error"}
  BY Named DEF ExecutionTyped
<1>2. /\ cli.stage \in {"waiting", "canceling"} /\ UNCHANGED <<written, reader, recorded, ending>>
      /\ tree' = tree \/ tree' = Terminated(tree, 1)
  BY DEF NoticeRequest, NoticeExit, AwaitCanceled, At
<1>3. tree' \in Trees /\ tree'.owned = tree.owned /\ (Exists(tree') => Exists(tree))
  <2>1. /\ Terminated(tree, 1) \in Trees /\ Terminated(tree, 1).owned = tree.owned
        /\ Exists(Terminated(tree, 1)) => Exists(tree)
    BY <1>1, TerminatedTree
  <2> QED
    BY <1>1, <1>2, <2>1
<1>4. \/ Goes("canceling")
      \/ \E result \in {"zero", "nonzero", "error"} :
           cli' = [cli EXCEPT !.stage = "joining stdout", !.result = result]
  BY Zenon DEF NoticeRequest, NoticeExit, AwaitCanceled, Errs, ResultOf
<1>5. cli' \in Clis /\ cli'.phases = cli.phases /\ cli'.stage \in {"canceling", "joining stdout"}
  <2>1. CASE Goes("canceling")
    BY <1>1, <2>1, CliGoes
  <2>2. ASSUME NEW result \in {"zero", "nonzero", "error"},
               cli' = [cli EXCEPT !.stage = "joining stdout", !.result = result]
        PROVE  cli' \in Clis /\ cli'.phases = cli.phases /\ cli'.stage = "joining stdout"
    BY <1>1, <2>2, CliResults
  <2> QED
    BY <1>4, <2>1, <2>2
<1> QED
  BY <1>2, <1>3, <1>5

(* Joining a reader tells that it has ended, and changes nothing else.       *)
LEMMA JoinEffect ==
  ASSUME ExecutionTyped, NEW s \in Streams, JoinReader(s)
  PROVE  /\ cli' \in Clis /\ cli'.phases = cli.phases /\ cli'.result = cli.result
         /\ \/ s = "stdout" /\ cli.stage = "joining stdout" /\ cli'.stage = "joining stderr"
            \/ s = "stderr" /\ cli.stage = "joining stderr" /\ cli'.stage = "leaving"
         /\ reader[s].post = "ended" /\ UNCHANGED <<tree, written, reader, recorded, ending>>
<1>1. cli \in Clis /\ "joining stderr" \in Stages /\ "leaving" \in Stages
  BY Named DEF ExecutionTyped
<1>2. CASE s = "stdout"
  <2>1. Goes("joining stderr")
    BY <1>2 DEF JoinReader
  <2> QED
    BY <1>1, <1>2, <2>1, CliGoes DEF JoinReader, At
<1>3. CASE s = "stderr"
  <2>1. Goes("leaving")
    BY <1>3 DEF JoinReader
  <2> QED
    BY <1>1, <1>3, <2>1, CliGoes DEF JoinReader, At
<1> QED
  BY <1>2, <1>3 DEF Streams

(* A chunk that was read is recorded, or the reader has met a failure.       *)
LEMMA ReadEffect ==
  ASSUME ExecutionTyped, NEW s \in Streams, ReadOutput(s), reader[s].read <= written[s]
  PROVE  /\ reader' \in [Streams -> OutputReaders] /\ recorded' \in [Streams -> Nat]
         /\ reader[s].post = "reading" /\ reader'[s].post = "reading" /\ reader'[s].read <= written[s]
         /\ ~reader'[s].journaling => ~reader[s].journaling \/ reader'[s].failed
         /\ reader[s].failed => reader'[s].failed
         /\ ~reader'[s].failed =>
              reader'[s].read = reader[s].read + 1 /\ (reader[s].journaling => recorded'[s] = recorded[s] + 1)
         /\ \A q \in Streams \ {s} : reader'[q] = reader[q] /\ recorded'[q] = recorded[q]
         /\ UNCHANGED <<cli, tree, written, ending>>
<1>1. /\ reader \in [Streams -> OutputReaders] /\ recorded \in [Streams -> Nat]
      /\ written \in [Streams -> Nat]
  BY DEF ExecutionTyped
<1>2. /\ reader[s] \in OutputReaders /\ reader[s].read \in Nat /\ recorded[s] \in Nat /\ written[s] \in Nat
      /\ reader[s].post = "reading" /\ reader[s].read < written[s]
      /\ reader[s].read + 1 \in Nat /\ recorded[s] + 1 \in Nat
  BY <1>1 DEF ReadOutput, OutputReaders
<1>3. reader[s].read + 1 <= written[s]
  BY <1>2
<1> DEFINE more == [reader[s] EXCEPT !.read = reader[s].read + 1]
<1>4. /\ more \in OutputReaders /\ more.post = "reading" /\ more.read = reader[s].read + 1
      /\ more.journaling = reader[s].journaling /\ more.failed = reader[s].failed
  BY <1>2 DEF OutputReaders
<1>5. \E new \in {more, [more EXCEPT !.failed = TRUE], [more EXCEPT !.failed = TRUE, !.journaling = FALSE]} :
        /\ reader' = [reader EXCEPT ![s] = new]
        /\ new = more \/ new.failed
        /\ \/ recorded' = [recorded EXCEPT ![s] = IF reader[s].journaling THEN recorded[s] + 1 ELSE recorded[s]]
           \/ new.failed /\ recorded' = recorded
  BY <1>4 DEF ReadOutput, OutputReaders
<1> HIDE DEF more
<1>6. PICK new \in {more, [more EXCEPT !.failed = TRUE], [more EXCEPT !.failed = TRUE, !.journaling = FALSE]} :
        /\ reader' = [reader EXCEPT ![s] = new]
        /\ new = more \/ new.failed
        /\ \/ recorded' = [recorded EXCEPT ![s] = IF reader[s].journaling THEN recorded[s] + 1 ELSE recorded[s]]
           \/ new.failed /\ recorded' = recorded
  BY <1>5
<1>7. /\ new \in OutputReaders /\ new.post = "reading" /\ new.read = reader[s].read + 1
      /\ ~new.journaling => ~reader[s].journaling \/ new.failed
      /\ reader[s].failed => new.failed
  BY <1>4, <1>6 DEF OutputReaders
<1>8. /\ reader' \in [Streams -> OutputReaders] /\ reader'[s] = new
      /\ \A q \in Streams \ {s} : reader'[q] = reader[q]
  BY <1>1, <1>6, <1>7
<1>9. /\ recorded' \in [Streams -> Nat] /\ \A q \in Streams \ {s} : recorded'[q] = recorded[q]
      /\ ~new.failed /\ reader[s].journaling => recorded'[s] = recorded[s] + 1
  BY <1>1, <1>2, <1>6
<1>10. UNCHANGED <<cli, tree, written, ending>>
  BY DEF ReadOutput
<1> QED
  BY <1>2, <1>3, <1>7, <1>8, <1>9, <1>10

(* A reader ends when nothing is left to write to its pipe, or with a        *)
(* failure.                                                                  *)
LEMMA EndEffect ==
  ASSUME ExecutionTyped, NEW s \in Streams, EndOfOutput(s)
  PROVE  /\ reader' \in [Streams -> OutputReaders]
         /\ reader[s].post = "reading" /\ reader'[s].post = "ended"
         /\ reader'[s].read = reader[s].read /\ reader'[s].journaling = reader[s].journaling
         /\ \/ reader[s].read = written[s] /\ ~Exists(tree) /\ reader'[s].failed = reader[s].failed
            \/ reader'[s].failed
         /\ \A q \in Streams \ {s} : reader'[q] = reader[q]
         /\ UNCHANGED <<cli, tree, written, recorded, ending>>
<1>1. reader \in [Streams -> OutputReaders] /\ reader[s] \in OutputReaders /\ reader[s].post = "reading"
  BY DEF ExecutionTyped, EndOfOutput
<1>2. PICK failed \in {reader[s].failed, TRUE} :
        /\ reader' = [reader EXCEPT ![s] = [reader[s] EXCEPT !.post = "ended", !.failed = failed]]
        /\ (reader[s].read = written[s] /\ ~Exists(tree) /\ failed = reader[s].failed) \/ failed = TRUE
  <2>1. CASE reader[s].read = written[s] /\ ~Exists(tree) /\ reader' = [reader EXCEPT ![s].post = "ended"]
    <3>1. [reader[s] EXCEPT !.post = "ended"] = [reader[s] EXCEPT !.post = "ended", !.failed = reader[s].failed]
      BY <1>1 DEF OutputReaders
    <3>2. reader' = [reader EXCEPT ![s] = [reader[s] EXCEPT !.post = "ended"]]
      BY <2>1
    <3> QED
      BY <2>1, <3>1, <3>2
  <2>2. CASE reader' = [reader EXCEPT ![s].post = "ended", ![s].failed = TRUE]
    <3>1. reader' = [reader EXCEPT ![s] = [reader[s] EXCEPT !.post = "ended", !.failed = TRUE]]
      BY <2>2
    <3> QED
      BY <3>1
  <2> QED
    BY <2>1, <2>2 DEF EndOfOutput
<1> DEFINE new == [reader[s] EXCEPT !.post = "ended", !.failed = failed]
<1>3. /\ new \in OutputReaders /\ new.post = "ended" /\ new.read = reader[s].read
      /\ new.journaling = reader[s].journaling /\ new.failed = failed
  BY <1>1, <1>2 DEF OutputReaders
<1> HIDE DEF new
<1>4. /\ reader' \in [Streams -> OutputReaders] /\ reader'[s] = new
      /\ \A q \in Streams \ {s} : reader'[q] = reader[q]
  BY <1>1, <1>2, <1>3 DEF new
<1>5. UNCHANGED <<cli, tree, written, recorded, ending>>
  BY DEF EndOfOutput
<1> QED
  BY <1>1, <1>2, <1>3, <1>4, <1>5

(* Only a process that runs writes.                                          *)
LEMMA WriteEffect ==
  ASSUME ExecutionTyped, NEW s \in Streams, Write(s)
  PROVE  /\ written' \in [Streams -> Nat] /\ Runs(tree)
         /\ \A q \in Streams : \A n \in Nat : n <= written[q] => n <= written'[q]
         /\ UNCHANGED <<cli, tree, reader, recorded, ending>>
<1>1. written \in [Streams -> Nat]
  BY DEF ExecutionTyped
<1>2. written[s] \in Nat /\ written[s] + 1 \in Nat /\ written[s] <= written[s] + 1
  BY <1>1
<1>3. written' = [written EXCEPT ![s] = written[s] + 1] /\ Runs(tree)
  BY DEF Write
<1>4. written' \in [Streams -> Nat]
  BY <1>1, <1>2, <1>3
<1>5. ASSUME NEW q \in Streams PROVE \A n \in Nat : n <= written[q] => n <= written'[q]
  BY <1>1, <1>2, <1>3
<1> QED
  BY <1>3, <1>4, <1>5 DEF Write

(* Closing the Job leaves no process, and a reader's failure becomes the     *)
(* result.                                                                   *)
LEMMA LeaveEffect ==
  ASSUME ExecutionTyped, tree.owned, LeavePhase
  PROVE  /\ cli' \in Clis /\ tree' \in Trees /\ cli.stage = "leaving" /\ ~Exists(tree')
         /\ cli'.stage \in {"preparing", "deciding"}
         /\ cli'.stage = "preparing" => cli'.result = "zero" /\ cli'.phases # <<>>
         /\ cli'.result # "error" => cli'.result = cli.result /\ \A s \in Streams : ~reader[s].failed
         /\ UNCHANGED <<written, reader, recorded, ending>>
<1> DEFINE rest   == Tail(cli.phases)
           result == IF \E s \in Streams : reader[s].failed THEN "error" ELSE cli.result
           stage  == IF result = "zero" /\ rest # <<>> THEN "preparing" ELSE "deciding"
<1>1. /\ cli \in Clis /\ tree \in Trees /\ cli.stage = "leaving" /\ cli.phases # <<>>
      /\ cli.phases \in Seq({"global", "command", "run"}) /\ cli.result \in Results
  BY DEF ExecutionTyped, LeavePhase, At, Clis, Phased, Watched
<1>2. rest \in Seq({"global", "command", "run"})
  BY <1>1, HeadTailProperties
<1>3. result \in Results /\ stage \in Stages
  BY <1>1, Named
<1>4. cli' = [cli EXCEPT !.phases = rest, !.result = result, !.stage = stage]
  BY Zenon DEF LeavePhase
<1>5. tree' \in Trees /\ ~Exists(tree')
  BY <1>1, ClosedTree DEF LeavePhase
<1>6. /\ stage \in {"preparing", "deciding"} /\ (stage = "preparing" => result = "zero" /\ rest # <<>>)
      /\ result # "error" => result = cli.result /\ \A s \in Streams : ~reader[s].failed
  OBVIOUS
<1> HIDE DEF rest, result, stage
<1>7. cli' \in Clis /\ cli'.stage = stage /\ cli'.result = result /\ cli'.phases = rest
  BY <1>1, <1>2, <1>3, <1>4 DEF Clis
<1> QED
  BY <1>1, <1>5, <1>6, <1>7 DEF LeavePhase

(* So does the death of the console process, which ends the readers with it. *)
LEMMA DeathEffect ==
  ASSUME ExecutionTyped, cli.stage \in Watched => tree.owned, cli.stage \notin Watched => ~Runs(tree), CliDies
  PROVE  /\ cli' \in Clis /\ tree' \in Trees /\ cli'.stage = "dead" /\ ~Runs(tree')
         /\ cli.stage # "done"
         /\ reader' \in [Streams -> OutputReaders]
         /\ \A s \in Streams : /\ reader'[s].post = "none" /\ reader'[s].read = 0
                               /\ reader'[s].journaling
         /\ UNCHANGED <<written, recorded, ending>>
<1>1. cli \in Clis /\ tree \in Trees /\ "dead" \in Stages
  BY Named DEF ExecutionTyped
<1>2. tree' \in Trees /\ ~Runs(tree')
  BY <1>1, ClosedTree DEF CliDies, Exists
<1>3. cli' \in Clis /\ cli'.stage = "dead"
  BY <1>1, CliGoes DEF CliDies
<1>4. NoReader \in OutputReaders /\ NoReader.post = "none" /\ NoReader.read = 0 /\ NoReader.journaling
  BY DEF NoReader, OutputReaders
<1> QED
  BY <1>1, <1>2, <1>3, <1>4 DEF CliDies

(* Every step keeps the types, and a phase under way is in the list of       *)
(* phases.                                                                   *)
LEMMA ExecutionTypes == ASSUME ExecutionInv, [ExecutionNext]_executionVars PROVE ExecutionTyped'
<1> USE DEF ExecutionInv, ExecutionTyped, Clis, Phased, Watched, Owned
<1>1. CASE UNCHANGED executionVars
  BY <1>1 DEF executionVars
<1>2. CASE Resolve
  BY <1>2, FirstEffect
<1>3. CASE StartJournal
  BY <1>3, FirstEffect
<1>4. CASE Plan
  BY <1>4, PlanEffect
<1>5. CASE Prepare
  BY <1>5, FirstTrees DEF Prepare, At, Goes, Errs, Stages, Results, NoReader, OutputReaders
<1>6. CASE AssignAndResume
  <2>1. ~Runs(tree)
    BY <1>6 DEF AssignAndResume, At
  <2> QED
    BY <1>6, <2>1, AssignEffect
<1>7. CASE StopUnmonitored
  BY <1>7 DEF StopUnmonitored, At, Goes, Errs, Stages
<1>8. CASE NoticeRequest
  BY <1>8, RequestEffect
<1>9. CASE AwaitCanceled
  BY <1>9, RequestEffect
<1>10. CASE NoticeExit
  BY <1>10, RequestEffect
<1>11. ASSUME NEW s \in Streams, SpawnReader(s) PROVE ExecutionTyped'
  BY <1>11, SpawnEffect
<1>12. ASSUME NEW s \in Streams, JoinReader(s) PROVE ExecutionTyped'
  <2>1. /\ cli' \in Clis /\ cli'.phases = cli.phases /\ cli.stage \in Watched
        /\ UNCHANGED <<tree, written, reader, recorded>>
    BY <1>12, JoinEffect
  <2> QED
    BY <2>1
<1>13. ASSUME NEW s \in Streams, ReadOutput(s) PROVE ExecutionTyped'
  <2>1. reader[s].read <= written[s]
    BY DEF Heard, HeardBy
  <2>2. /\ reader' \in [Streams -> OutputReaders] /\ recorded' \in [Streams -> Nat]
        /\ UNCHANGED <<cli, tree, written>>
    BY <1>13, <2>1, ReadEffect
  <2> QED
    BY <2>2
<1>14. ASSUME NEW s \in Streams, EndOfOutput(s) PROVE ExecutionTyped'
  BY <1>14, EndEffect
<1>15. ASSUME NEW s \in Streams, Write(s) PROVE ExecutionTyped'
  BY <1>15, WriteEffect
<1>16. CASE LeavePhase
  <2>1. tree.owned
    BY <1>16 DEF LeavePhase, At
  <2> QED
    BY <1>16, <2>1, LeaveEffect
<1>17. CASE Decide
  BY <1>17 DEF Decide, At, Goes, Errs, Stages, Results
<1>18. CASE FinishJournal
  BY <1>18 DEF FinishJournal, At, Goes, Errs, Stages
<1>19. CASE Interrupt
  BY <1>19 DEF Interrupt
<1>20. CASE Live
  BY <1>20, LivesTree DEF Live
<1>21. CASE CliDies
  BY <1>21, DeathEffect
<1> QED
  BY <1>1, <1>2, <1>3, <1>4, <1>5, <1>6, <1>7, <1>8, <1>9, <1>10, <1>11, <1>12, <1>13, <1>14, <1>15, <1>16, <1>17, <1>18, <1>19, <1>20, <1>21
     DEF ExecutionNext

(* Every step keeps a process, and a reader that reads, within a phase that  *)
(* owns its Job.                                                             *)
LEMMA OwnedKept == ASSUME ExecutionInv, [ExecutionNext]_executionVars PROVE Owned'
<1> USE DEF ExecutionInv, ExecutionTyped, Clis, OutputReaders, Owned, Heard, HeardBy, Watched, NoReader, Joined
<1>1. CASE UNCHANGED executionVars
  BY <1>1 DEF executionVars
<1>2. CASE Resolve
  BY <1>2 DEF Resolve, At, Goes, Errs
<1>3. CASE StartJournal
  BY <1>3 DEF StartJournal, At, Goes, Errs
<1>4. CASE Plan
  BY <1>4, PlanEffect
<1>5. CASE Prepare
  BY <1>5, FirstTrees DEF Prepare, At, Goes, Errs
<1>6. CASE AssignAndResume
  <2>1. ~Runs(tree)
    BY <1>6 DEF AssignAndResume, At
  <2> QED
    BY <1>6, <2>1, AssignEffect
<1>7. CASE StopUnmonitored
  BY <1>7 DEF StopUnmonitored, At, Goes, Errs
<1>8. CASE NoticeRequest
  BY <1>8, RequestEffect
<1>9. CASE AwaitCanceled
  BY <1>9, RequestEffect
<1>10. CASE NoticeExit
  BY <1>10, RequestEffect
<1>11. ASSUME NEW s \in Streams, SpawnReader(s) PROVE Owned'
  BY <1>11, SpawnEffect
<1>12. ASSUME NEW s \in Streams, JoinReader(s) PROVE Owned'
  BY <1>12, JoinEffect DEF Streams
<1>13. ASSUME NEW s \in Streams, ReadOutput(s) PROVE Owned'
  BY <1>13, ReadEffect
<1>14. ASSUME NEW s \in Streams, EndOfOutput(s) PROVE Owned'
  BY <1>14, EndEffect
<1>15. ASSUME NEW s \in Streams, Write(s) PROVE Owned'
  BY <1>15, WriteEffect
<1>16. CASE LeavePhase
  <2>1. tree.owned
    BY <1>16 DEF LeavePhase, At
  <2> QED
    BY <1>16, <2>1, LeaveEffect DEF Exists
<1>17. CASE Decide
  BY <1>17 DEF Decide, At, Goes, Errs
<1>18. CASE FinishJournal
  BY <1>18 DEF FinishJournal, At, Goes, Errs
<1>19. CASE Interrupt
  BY <1>19 DEF Interrupt, At, Goes, Errs
<1>20. CASE Live
  <2>1. tree' \in Lives(tree) /\ tree \in Trees /\ UNCHANGED <<cli, reader>>
    BY <1>20 DEF Live
  <2>2. tree'.owned = tree.owned /\ (Runs(tree') => Runs(tree))
    BY <2>1, LivesTree
  <2> QED
    BY <2>1, <2>2
<1>21. CASE CliDies
  BY <1>21, DeathEffect
<1> QED
  BY <1>1, <1>2, <1>3, <1>4, <1>5, <1>6, <1>7, <1>8, <1>9, <1>10, <1>11, <1>12, <1>13, <1>14, <1>15, <1>16, <1>17, <1>18, <1>19, <1>20, <1>21
     DEF ExecutionNext

(* Nothing is written or read before the first phase.                        *)
LEMMA FreshKept == ASSUME ExecutionInv, [ExecutionNext]_executionVars PROVE Fresh'
<1> USE DEF ExecutionInv, ExecutionTyped, Clis, OutputReaders, Owned, Heard, HeardBy, Fresh, Phased, Watched, NoReader
<1>1. CASE UNCHANGED executionVars
  BY <1>1 DEF executionVars
<1>2. CASE Resolve
  BY <1>2 DEF Resolve, At, Goes, Errs
<1>3. CASE StartJournal
  BY <1>3 DEF StartJournal, At, Goes, Errs
<1>4. CASE Plan
  BY <1>4, PlanEffect
<1>5. CASE Prepare
  BY <1>5, FirstTrees DEF Prepare, At, Goes, Errs
<1>6. CASE AssignAndResume
  <2>1. ~Runs(tree)
    BY <1>6 DEF AssignAndResume, At
  <2> QED
    BY <1>6, <2>1, AssignEffect
<1>7. CASE StopUnmonitored
  BY <1>7 DEF StopUnmonitored, At, Goes, Errs
<1>8. CASE NoticeRequest
  BY <1>8, RequestEffect
<1>9. CASE AwaitCanceled
  BY <1>9, RequestEffect
<1>10. CASE NoticeExit
  BY <1>10, RequestEffect
<1>11. ASSUME NEW s \in Streams, SpawnReader(s) PROVE Fresh'
  BY <1>11, SpawnEffect
<1>12. ASSUME NEW s \in Streams, JoinReader(s) PROVE Fresh'
  BY <1>12, JoinEffect DEF Streams
<1>13. ASSUME NEW s \in Streams, ReadOutput(s) PROVE Fresh'
  BY <1>13, ReadEffect
<1>14. ASSUME NEW s \in Streams, EndOfOutput(s) PROVE Fresh'
  BY <1>14, EndEffect
<1>15. ASSUME NEW s \in Streams, Write(s) PROVE Fresh'
  BY <1>15, WriteEffect
<1>16. CASE LeavePhase
  <2>1. tree.owned
    BY <1>16 DEF LeavePhase, At
  <2> QED
    BY <1>16, <2>1, LeaveEffect
<1>17. CASE Decide
  BY <1>17 DEF Decide, At, Goes, Errs
<1>18. CASE FinishJournal
  BY <1>18 DEF FinishJournal, At, Goes, Errs
<1>19. CASE Interrupt
  BY <1>19 DEF Interrupt, At, Goes, Errs
<1>20. CASE Live
  BY <1>20, LivesTree DEF Live, At, Goes, Errs
<1>21. CASE CliDies
  BY <1>21, DeathEffect
<1> QED
  BY <1>1, <1>2, <1>3, <1>4, <1>5, <1>6, <1>7, <1>8, <1>9, <1>10, <1>11, <1>12, <1>13, <1>14, <1>15, <1>16, <1>17, <1>18, <1>19, <1>20, <1>21
     DEF ExecutionNext

(* Every step keeps what a reader without a failure has read recorded, and   *)
(* all there is once it has ended.                                           *)
LEMMA HeardKept == ASSUME ExecutionInv, [ExecutionNext]_executionVars PROVE Heard'
<1> USE DEF ExecutionInv, Owned, Heard, HeardBy, Phased, Watched
<1>1. CASE UNCHANGED executionVars
  BY <1>1 DEF executionVars
<1>2. CASE Resolve
  BY <1>2, FirstEffect
<1>3. CASE StartJournal
  BY <1>3, FirstEffect
<1>4. CASE Plan
  <2>1. /\ cli'.stage \in {"preparing", "deciding"} /\ cli.stage = "planning"
        /\ UNCHANGED <<tree, written, reader, recorded>>
    BY <1>4, PlanEffect
  <2>2. \A q \in Streams : reader[q].read = 0 /\ recorded[q] = 0
    BY <2>1 DEF Fresh, NoReader
  <2> QED
    BY <2>1, <2>2
<1>5. CASE Prepare
  <2>1. recorded = written /\ UNCHANGED <<written, recorded>> /\ cli'.stage \notin Watched
    BY <1>5 DEF Ended, ExecutionTyped, Clis, Prepare, At, Goes, Errs
  <2>2. reader' = [q \in Streams |-> [NoReader EXCEPT !.read = written[q]]]
    BY <1>5 DEF Prepare
  <2>3. ASSUME NEW q \in Streams
        PROVE  /\ reader'[q].read = written[q] /\ reader'[q].post = "none"
               /\ reader'[q].journaling /\ ~reader'[q].failed
    BY <2>2 DEF NoReader
  <2>4. ASSUME NEW q \in Streams PROVE written[q] <= written[q]
    BY Counts
  <2> QED
    BY <2>1, <2>3, <2>4
<1>6. CASE AssignAndResume
  <2>1. ~Runs(tree)
    BY <1>6 DEF AssignAndResume, At
  <2> QED
    BY <1>6, <2>1, AssignEffect
<1>7. CASE StopUnmonitored
  BY <1>7 DEF StopUnmonitored, At, Goes, Errs, ExecutionTyped, Clis
<1>8. CASE NoticeRequest
  BY <1>8, RequestEffect
<1>9. CASE AwaitCanceled
  BY <1>9, RequestEffect
<1>10. CASE NoticeExit
  BY <1>10, RequestEffect
<1>11. ASSUME NEW s \in Streams, SpawnReader(s) PROVE Heard'
  <2>1. ASSUME NEW q \in Streams PROVE HeardBy(q)'
    <3>1. /\ reader'[q].read = reader[q].read /\ reader'[q].journaling = reader[q].journaling
          /\ reader'[q].failed = reader[q].failed
          /\ reader'[q].post = reader[q].post \/ reader'[q].post = "reading"
          /\ cli.stage \in Watched /\ cli'.stage # "starting"
          /\ Exists(tree') => Exists(tree)
          /\ UNCHANGED <<written, recorded>>
      BY <1>11, SpawnEffect
    <3> QED
      BY <3>1
  <2> QED
    BY <2>1
<1>12. ASSUME NEW s \in Streams, JoinReader(s) PROVE Heard'
  <2>1. /\ cli.stage \in Watched /\ cli'.stage \in {"joining stderr", "leaving"}
        /\ UNCHANGED <<tree, written, reader, recorded>>
    BY <1>12, JoinEffect
  <2>2. ASSUME NEW q \in Streams PROVE HeardBy(q)'
    BY <2>1
  <2> QED
    BY <2>2
<1>13. ASSUME NEW s \in Streams, ReadOutput(s) PROVE Heard'
  <2>1. reader[s].read <= written[s] /\ (reader[s].post = "reading" => cli.stage \in Watched)
    OBVIOUS
  <2>2. /\ reader[s].post = "reading" /\ reader'[s].post = "reading" /\ reader'[s].read <= written[s]
        /\ ~reader'[s].journaling => ~reader[s].journaling \/ reader'[s].failed
        /\ reader[s].failed => reader'[s].failed
        /\ ~reader'[s].failed =>
             reader'[s].read = reader[s].read + 1 /\ (reader[s].journaling => recorded'[s] = recorded[s] + 1)
        /\ \A q \in Streams \ {s} : reader'[q] = reader[q] /\ recorded'[q] = recorded[q]
        /\ UNCHANGED <<cli, tree, written, ending>>
    BY <1>13, <2>1, ReadEffect
  <2>3. HeardBy(s)'
    BY <2>1, <2>2
  <2>4. ASSUME NEW q \in Streams \ {s} PROVE HeardBy(q)'
    <3>1. reader'[q] = reader[q] /\ recorded'[q] = recorded[q] /\ HeardBy(q)
      BY <2>2
    <3> QED
      BY <2>2, <3>1
  <2> QED
    BY <2>3, <2>4
<1>14. ASSUME NEW s \in Streams, EndOfOutput(s) PROVE Heard'
  <2>1. /\ reader[s].post = "reading" /\ reader'[s].post = "ended"
        /\ reader'[s].read = reader[s].read /\ reader'[s].journaling = reader[s].journaling
        /\ \/ reader[s].read = written[s] /\ ~Exists(tree) /\ reader'[s].failed = reader[s].failed
           \/ reader'[s].failed
        /\ UNCHANGED <<cli, tree, written, recorded, ending>>
    BY <1>14, EndEffect
  <2>2. HeardBy(s) /\ cli.stage \in Watched
    BY <2>1
  <2>3. HeardBy(s)'
    BY <2>1, <2>2
  <2>4. ASSUME NEW q \in Streams \ {s} PROVE HeardBy(q)'
    <3>1. reader'[q] = reader[q] /\ UNCHANGED <<cli, tree, written, recorded>>
      BY <1>14, EndEffect
    <3>2. HeardBy(q)
      OBVIOUS
    <3> QED
      BY <3>1, <3>2
  <2> QED
    BY <2>3, <2>4
<1>15. ASSUME NEW s \in Streams, Write(s) PROVE Heard'
  <2>1. ASSUME NEW q \in Streams PROVE HeardBy(q)'
    <3>1. Exists(tree) /\ UNCHANGED <<cli, tree, reader, recorded>>
      BY <1>15, WriteEffect DEF Exists
    <3>2. reader[q].read <= written[q] /\ reader[q].read \in Nat
      BY Counts
    <3>3. reader[q].read <= written'[q]
      BY <1>15, <3>2, WriteEffect
    <3> QED
      BY <3>1, <3>3
  <2> QED
    BY <2>1
<1>16. CASE LeavePhase
  <2>1. tree.owned
    BY <1>16 DEF LeavePhase, At
  <2> QED
    BY <1>16, <2>1, LeaveEffect
<1>17. CASE Decide
  BY <1>17 DEF Decide, At, Goes, Errs, ExecutionTyped, Clis
<1>18. CASE FinishJournal
  BY <1>18 DEF FinishJournal, At, Goes, Errs, ExecutionTyped, Clis
<1>19. CASE Interrupt
  BY <1>19 DEF Interrupt
<1>20. CASE Live
  BY <1>20, LivesTree DEF Live, ExecutionTyped
<1>21. CASE CliDies
  <2>1. ASSUME NEW q \in Streams PROVE HeardBy(q)'
    <3>1. /\ cli'.stage = "dead" /\ reader'[q].post = "none" /\ reader'[q].read = 0
          /\ reader'[q].journaling /\ UNCHANGED <<written, recorded>>
      BY <1>21, DeathEffect
    <3>2. 0 <= written[q]
      BY Counts
    <3>3. 0 <= written'[q]
      BY <3>1, <3>2
    <3> QED
      BY <3>1, <3>3
  <2> QED
    BY <2>1
<1> QED
  BY <1>1, <1>2, <1>3, <1>4, <1>5, <1>6, <1>7, <1>8, <1>9, <1>10, <1>11, <1>12, <1>13, <1>14, <1>15, <1>16, <1>17, <1>18, <1>19, <1>20, <1>21
     DEF ExecutionNext

(* A phase is left with an error or with both readers ended.                 *)
LEMMA JoinedKept == ASSUME ExecutionInv, [ExecutionNext]_executionVars PROVE Joined'
<1> USE DEF ExecutionInv, Owned, Joined, Watched
<1>1. CASE UNCHANGED executionVars
  BY <1>1 DEF executionVars
<1>2. CASE Resolve
  BY <1>2, FirstEffect
<1>3. CASE StartJournal
  BY <1>3, FirstEffect
<1>4. CASE Plan
  BY <1>4, PlanEffect
<1>5. CASE Prepare
  BY <1>5 DEF Prepare, At, Goes, Errs, ExecutionTyped, Clis
<1>6. CASE AssignAndResume
  <2>1. ~Runs(tree)
    BY <1>6 DEF AssignAndResume, At
  <2> QED
    BY <1>6, <2>1, AssignEffect
<1>7. CASE StopUnmonitored
  BY <1>7 DEF StopUnmonitored, At, Goes, Errs, ExecutionTyped, Clis, ResultOf
<1>8. CASE NoticeRequest
  BY <1>8, RequestEffect
<1>9. CASE AwaitCanceled
  BY <1>9, RequestEffect
<1>10. CASE NoticeExit
  BY <1>10, RequestEffect
<1>11. ASSUME NEW s \in Streams, SpawnReader(s) PROVE Joined'
  BY <1>11, SpawnEffect
<1>12. ASSUME NEW s \in Streams, JoinReader(s) PROVE Joined'
  BY <1>12, JoinEffect DEF Streams
<1>13. ASSUME NEW s \in Streams, ReadOutput(s) PROVE Joined'
  <2>1. \A q \in Streams : reader'[q].post = reader[q].post
    <3>1. reader[s].read <= written[s]
      BY DEF Heard, HeardBy
    <3>2. /\ reader[s].post = "reading" /\ reader'[s].post = "reading"
          /\ \A q \in Streams \ {s} : reader'[q] = reader[q]
      BY <1>13, <3>1, ReadEffect
    <3> QED
      BY <3>2
  <2>2. UNCHANGED cli
    BY <1>13 DEF ReadOutput
  <2> QED
    BY <2>1, <2>2 DEF Streams
<1>14. ASSUME NEW s \in Streams, EndOfOutput(s) PROVE Joined'
  <2>1. \A q \in Streams : reader[q].post = "ended" => reader'[q].post = "ended"
    <3>1. reader'[s].post = "ended" /\ \A q \in Streams \ {s} : reader'[q] = reader[q]
      BY <1>14, EndEffect
    <3> QED
      BY <3>1
  <2> QED
    BY <1>14, <2>1, EndEffect DEF Streams
<1>15. ASSUME NEW s \in Streams, Write(s) PROVE Joined'
  BY <1>15, WriteEffect
<1>16. CASE LeavePhase
  <2>1. tree.owned
    BY <1>16 DEF LeavePhase, At
  <2> QED
    BY <1>16, <2>1, LeaveEffect
<1>17. CASE Decide
  BY <1>17 DEF Decide, At, Goes, Errs, ExecutionTyped, Clis, ResultOf
<1>18. CASE FinishJournal
  BY <1>18 DEF FinishJournal, At, Goes, Errs, ExecutionTyped, Clis, ResultOf
<1>19. CASE Interrupt
  BY <1>19 DEF Interrupt
<1>20. CASE Live
  BY <1>20 DEF Live
<1>21. CASE CliDies
  BY <1>21, DeathEffect
<1> QED
  BY <1>1, <1>2, <1>3, <1>4, <1>5, <1>6, <1>7, <1>8, <1>9, <1>10, <1>11, <1>12, <1>13, <1>14, <1>15, <1>16, <1>17, <1>18, <1>19, <1>20, <1>21
     DEF ExecutionNext

(* So a phase that is left without an error has recorded all that was        *)
(* written.                                                                  *)
LEMMA EndedKept == ASSUME ExecutionInv, [ExecutionNext]_executionVars PROVE Ended'
<1> USE DEF ExecutionInv, ExecutionTyped, Clis, OutputReaders, Owned, Heard, HeardBy, Joined, Ended, Phased, Watched, NoReader
<1>1. CASE UNCHANGED executionVars
  BY <1>1 DEF executionVars
<1>2. CASE Resolve
  BY <1>2 DEF Fresh, Resolve, At, Goes, Errs
<1>3. CASE StartJournal
  BY <1>3 DEF Fresh, StartJournal, At, Goes, Errs
<1>4. CASE Plan
  <2>1. /\ cli'.stage = "preparing" \/ (cli'.stage = "deciding" /\ cli'.result = "error")
        /\ cli.stage = "planning" /\ UNCHANGED <<written, recorded, ending>>
    BY <1>4, PlanEffect
  <2>2. \A q \in Streams : written[q] = 0 /\ recorded[q] = 0
    BY <2>1 DEF Fresh
  <2>3. recorded = written
    BY <2>2, AllRecorded
  <2> QED
    BY <2>1, <2>3
<1>5. CASE Prepare
  BY <1>5, FirstTrees DEF Prepare, At, Goes, Errs
<1>6. CASE AssignAndResume
  <2>1. ~Runs(tree)
    BY <1>6 DEF AssignAndResume, At
  <2> QED
    BY <1>6, <2>1, AssignEffect
<1>7. CASE StopUnmonitored
  BY <1>7 DEF StopUnmonitored, At, Goes, Errs
<1>8. CASE NoticeRequest
  BY <1>8, RequestEffect
<1>9. CASE AwaitCanceled
  BY <1>9, RequestEffect
<1>10. CASE NoticeExit
  BY <1>10, RequestEffect
<1>11. ASSUME NEW s \in Streams, SpawnReader(s) PROVE Ended'
  BY <1>11, SpawnEffect
<1>12. ASSUME NEW s \in Streams, JoinReader(s) PROVE Ended'
  BY <1>12, JoinEffect
<1>13. ASSUME NEW s \in Streams, ReadOutput(s) PROVE Ended'
  BY <1>13, ReadEffect
<1>14. ASSUME NEW s \in Streams, EndOfOutput(s) PROVE Ended'
  BY <1>14, EndEffect
<1>15. ASSUME NEW s \in Streams, Write(s) PROVE Ended'
  BY <1>15, WriteEffect
<1>16. CASE LeavePhase
  <2>1. tree.owned /\ cli.stage = "leaving"
    BY <1>16 DEF LeavePhase, At
  <2>2. /\ cli'.stage \in {"preparing", "deciding"}
        /\ cli'.stage = "preparing" => cli'.result = "zero"
        /\ cli'.result # "error" => cli'.result = cli.result /\ \A s \in Streams : ~reader[s].failed
        /\ UNCHANGED <<written, recorded, ending>>
    BY <1>16, <2>1, LeaveEffect
  <2>3. ASSUME cli'.result # "error", NEW s \in Streams PROVE recorded[s] = written[s]
    BY <2>1, <2>2, <2>3
  <2>4. cli'.result # "error" => recorded = written
    BY <2>3, AllRecorded
  <2> QED
    BY <2>1, <2>2, <2>4
<1>17. CASE Decide
  BY <1>17 DEF Decide, At, Goes, Errs
<1>18. CASE FinishJournal
  BY <1>18 DEF FinishJournal, At, Goes, Errs
<1>19. CASE Interrupt
  BY <1>19 DEF Interrupt, At, Goes, Errs
<1>20. CASE Live
  BY <1>20, LivesTree DEF Live, At, Goes, Errs
<1>21. CASE CliDies
  BY <1>21, DeathEffect
<1> QED
  BY <1>1, <1>2, <1>3, <1>4, <1>5, <1>6, <1>7, <1>8, <1>9, <1>10, <1>11, <1>12, <1>13, <1>14, <1>15, <1>16, <1>17, <1>18, <1>19, <1>20, <1>21
     DEF ExecutionNext

(* The invariant holds before the command is resolved.                       *)
LEMMA ExecutionStarts == ExecutionInit => ExecutionInv
<1> SUFFICES ASSUME ExecutionInit PROVE ExecutionInv
  OBVIOUS
<1>1. cli \in Clis /\ cli.stage = "resolving" /\ cli.result = "none" /\ cli.end = "none"
  <2>1. <<>> \in Seq({"global", "command", "run"})
    OBVIOUS
  <2> QED
    BY <2>1 DEF ExecutionInit, Clis, Stages, Results
<1>2. tree \in Trees /\ ~Runs(tree)
  BY FirstTrees DEF ExecutionInit, Exists
<1>3. NoReader \in OutputReaders /\ NoReader.post = "none" /\ NoReader.read = 0 /\ NoReader.journaling
  BY DEF NoReader, OutputReaders
<1>4. /\ reader = [s \in Streams |-> NoReader] /\ written = [s \in Streams |-> 0]
      /\ recorded = [s \in Streams |-> 0] /\ ending = "none"
  BY DEF ExecutionInit
<1>5. ExecutionTyped
  BY <1>1, <1>2, <1>3, <1>4 DEF ExecutionTyped, Phased, Watched
<1>6. Owned /\ Fresh /\ Joined /\ Ended
  BY <1>1, <1>2, <1>3, <1>4 DEF Owned, Fresh, Joined, Ended, Watched
<1>7. Heard
  <2>1. ASSUME NEW s \in Streams PROVE HeardBy(s)
    <3>1. /\ reader[s].read = written[s] /\ reader[s].journaling /\ reader[s].post = "none"
          /\ cli.stage \notin Phased
      BY <1>1, <1>3, <1>4 DEF Phased, Watched
    <3>2. written[s] <= written[s]
      BY <1>5, Counts
    <3> QED
      BY <3>1, <3>2 DEF HeardBy, Phased
  <2> QED
    BY <2>1 DEF Heard
<1> QED
  BY <1>5, <1>6, <1>7 DEF ExecutionInv

(* The invariant holds in every state of every behaviour.                    *)
LEMMA ExecutionInvariance == ExecutionSpec => []ExecutionInv
<1>1. ExecutionInv /\ [ExecutionNext]_executionVars => ExecutionInv'
  BY ExecutionTypes, OwnedKept, FreshKept, HeardKept, JoinedKept, EndedKept DEF ExecutionInv
<1> QED
  BY ExecutionStarts, <1>1, PTL DEF ExecutionSpec

(* No process of a run survives the phase that started it, the published end *)
(* of the run, or its console process (process_job.rs, run_process_journaled).*)
THEOREM RunOwnsProcesses == ExecutionSpec => []RunOwnsItsProcesses
<1>1. ExecutionInv => RunOwnsItsProcesses
  BY DEF ExecutionInv, Owned, Watched, RunOwnsItsProcesses
<1> QED
  BY ExecutionInvariance, <1>1, PTL

(* A journal that says how the command exited holds all that was written.    *)
THEOREM ExitedWhole == ExecutionSpec => []ExitedIsWhole
<1>1. ExecutionInv => ExitedIsWhole
  BY DEF ExecutionInv, Ended, ExitedIsWhole
<1> QED
  BY ExecutionInvariance, <1>1, PTL
-----------------------------------------------------------------------------
(* A facet query.                                                            *)

Askers == [stage : {"starting", "suspended", "first reader", "second reader", "abandoned",
                    "monitored", "waiting", "canceling", "joining", "done"},
           wait : {"none", "completed", "rejected", "timed out"},
           answer : {"none", "document", "error"}]
Hearers == [post : {"none", "reading", "ended"}, read : Nat, failed : BOOLEAN]
Monitors == [stage : {"none", "waiting", "cleaning", "joining", "ended"}, failed : BOOLEAN]
Observers == [stdout : Nat, stderr : Nat, outcome : Outcomes, rejected : BOOLEAN]

(* A root that was killed has ended, and not with zero.                      *)
Launchers == {t \in Trees : t.killed => t.root = "exited" /\ t.code = 1}

QueryTyped ==
  /\ asker \in Askers /\ queryTree \in Launchers /\ said \in [Streams -> Nat]
  /\ heard \in [Streams -> Hearers] /\ monitor \in Monitors /\ observed \in Observers

(* The stages before the monitor is started.                                 *)
Opening == {"starting", "suspended", "first reader", "second reader", "abandoned", "monitored"}

(* The Launcher and what it runs live in a Job that the query holds.         *)
QueryOwned ==
  /\ asker.stage \in {"starting", "suspended", "done"} => ~Runs(queryTree)
  /\ asker.stage \notin {"starting", "suspended", "done"} => queryTree.owned
  /\ asker.stage = "suspended" => queryTree.root = "suspended"
  /\ monitor.stage \in {"cleaning", "joining", "ended"} => queryTree.root = "exited"

(* The readers are started after the Launcher, and the monitor after them.   *)
QueryStaged ==
  /\ asker.stage \in {"starting", "suspended", "first reader"} => \A s \in Streams : heard[s].post = "none"
  /\ asker.stage \in Opening => asker.wait = "none" /\ monitor.stage = "none"
  /\ monitor.stage = "none" => asker.stage \in Opening \cup {"done"} /\ asker.wait = "none"

(* What the observer holds of a stream it has not rejected is what was read, *)
(* and that is all there is once the reader has seen the end.                *)
HeardOf(s) ==
  /\ heard[s].read <= said[s]
  /\ ~observed.rejected => observed[s] = heard[s].read
  /\ heard[s].post = "ended" /\ ~heard[s].failed => ~Exists(queryTree) /\ heard[s].read = said[s]

HeardAll == \A s \in Streams : HeardOf(s)

(* An outcome is reported when both readers have ended, and an answer rests  *)
(* on an outcome that nothing rejected.                                      *)
Reported ==
  /\ observed.outcome # "none" => monitor.stage = "ended" /\ \A s \in Streams : heard[s].post = "ended"
  /\ observed.outcome = "zero" => queryTree.code = 0 /\ \A s \in Streams : ~heard[s].failed
  /\ asker.wait = "completed" => observed.outcome # "none" /\ ~observed.rejected
  /\ asker.answer = "document" =>
       asker.stage = "done" /\ asker.wait = "completed" /\ observed.outcome = "zero" /\ observed.stderr = 0

QueryInv == QueryTyped /\ QueryOwned /\ QueryStaged /\ HeardAll /\ Reported

(* Whatever is done to the Launcher, one that was killed has ended with one. *)
LEMMA LauncherTrees ==
  ASSUME NEW t \in Launchers
  PROVE  /\ t \in Trees
         /\ Terminated(t, 1) \in Launchers /\ Closed(t) \in Launchers /\ KilledRoot(t, 1) \in Launchers
         /\ Assigned(t) \in Launchers
         /\ ~t.killed => Resumed(t) \in Launchers
         /\ t.root = "exited" => Terminated(t, 0) \in Launchers
         /\ \A u \in Lives(t) : u \in Launchers
<1>1. t \in Trees /\ (t.killed => t.root = "exited" /\ t.code = 1)
  BY DEF Launchers
<1>2. KilledRoot(t, 1) \in Launchers /\ KilledRoot(t, 1).root \in {t.root, "exited"}
  BY <1>1 DEF Launchers, Trees, KilledRoot
<1>3. Terminated(t, 1) \in Launchers
  BY <1>1 DEF Launchers, Trees, KilledRoot, Terminated
<1>4. Closed(t) \in Launchers
  BY <1>3 DEF Launchers, Trees, Closed
<1>5. Assigned(t) \in Launchers /\ (~t.killed => Resumed(t) \in Launchers)
  BY <1>1 DEF Launchers, Trees, Assigned, Resumed
<1>6. t.root = "exited" => Terminated(t, 0) \in Launchers
  BY <1>1 DEF Launchers, Trees, KilledRoot, Terminated
<1>7. \A u \in Lives(t) : u \in Launchers
  BY <1>1, LivesTree DEF Launchers
<1> QED
  BY <1>1, <1>2, <1>3, <1>4, <1>5, <1>6, <1>7

(* The asking thread goes on, or refuses with an error.                      *)
LEMMA AskerSteps ==
  ASSUME asker \in Askers
  PROVE  /\ \A stage \in {"suspended", "first reader", "second reader", "abandoned", "monitored",
                          "waiting", "joining"} :
              AskerGoes(stage) => /\ asker' \in Askers /\ asker'.stage = stage
                                  /\ asker'.wait = asker.wait /\ asker'.answer = asker.answer
         /\ Refuses => /\ asker' \in Askers /\ asker'.stage = "done"
                       /\ asker'.wait = asker.wait /\ asker'.answer = "error"
BY DEF Askers, AskerGoes, Refuses

(* Creating the Launcher keeps the invariant: it is suspended.               *)
LEMMA CreateKeeps == ASSUME QueryInv, CreateLauncher PROVE QueryInv'
<1> USE DEF QueryInv
<1>1. /\ asker.stage = "starting" /\ asker' \in Askers /\ asker'.wait = asker.wait
      /\ UNCHANGED <<said, heard, monitor, observed>>
      /\ \/ asker'.stage = "suspended" /\ queryTree' = Suspended /\ asker'.answer = asker.answer
         \/ asker'.stage = "done" /\ queryTree' = queryTree /\ asker'.answer = "error"
  BY AskerSteps DEF CreateLauncher, Asks, QueryTyped
<1>2. queryTree' \in Launchers /\ ~Runs(queryTree') /\ (asker'.stage = "suspended" => queryTree'.root = "suspended")
  BY <1>1 DEF QueryTyped, QueryOwned, Suspended, NoProcess, Launchers, Trees, Runs
<1>3. QueryTyped' /\ QueryStaged'
  BY <1>1, <1>2 DEF QueryTyped, QueryStaged, Opening
<1>4. QueryOwned' /\ Reported'
  BY <1>1, <1>2 DEF QueryOwned, QueryStaged, Reported, Opening
<1>5. HeardAll'
  BY <1>1 DEF HeardAll, HeardOf, QueryStaged
<1> QED
  BY <1>3, <1>4, <1>5

(* So does assign_and_resume, which leaves the Launcher in the Job or dead.  *)
LEMMA AssignKeeps == ASSUME QueryInv, AssignLauncher PROVE QueryInv'
<1> USE DEF QueryInv
<1>1. /\ asker.stage = "suspended" /\ asker' \in Askers /\ asker'.wait = asker.wait
      /\ UNCHANGED <<said, heard, monitor, observed>>
      /\ \/ asker'.stage = "first reader" /\ queryTree' = Resumed(queryTree) /\ asker'.answer = asker.answer
         \/ /\ asker'.stage = "done" /\ asker'.answer = "error"
            /\ \/ queryTree' = Closed(KilledRoot(queryTree, 1))
               \/ queryTree' = Closed(KilledRoot(Assigned(queryTree), 1))
  BY AskerSteps DEF AssignLauncher, Asks, QueryTyped
<1>2. queryTree \in Launchers /\ queryTree \in Trees /\ ~queryTree.killed /\ ~Runs(queryTree)
  BY <1>1 DEF QueryTyped, QueryOwned, Launchers
<1>3. Resumed(queryTree) \in Launchers /\ Resumed(queryTree).owned
  BY <1>2, LauncherTrees, AssignedTree
<1>4. ASSUME NEW t \in Launchers, ~Runs(t)
      PROVE  Closed(KilledRoot(t, 1)) \in Launchers /\ ~Runs(Closed(KilledRoot(t, 1)))
  <2>1. KilledRoot(t, 1) \in Launchers /\ t \in Trees
    BY LauncherTrees
  <2>2. ~Runs(KilledRoot(t, 1)) /\ KilledRoot(t, 1) \in Trees
    BY <1>4, <2>1, KilledTree
  <2> QED
    BY <2>1, <2>2, LauncherTrees, ClosedTree
<1>5. Assigned(queryTree) \in Launchers /\ ~Runs(Assigned(queryTree))
  BY <1>2, LauncherTrees, AssignedTree
<1>6. /\ queryTree' \in Launchers /\ (asker'.stage = "first reader" => queryTree'.owned)
      /\ asker'.stage = "done" => ~Runs(queryTree')
  BY <1>1, <1>2, <1>3, <1>4, <1>5
<1>7. QueryTyped' /\ QueryStaged'
  BY <1>1, <1>6 DEF QueryTyped, QueryStaged, Opening
<1>8. QueryOwned' /\ Reported'
  BY <1>1, <1>6 DEF QueryOwned, QueryStaged, Reported, Opening
<1>9. HeardAll'
  BY <1>1 DEF HeardAll, HeardOf, QueryStaged
<1> QED
  BY <1>7, <1>8, <1>9

(* So does starting a reader, and what gives up when it cannot be started.   *)
LEMMA StartReaderKeeps == ASSUME QueryInv, NEW s \in Streams, StartReader(s) PROVE QueryInv'
<1> USE DEF QueryInv
<1>1. /\ asker.stage \in {"first reader", "second reader"} /\ asker' \in Askers /\ asker'.wait = asker.wait
      /\ asker'.stage \in {"second reader", "monitored", "abandoned", "done"}
      /\ asker'.answer \in {asker.answer, "error"}
      /\ asker'.stage = "done" => queryTree' = Closed(queryTree)
      /\ asker'.stage = "abandoned" => queryTree' \in {Terminated(queryTree, 1), KilledRoot(queryTree, 1)}
      /\ asker'.stage \in {"second reader", "monitored"} => queryTree' = queryTree
      /\ UNCHANGED <<said, monitor, observed>>
  BY AskerSteps DEF StartReader, Asks, QueryTyped
<1>2. queryTree \in Launchers /\ queryTree \in Trees /\ queryTree.owned
  BY <1>1 DEF QueryTyped, QueryOwned, Launchers
<1>3. /\ Closed(queryTree) \in Launchers /\ ~Exists(Closed(queryTree))
      /\ Terminated(queryTree, 1) \in Launchers /\ Terminated(queryTree, 1).owned
      /\ ~Exists(Terminated(queryTree, 1))
      /\ KilledRoot(queryTree, 1) \in Launchers /\ KilledRoot(queryTree, 1).owned
      /\ Exists(KilledRoot(queryTree, 1)) => Exists(queryTree)
  BY <1>2, LauncherTrees, ClosedTree, TerminatedTree, KilledTree
<1>4. /\ queryTree' \in Launchers /\ (asker'.stage # "done" => queryTree'.owned)
      /\ asker'.stage = "done" => ~Runs(queryTree')
      /\ Exists(queryTree') => Exists(queryTree)
  BY <1>1, <1>2, <1>3 DEF Exists
<1>5. /\ heard' \in [Streams -> Hearers]
      /\ \A q \in Streams : /\ heard'[q].read = heard[q].read /\ heard'[q].failed = heard[q].failed
                            /\ heard'[q].post = "ended" => heard[q].post = "ended"
  <2>1. heard \in [Streams -> Hearers]
    BY DEF QueryTyped
  <2>2. CASE heard' = heard
    BY <2>1, <2>2
  <2>3. CASE heard' = [heard EXCEPT ![s].post = "reading"]
    BY <2>1, <2>3 DEF Hearers
  <2> QED
    BY <2>2, <2>3 DEF StartReader
<1>6. QueryTyped' /\ QueryStaged'
  BY <1>1, <1>4, <1>5 DEF QueryTyped, QueryStaged, Opening
<1>7. QueryOwned' /\ Reported'
  BY <1>1, <1>4 DEF QueryOwned, QueryStaged, Reported, Opening
<1>8. HeardAll'
  BY <1>1, <1>4, <1>5 DEF HeardAll, HeardOf
<1> QED
  BY <1>6, <1>7, <1>8

(* The steps of the asking thread that can only end what runs.               *)
LEMMA EndingKeeps ==
  ASSUME QueryInv, AbandonStart \/ StartMonitor \/ CancelQuery \/ AnswerQuery PROVE QueryInv'
<1> USE DEF QueryInv
<1>1. /\ asker.stage \in {"abandoned", "monitored", "canceling", "joining"} /\ asker' \in Askers
      /\ asker'.wait = asker.wait
      /\ \/ asker'.stage = "done" /\ queryTree' = Closed(queryTree)
         \/ asker'.stage \in {"waiting", "joining"} /\ queryTree' \in {queryTree, Terminated(queryTree, 1)}
      /\ UNCHANGED <<said, heard, observed>>
  BY AskerSteps DEF AbandonStart, StartMonitor, CancelQuery, AnswerQuery, Asks, QueryTyped, Askers
<1>2. /\ monitor' \in Monitors
      /\ \/ asker'.stage = "waiting" /\ asker.stage = "monitored" /\ monitor'.stage = "waiting"
         \/ /\ asker'.stage # "waiting" /\ monitor' = monitor
            /\ (asker'.stage = "joining" <=> asker.stage = "canceling")
  BY AskerSteps DEF AbandonStart, StartMonitor, CancelQuery, AnswerQuery, Asks, QueryTyped, Askers, Monitors
<1>3. asker'.answer = "document" =>
        asker.wait = "completed" /\ observed.outcome = "zero" /\ observed.stderr = 0 /\ asker'.stage = "done"
  BY <1>1, AskerSteps
     DEF AbandonStart, StartMonitor, CancelQuery, AnswerQuery, Asks, QueryTyped, Reported, Askers
<1>4. queryTree \in Launchers /\ queryTree \in Trees /\ queryTree.owned
  BY <1>1 DEF QueryTyped, QueryOwned, Launchers
<1>5. /\ Closed(queryTree) \in Launchers /\ ~Exists(Closed(queryTree))
      /\ Terminated(queryTree, 1) \in Launchers /\ Terminated(queryTree, 1).owned
      /\ ~Exists(Terminated(queryTree, 1))
  BY <1>4, LauncherTrees, ClosedTree, TerminatedTree
<1>6. queryTree.root = "exited" =>
        /\ Closed(queryTree).root = "exited" /\ Closed(queryTree).code = queryTree.code
        /\ Terminated(queryTree, 1).root = "exited" /\ Terminated(queryTree, 1).code = queryTree.code
  BY <1>4, ClosedTree, TerminatedTree
<1>7. /\ queryTree' \in Launchers /\ (asker'.stage # "done" => queryTree'.owned)
      /\ asker'.stage = "done" => ~Runs(queryTree')
      /\ Exists(queryTree') => Exists(queryTree)
      /\ queryTree.root = "exited" => queryTree'.root = "exited" /\ queryTree'.code = queryTree.code
  BY <1>1, <1>4, <1>5, <1>6 DEF Exists
<1>8. QueryTyped' /\ QueryStaged'
  BY <1>1, <1>2, <1>7 DEF QueryTyped, QueryStaged, Opening
<1>9. QueryOwned'
  BY <1>1, <1>2, <1>7 DEF QueryOwned, QueryStaged, Opening
<1>10. Reported'
  BY <1>1, <1>2, <1>3, <1>7 DEF QueryOwned, QueryStaged, Reported, Opening
<1>11. HeardAll'
  BY <1>1, <1>7 DEF HeardAll, HeardOf
<1> QED
  BY <1>8, <1>9, <1>10, <1>11

(* QueryObserver::wait ends with what the observer holds.                    *)
LEMMA EndWaitKeeps == ASSUME QueryInv, EndWait PROVE QueryInv'
<1> USE DEF QueryInv
<1>1. /\ asker.stage = "waiting" /\ asker' \in Askers /\ asker'.stage \in {"joining", "canceling"}
      /\ asker'.answer = asker.answer
      /\ asker'.wait = "completed" => observed.outcome # "none" /\ ~observed.rejected
      /\ UNCHANGED <<queryTree, said, heard, monitor, observed>>
  BY DEF EndWait, Asks, QueryTyped, Askers
<1>2. QueryTyped' /\ QueryStaged' /\ QueryOwned'
  BY <1>1 DEF QueryTyped, QueryStaged, QueryOwned, Opening
<1>3. Reported' /\ HeardAll'
  BY <1>1 DEF Reported, HeardAll, HeardOf
<1> QED
  BY <1>2, <1>3

(* The monitor goes on only when the Launcher has ended, and what it does    *)
(* starts nothing.                                                           *)
LEMMA MonitorKeeps == ASSUME QueryInv, AwaitLauncher \/ TerminateRemaining PROVE QueryInv'
<1> USE DEF QueryInv
<1>1. /\ monitor.stage \in {"waiting", "cleaning"} /\ monitor' \in Monitors
      /\ monitor'.stage \in {"cleaning", "joining"}
      /\ queryTree.root = "exited"
      /\ queryTree' \in {queryTree, Terminated(queryTree, 0)}
      /\ UNCHANGED <<asker, said, heard, observed>>
  <2>1. monitor \in Monitors
    BY DEF QueryTyped
  <2>2. CASE AwaitLauncher
    BY <2>1, <2>2 DEF AwaitLauncher, Monitors
  <2>3. CASE TerminateRemaining
    <3>1. monitor.stage = "cleaning" /\ queryTree.root = "exited"
      BY <2>3 DEF TerminateRemaining, QueryOwned
    <3>2. monitor' \in Monitors /\ monitor'.stage = "joining"
      <4>1. \/ monitor' = [monitor EXCEPT !.stage = "joining"]
            \/ monitor' = [stage |-> "joining", failed |-> TRUE]
        BY <2>3 DEF TerminateRemaining
      <4> QED
        <5>1. CASE monitor' = [monitor EXCEPT !.stage = "joining"]
          BY <2>1, <5>1 DEF Monitors
        <5>2. CASE monitor' = [stage |-> "joining", failed |-> TRUE]
          <6>1. [stage |-> "joining", failed |-> TRUE] \in Monitors
            BY DEF Monitors
          <6> QED
            BY <5>2, <6>1
        <5> QED
          BY <4>1, <5>1, <5>2
    <3>3. queryTree' \in {queryTree, Terminated(queryTree, 0)} /\ UNCHANGED <<asker, said, heard, observed>>
      BY <2>3 DEF TerminateRemaining
    <3> QED
      BY <3>1, <3>2, <3>3
  <2> QED
    BY <2>2, <2>3
<1>2. queryTree \in Launchers /\ queryTree \in Trees
  BY DEF QueryTyped, Launchers
<1>3. /\ Terminated(queryTree, 0) \in Launchers /\ Terminated(queryTree, 0).owned = queryTree.owned
      /\ Exists(Terminated(queryTree, 0)) => Exists(queryTree)
      /\ Runs(Terminated(queryTree, 0)) => Runs(queryTree)
      /\ Terminated(queryTree, 0).root = "exited" /\ Terminated(queryTree, 0).code = queryTree.code
  BY <1>1, <1>2, LauncherTrees, TerminatedTree
<1>4. /\ queryTree' \in Launchers /\ queryTree'.owned = queryTree.owned
      /\ Exists(queryTree') => Exists(queryTree)
      /\ Runs(queryTree') => Runs(queryTree)
      /\ queryTree'.root = "exited" /\ queryTree'.code = queryTree.code
  BY <1>1, <1>2, <1>3
<1>5. QueryTyped' /\ QueryStaged' /\ QueryOwned'
  BY <1>1, <1>4 DEF QueryTyped, QueryStaged, QueryOwned, Opening
<1>6. Reported' /\ HeardAll'
  BY <1>1, <1>4 DEF Reported, HeardAll, HeardOf
<1> QED
  BY <1>5, <1>6

(* The outcome is reported when both readers have ended.                     *)
LEMMA ReportKeeps == ASSUME QueryInv, ReportOutcome PROVE QueryInv'
<1> USE DEF QueryInv
<1>1. /\ monitor.stage = "joining" /\ monitor' \in Monitors /\ monitor'.stage = "ended"
      /\ \A s \in Streams : heard[s].post = "ended"
      /\ observed' \in Observers /\ observed'.rejected = observed.rejected
      /\ \A s \in Streams : observed'[s] = observed[s]
      /\ observed'.outcome # "none"
      /\ observed'.outcome = "zero" => queryTree.code = 0 /\ \A s \in Streams : ~heard[s].failed
      /\ UNCHANGED <<asker, queryTree, said, heard>>
  BY DEF ReportOutcome, QueryTyped, Monitors, Observers, Outcomes, Streams
<1>2. QueryTyped' /\ QueryStaged' /\ QueryOwned'
  BY <1>1 DEF QueryTyped, QueryStaged, QueryOwned, Opening
<1>3. Reported' /\ HeardAll'
  BY <1>1 DEF Reported, HeardAll, HeardOf
<1> QED
  BY <1>2, <1>3

(* A chunk of one stream is counted there alone.                             *)
LEMMA CountedOutput ==
  ASSUME NEW o \in Observers, NEW s \in Streams
  PROVE  /\ [o EXCEPT ![s] = @ + 1] \in Observers /\ [o EXCEPT ![s] = @ + 1][s] = o[s] + 1
         /\ [o EXCEPT ![s] = @ + 1].rejected = o.rejected
         /\ [o EXCEPT ![s] = @ + 1].outcome = o.outcome
         /\ \A q \in Streams \ {s} : [o EXCEPT ![s] = @ + 1][q] = o[q]
BY DEF Observers, Streams

(* A chunk is counted or rejected, before any outcome.                       *)
LEMMA HearKeeps == ASSUME QueryInv, NEW s \in Streams, HearOutput(s) \/ HearProgress(s) PROVE QueryInv'
<1> USE DEF QueryInv
<1>1. /\ heard[s].post = "reading" /\ heard[s].read < said[s]
      /\ heard' = [heard EXCEPT ![s].read = @ + 1]
      /\ \/ observed' = [observed EXCEPT !.rejected = TRUE]
         \/ ~observed.rejected /\ observed' = [observed EXCEPT ![s] = @ + 1]
      /\ UNCHANGED <<asker, queryTree, said, monitor>>
  BY DEF HearOutput, HearProgress
<1>2. heard[s].read \in Nat /\ said[s] \in Nat
  BY DEF QueryTyped, Hearers
<1>3. heard[s].read + 1 \in Nat /\ heard[s].read + 1 <= said[s]
  BY <1>1, <1>2
<1>4. /\ heard' \in [Streams -> Hearers] /\ heard'[s].read = heard[s].read + 1
      /\ heard'[s].post = "reading"
      /\ \A q \in Streams \ {s} : heard'[q] = heard[q]
  BY <1>1, <1>3 DEF QueryTyped, Hearers
<1>5. /\ observed' \in Observers /\ observed'.outcome = observed.outcome
      /\ observed.rejected => observed'.rejected
      /\ ~observed'.rejected => /\ observed'[s] = observed[s] + 1
                                /\ \A q \in Streams \ {s} : observed'[q] = observed[q]
  <2>1. CASE observed' = [observed EXCEPT !.rejected = TRUE]
    BY <2>1 DEF QueryTyped, Observers
  <2>2. CASE ~observed.rejected /\ observed' = [observed EXCEPT ![s] = @ + 1]
    <3>1. observed \in Observers
      BY DEF QueryTyped
    <3> QED
      BY <2>2, <3>1, CountedOutput
  <2> QED
    BY <1>1, <2>1, <2>2
<1>6. observed.outcome = "none" /\ asker.wait # "completed" /\ asker.answer # "document"
  BY <1>1 DEF Reported
<1>7. QueryTyped' /\ QueryOwned' /\ Reported'
  BY <1>1, <1>4, <1>5, <1>6 DEF QueryTyped, QueryOwned, Reported
<1>8. QueryStaged'
  BY <1>1, <1>4 DEF QueryStaged, Opening
<1>9. HeardOf(s)'
  BY <1>1, <1>3, <1>4, <1>5 DEF HeardAll, HeardOf
<1>10. ASSUME NEW q \in Streams \ {s} PROVE HeardOf(q)'
  BY <1>1, <1>4, <1>5 DEF HeardAll, HeardOf
<1> QED
  BY <1>7, <1>8, <1>9, <1>10 DEF HeardAll

(* A pipe that has ended without a failure has no writer left.               *)
LEMMA HearEndKeeps == ASSUME QueryInv, NEW s \in Streams, HearEnd(s) PROVE QueryInv'
<1> USE DEF QueryInv
<1>1. /\ heard[s].post = "reading"
      /\ heard' \in [Streams -> Hearers] /\ heard'[s].post = "ended" /\ heard'[s].read = heard[s].read
      /\ \/ heard[s].read = said[s] /\ ~Exists(queryTree)
         \/ heard'[s].failed
      /\ \A q \in Streams \ {s} : heard'[q] = heard[q]
      /\ UNCHANGED <<asker, queryTree, said, monitor, observed>>
  BY DEF HearEnd, QueryTyped, Hearers
<1>2. observed.outcome = "none"
  BY <1>1 DEF Reported
<1>3. QueryTyped' /\ QueryOwned' /\ Reported'
  BY <1>1, <1>2 DEF QueryTyped, QueryOwned, Reported
<1>4. QueryStaged'
  BY <1>1 DEF QueryStaged, Opening
<1>5. HeardOf(s)'
  BY <1>1 DEF HeardAll, HeardOf
<1>6. ASSUME NEW q \in Streams \ {s} PROVE HeardOf(q)'
  BY <1>1 DEF HeardAll, HeardOf
<1> QED
  BY <1>3, <1>4, <1>5, <1>6 DEF HeardAll

(* What is written comes from a process that exists.                         *)
LEMMA SayKeeps == ASSUME QueryInv, NEW s \in Streams, Say(s) PROVE QueryInv'
<1> USE DEF QueryInv
<1>1. /\ Exists(queryTree) /\ said' = [said EXCEPT ![s] = @ + 1]
      /\ UNCHANGED <<asker, queryTree, heard, monitor, observed>>
  BY DEF Say, Exists
<1>2. said[s] \in Nat /\ said[s] + 1 \in Nat
  BY DEF QueryTyped
<1>3. said' \in [Streams -> Nat] /\ said'[s] = said[s] + 1 /\ \A q \in Streams \ {s} : said'[q] = said[q]
  BY <1>1, <1>2 DEF QueryTyped
<1>4. QueryTyped' /\ QueryOwned' /\ Reported' /\ QueryStaged'
  BY <1>1, <1>3 DEF QueryTyped, QueryOwned, Reported, QueryStaged, Opening
<1>5. ASSUME NEW q \in Streams PROVE HeardOf(q)'
  <2>1. heard[q].read <= said[q] /\ heard[q].read \in Nat /\ said[q] \in Nat
    BY DEF HeardAll, HeardOf, QueryTyped, Hearers
  <2>2. said'[q] \in {said[q], said[q] + 1}
    BY <1>2, <1>3
  <2>3. heard[q].read <= said'[q]
    BY <2>1, <2>2
  <2> QED
    BY <1>1, <2>3 DEF HeardAll, HeardOf
<1> QED
  BY <1>4, <1>5 DEF HeardAll

(* What the processes do on their own starts none where none ran.            *)
LEMMA LiveOnKeeps == ASSUME QueryInv, LiveOn PROVE QueryInv'
<1> USE DEF QueryInv
<1>1. queryTree \in Launchers /\ queryTree \in Trees
  BY DEF QueryTyped, Launchers
<1>2. /\ queryTree' \in Launchers /\ queryTree'.owned = queryTree.owned
      /\ Exists(queryTree') => Exists(queryTree)
      /\ Runs(queryTree') => Runs(queryTree)
      /\ queryTree.root = "exited" => queryTree'.root = "exited" /\ queryTree'.code = queryTree.code
      /\ queryTree.root = "suspended" /\ ~Runs(queryTree) => queryTree' = queryTree
      /\ UNCHANGED <<asker, said, heard, monitor, observed>>
  BY <1>1, LivesTree, LauncherTrees DEF LiveOn, Lives, Runs
<1>3. QueryTyped' /\ QueryStaged'
  BY <1>2 DEF QueryTyped, QueryStaged, Opening
<1>4. QueryOwned'
  <2>1. asker.stage = "suspended" => queryTree'.root = "suspended"
    BY <1>2 DEF QueryOwned
  <2> QED
    BY <1>2, <2>1 DEF QueryOwned
<1>5. Reported' /\ HeardAll'
  BY <1>2 DEF Reported, HeardAll, HeardOf, QueryOwned
<1> QED
  BY <1>3, <1>4, <1>5

(* Nothing has been started, said or heard at first.                         *)
LEMMA QueryStarts == QueryInit => QueryInv
<1> SUFFICES ASSUME QueryInit PROVE QueryInv
  OBVIOUS
<1>1. QueryTyped
  BY FirstTrees DEF QueryInit, QueryTyped, Askers, Hearers, Monitors, Observers, Outcomes, Launchers
<1>2. QueryOwned /\ QueryStaged /\ Reported
  BY FirstTrees DEF QueryInit, QueryOwned, QueryStaged, Reported, Opening, Exists
<1>3. HeardAll
  BY DEF QueryInit, HeardAll, HeardOf, Streams
<1> QED
  BY <1>1, <1>2, <1>3 DEF QueryInv

(* Every step of a query keeps the invariant.                                *)
LEMMA QueryKept == ASSUME QueryInv, [QueryNext]_queryVars PROVE QueryInv'
<1>1. CASE UNCHANGED queryVars
  BY <1>1 DEF queryVars, QueryInv, QueryTyped, QueryOwned, QueryStaged, HeardAll, HeardOf, Reported
<1>2. CASE QueryNext
  BY <1>2, CreateKeeps, AssignKeeps, StartReaderKeeps, EndingKeeps, EndWaitKeeps, MonitorKeeps, ReportKeeps,
     HearKeeps, HearEndKeeps, SayKeeps, LiveOnKeeps DEF QueryNext
<1> QED
  BY <1>1, <1>2

(* A query that answers with a document answers with all that was written,   *)
(* by a Launcher that ended with zero on its own, and a query that has       *)
(* answered leaves no process (NativeEntryRunner, QueryObserver).            *)
THEOREM QueryAnswerWhole == QuerySpec => []AnswerIsWhole
<1>1. ASSUME QueryInv, asker.stage = "done" PROVE ~Runs(queryTree)
  BY <1>1 DEF QueryInv, QueryOwned
<1>2. ASSUME QueryInv, asker.answer = "document"
      PROVE  /\ observed.stdout = said["stdout"] /\ said["stderr"] = 0
             /\ queryTree.root = "exited" /\ queryTree.code = 0 /\ ~queryTree.killed
  <2>1. /\ observed.outcome = "zero" /\ observed.stderr = 0 /\ ~observed.rejected
        /\ monitor.stage = "ended" /\ queryTree.code = 0
        /\ \A s \in Streams : heard[s].post = "ended" /\ ~heard[s].failed
    BY <1>2 DEF QueryInv, Reported
  <2>2. ASSUME NEW s \in Streams PROVE observed[s] = said[s]
    BY <1>2, <2>1 DEF QueryInv, HeardAll, HeardOf
  <2>3. queryTree.root = "exited" /\ ~queryTree.killed
    BY <1>2, <2>1 DEF QueryInv, QueryOwned, QueryTyped, Launchers
  <2>4. observed["stdout"] = said["stdout"] /\ observed["stderr"] = said["stderr"]
    BY <2>2 DEF Streams
  <2> QED
    BY <2>1, <2>3, <2>4
<1>3. QueryInv => AnswerIsWhole
  BY <1>1, <1>2 DEF AnswerIsWhole
<1>4. QueryInv /\ [QueryNext]_queryVars => QueryInv'
  BY QueryKept
<1> QED
  BY QueryStarts, <1>3, <1>4, PTL DEF QuerySpec

-----------------------------------------------------------------------------
(* Contexts *)


AtWork == {"looking", "staging new", "staging", "replacing", "removing"}
Posts  == {"idle", "waiting"} \cup AtWork

(* The types of the variables, under names of their own.                    *)
Directories == [directory : BOOLEAN, document : Records \cup {NoRecord}, temporaries : Nat]
Turns == [post : Posts, op : Operations \cup {"none"}, id : Contexts \cup {"none"},
          draft : Records \cup {NoRecord}]

Typed ==
  /\ contexts \in [Contexts -> Directories]
  /\ partials \subseteq Consoles
  /\ contextLock \in Consoles \cup {"nobody"}
  /\ console \in [Consoles -> Turns]
  /\ accidents \in 0 .. MaxAccidents

Locked == \A p \in Consoles : contextLock = p <=> console[p].post \in AtWork

Drafted == \A p \in Consoles :
  /\ console[p].post # "idle" => console[p].id \in Contexts /\ console[p].op \in Operations
  /\ console[p].post = "staging new" => ~contexts[console[p].id].directory
  /\ console[p].post \in {"staging", "replacing"} =>
       /\ console[p].op \in Updates
       /\ contexts[console[p].id].document # NoRecord
       /\ console[p].draft \in Changed(console[p].op, contexts[console[p].id].document)

(* A document is in a directory.                                            *)
Placed == \A id \in Contexts : ~contexts[id].directory => contexts[id].document = NoRecord

(* A temporary file is one that a command is about to rename, or one that   *)
(* an accident has left.                                                    *)
Counted ==
  /\ \A id \in Contexts : contexts[id].temporaries <= accidents + 1
  /\ \A id \in Contexts :
       contexts[id].temporaries = accidents + 1 =>
         \E p \in Consoles : console[p].post = "replacing" /\ console[p].id = id
  /\ \A p \in Consoles :
       console[p].post = "replacing" => contexts[console[p].id].temporaries >= 1

Inv == Typed /\ Locked /\ Drafted /\ Placed /\ Counted

-----------------------------------------------------------------------------
(* What an update makes of a record is a record.                            *)
LEMMA ChangedTyped ==
  ASSUME NEW record \in Records, NEW op \in Updates, NEW r \in Changed(op, record)
  PROVE  r \in Records
<1> USE ContextAssumption
<1>1. CASE op = "add_commands"
  BY <1>1 DEF Changed, Records
<1>2. CASE op = "remove_commands"
  BY <1>2 DEF Changed, Records
<1>3. CASE op = "append_note"
  <2>1. r = [record EXCEPT !.notes = record.notes + 1] /\ r.notes <= MaxNotes
    BY <1>3 DEF Changed
  <2>2. record.notes \in 0 .. MaxNotes
    BY DEF Records
  <2>3. r.notes = record.notes + 1
    BY <2>1 DEF Records
  <2>4. record.notes + 1 \in 0 .. MaxNotes
    BY <2>1, <2>2, <2>3
  <2> QED
    BY <2>1, <2>4 DEF Records
<1>4. CASE op = "set_prompt"
  BY <1>4 DEF Changed, Records
<1> QED
  BY <1>1, <1>2, <1>3, <1>4 DEF Updates

(* A process that goes on to another post keeps the rest of its turn.       *)
LEMMA TurnTyped ==
  ASSUME console \in [Consoles -> Turns], NEW p \in Consoles, NEW post \in Posts, Turn(p, post)
  PROVE  /\ console' \in [Consoles -> Turns]
         /\ console'[p].post = post /\ console'[p].op = console[p].op
         /\ console'[p].id = console[p].id /\ console'[p].draft = console[p].draft
         /\ \A q \in Consoles \ {p} : console'[q] = console[q]
<1>1. console[p] \in Turns
  OBVIOUS
<1>2. [console[p] EXCEPT !.post = post] \in Turns
  BY <1>1 DEF Turns
<1>3. console' = [console EXCEPT ![p] = [console[p] EXCEPT !.post = post]]
  BY DEF Turn
<1> QED
  BY <1>1, <1>2, <1>3 DEF Turns

(* A process that leaves is idle and does not hold the lock.                *)
LEMMA LeaveTyped ==
  ASSUME console \in [Consoles -> Turns], contextLock \in Consoles \cup {"nobody"},
         NEW p \in Consoles, Leave(p)
  PROVE  /\ console' \in [Consoles -> Turns] /\ console'[p].post = "idle"
         /\ \A q \in Consoles \ {p} : console'[q] = console[q]
         /\ contextLock' = IF contextLock = p THEN "nobody" ELSE contextLock
         /\ contextLock' \in Consoles \cup {"nobody"}
<1>1. Idle \in Turns /\ Idle.post = "idle"
  BY DEF Idle, Turns, Posts
<1> QED
  BY <1>1 DEF Leave

(* The lock is given up by the process that leaves, and by no other.        *)
LEMMA LeaveLocked ==
  ASSUME Inv, NEW p \in Consoles, Leave(p)
  PROVE  Locked'
<1>1. /\ console'[p].post = "idle" /\ \A q \in Consoles \ {p} : console'[q] = console[q]
      /\ contextLock' = IF contextLock = p THEN "nobody" ELSE contextLock
  BY LeaveTyped DEF Inv, Typed
<1>2. p # "nobody" /\ Locked
  BY ConsoleAssumption DEF Inv
<1> QED
  BY <1>1, <1>2, ConsoleAssumption DEF Locked, AtWork

-----------------------------------------------------------------------------
(* The invariant holds of a DataRoot without contexts.                      *)
LEMMA Initially == ContextInit => Inv
<1> SUFFICES ASSUME ContextInit PROVE Inv
  OBVIOUS
<1>1. Missing \in Directories /\ Idle \in Turns
  BY DEF Missing, Directories, Idle, Turns, Posts
<1>2. accidents \in 0 .. MaxAccidents /\ accidents = 0
  BY ContextAssumption DEF ContextInit
<1>3. Typed
  BY <1>1, <1>2 DEF ContextInit, Typed
<1>4. Locked /\ Drafted
  BY ConsoleAssumption DEF ContextInit, Locked, Drafted, Idle, AtWork
<1>5. Placed /\ Counted
  BY <1>2 DEF ContextInit, Placed, Counted, Missing, Idle
<1> QED
  BY <1>3, <1>4, <1>5 DEF Inv

-----------------------------------------------------------------------------
(* There is a number of accidents.                                          *)
LEMMA AccidentsCounted == ASSUME Inv PROVE accidents \in Nat
<1>1. accidents \in 0 .. MaxAccidents
  BY DEF Inv, Typed
<1> QED
  BY <1>1, ContextAssumption

(* One more accident is within the bound.                                   *)
LEMMA AccidentTyped ==
  ASSUME accidents \in 0 .. MaxAccidents, Accident
  PROVE  accidents' \in 0 .. MaxAccidents
BY ContextAssumption DEF Accident

(* While one process is at work, no other is.                               *)
LEMMA Alone ==
  ASSUME Inv, NEW p \in Consoles, console[p].post \in AtWork, NEW q \in Consoles \ {p}
  PROVE  console[q].post \in {"idle", "waiting"} /\ contextLock = p
BY DEF Inv, Typed, Turns, Posts, Locked

(* A count within its bound is within it after one more accident, or none.  *)
LEMMA OneMore ==
  ASSUME NEW a \in Nat, NEW b, b = a \/ b = a + 1
  PROVE  /\ \A t \in Nat : t <= a + 1 => t <= b + 1 /\ (t = b + 1 => b = a)
         /\ b = a => b # a + 1
OBVIOUS

(* A step that leaves the contexts alone and puts its process to a post     *)
(* without a claim on them keeps what is said of the contexts.              *)
LEMMA Elsewhere ==
  ASSUME Inv, NEW p \in Consoles, contexts' = contexts, console' \in [Consoles -> Turns],
         accidents' = accidents \/ accidents' = accidents + 1,
         \A q \in Consoles \ {p} : console'[q] = console[q],
         console'[p].post \notin {"staging new", "staging", "replacing"},
         console'[p].post # "idle" => console'[p].id \in Contexts /\ console'[p].op \in Operations,
         \/ console[p].post # "replacing" \/ accidents' = accidents + 1
  PROVE  Drafted' /\ Placed' /\ Counted'
<1>1. Drafted'
  BY DEF Inv, Drafted
<1>2. Placed'
  BY DEF Inv, Placed
<1>3. Counted'
  <2>1. /\ \A id \in Contexts : contexts[id].temporaries <= accidents + 1
        /\ \A id \in Contexts :
             contexts[id].temporaries = accidents + 1 =>
               \E q \in Consoles : console[q].post = "replacing" /\ console[q].id = id
        /\ \A q \in Consoles :
             console[q].post = "replacing" => contexts[console[q].id].temporaries >= 1
    BY DEF Inv, Counted
  <2>2. accidents \in Nat
    BY AccidentsCounted
  <2>3. \A id \in Contexts : contexts[id].temporaries \in Nat
    BY DEF Inv, Typed, Directories
  <2>4. \A id \in Contexts : contexts'[id].temporaries <= accidents' + 1
    BY <2>1, <2>2, <2>3, OneMore
  <2>5. ASSUME NEW id \in Contexts, contexts'[id].temporaries = accidents' + 1
        PROVE  \E q \in Consoles : console'[q].post = "replacing" /\ console'[q].id = id
    <3>1. accidents' = accidents
      BY <2>1, <2>2, <2>3, <2>5, OneMore
    <3>2. PICK q \in Consoles : console[q].post = "replacing" /\ console[q].id = id
      BY <2>1, <2>5, <3>1
    <3>3. q # p
      BY <2>2, <3>1, <3>2, OneMore
    <3> QED
      BY <3>2, <3>3
  <2>6. ASSUME NEW q \in Consoles, console'[q].post = "replacing"
        PROVE  contexts'[console'[q].id].temporaries >= 1
    BY <2>1, <2>6
  <2> QED
    BY <2>4, <2>5, <2>6 DEF Counted
<1> QED
  BY <1>1, <1>2, <1>3

(* BeginCommand and AcquireLock                                             *)
LEMMA BeginKept == ASSUME Inv, NEW p \in Consoles, BeginCommand(p) PROVE Inv'
<1> USE DEF Inv, Typed
<1>1. PICK op \in Operations, id \in Contexts :
        console' = [console EXCEPT ![p] = [post |-> "waiting", op |-> op, id |-> id, draft |-> NoRecord]]
  BY DEF BeginCommand
<1>2. [post |-> "waiting", op |-> op, id |-> id, draft |-> NoRecord] \in Turns
  BY DEF Turns, Posts
<1>3. console' \in [Consoles -> Turns] /\ console'[p].post = "waiting"
      /\ console'[p].id = id /\ console'[p].op = op /\ \A q \in Consoles \ {p} : console'[q] = console[q]
  BY <1>1, <1>2
<1>4. Drafted' /\ Placed' /\ Counted'
  BY <1>3, Elsewhere DEF BeginCommand, Busy
<1>5. Typed' /\ Locked'
  BY <1>3 DEF BeginCommand, Busy, Locked, AtWork
<1> QED
  BY <1>4, <1>5

LEMMA AcquireKept == ASSUME Inv, NEW p \in Consoles, AcquireLock(p) PROVE Inv'
<1> USE DEF Inv, Typed
<1>1. "looking" \in Posts /\ Turn(p, "looking")
  BY DEF Posts, AtWork, AcquireLock
<1>2. /\ console' \in [Consoles -> Turns]
      /\ console'[p].post = "looking" /\ console'[p].op = console[p].op
      /\ console'[p].id = console[p].id
      /\ \A q \in Consoles \ {p} : console'[q] = console[q]
  BY <1>1, TurnTyped
<1>3. console[p].op \in Operations /\ console[p].id \in Contexts
  BY DEF AcquireLock, Busy, Drafted
<1>4. Drafted' /\ Placed' /\ Counted'
  BY <1>2, <1>3, Elsewhere DEF AcquireLock, Busy
<1>5. Typed'
  BY <1>2 DEF AcquireLock
<1>6. Locked'
  BY <1>2, ConsoleAssumption DEF AcquireLock, Busy, Locked, AtWork
<1> QED
  BY <1>4, <1>5, <1>6

(* CommandDies                                                              *)
LEMMA DiesKept == ASSUME Inv, NEW p \in Consoles, CommandDies(p) PROVE Inv'
<1> USE DEF Inv, Typed
<1>1. Leave(p) /\ contexts' = contexts /\ partials' = partials /\ accidents' = accidents + 1
  BY DEF CommandDies, Accident
<1>2. accidents' \in 0 .. MaxAccidents
  BY AccidentTyped DEF CommandDies
<1>3. /\ console' \in [Consoles -> Turns] /\ console'[p].post = "idle"
      /\ \A q \in Consoles \ {p} : console'[q] = console[q]
      /\ contextLock' \in Consoles \cup {"nobody"}
  BY <1>1, LeaveTyped
<1>4. Locked'
  BY <1>1, LeaveLocked
<1>5. Drafted' /\ Placed' /\ Counted'
  BY <1>1, <1>3, Elsewhere
<1> QED
  BY <1>1, <1>2, <1>3, <1>4, <1>5

-----------------------------------------------------------------------------
(* A step of the process at work that makes d of the directory of its       *)
(* context keeps the invariant if d is what the process then claims it is.  *)
LEMMA Rewritten ==
  ASSUME Inv, NEW p \in Consoles, console[p].post \in AtWork, NEW d \in Directories,
         contexts' = [contexts EXCEPT ![console[p].id] = d],
         accidents' = accidents \/ accidents' = accidents + 1,
         console' \in [Consoles -> Turns], \A q \in Consoles \ {p} : console'[q] = console[q],
         console'[p].post # "idle" => console'[p].id = console[p].id /\ console'[p].op = console[p].op,
         ~d.directory => d.document = NoRecord,
         d.temporaries <= accidents' + 1,
         d.temporaries = accidents' + 1 => console'[p].post = "replacing",
         console'[p].post = "replacing" => d.temporaries >= 1,
         console'[p].post = "staging new" => ~d.directory,
         console'[p].post \in {"staging", "replacing"} =>
           /\ console[p].op \in Updates /\ d.document # NoRecord
           /\ console'[p].draft \in Changed(console[p].op, d.document)
  PROVE  contexts' \in [Contexts -> Directories] /\ Drafted' /\ Placed' /\ Counted'
<1> DEFINE mine == console[p].id
<1>1. mine \in Contexts /\ console[p].op \in Operations
  BY DEF Inv, Drafted, AtWork
<1>2. contexts \in [Contexts -> Directories]
  BY DEF Inv, Typed
<1>3. \A q \in Consoles \ {p} : console'[q].post \in {"idle", "waiting"}
  BY Alone
<1>4. contexts'[mine] = d /\ \A id \in Contexts \ {mine} : contexts'[id] = contexts[id]
  BY <1>1, <1>2
<1> HIDE DEF mine
<1>5. contexts' \in [Contexts -> Directories]
  BY <1>1, <1>2 DEF mine
<1>6. Drafted'
  <2>1. ASSUME NEW q \in Consoles \ {p}, console'[q].post # "idle"
        PROVE  console'[q].id \in Contexts /\ console'[q].op \in Operations
    <3>1. console'[q] = console[q] /\ q \in Consoles
      OBVIOUS
    <3>2. \A c \in Consoles : console[c].post # "idle" =>
                                console[c].id \in Contexts /\ console[c].op \in Operations
      BY DEF Inv, Drafted
    <3>3. console[q].post # "idle"
      BY <2>1, <3>1
    <3>4. console[q].id \in Contexts /\ console[q].op \in Operations
      BY <3>1, <3>2, <3>3
    <3> QED
      BY <3>1, <3>4
  <2>2. ASSUME NEW q \in Consoles, console'[q].post # "idle"
        PROVE  console'[q].id \in Contexts /\ console'[q].op \in Operations
    <3>1. CASE q = p
      BY <1>1, <2>2, <3>1 DEF mine
    <3>2. CASE q # p
      BY <2>1, <2>2, <3>2
    <3> QED
      BY <3>1, <3>2
  <2>3. ASSUME NEW q \in Consoles, console'[q].post = "staging new"
        PROVE  ~contexts'[console'[q].id].directory
    <3>1. q = p
      BY <1>3, <2>3
    <3> QED
      BY <1>4, <2>3, <3>1 DEF mine
  <2>4. ASSUME NEW q \in Consoles, console'[q].post \in {"staging", "replacing"}
        PROVE  /\ console'[q].op \in Updates
               /\ contexts'[console'[q].id].document # NoRecord
               /\ console'[q].draft \in Changed(console'[q].op, contexts'[console'[q].id].document)
    <3>1. q = p
      BY <1>3, <2>4
    <3>2. contexts'[console'[p].id] = d /\ console'[p].op = console[p].op
      BY <1>4, <2>4, <3>1 DEF mine
    <3> QED
      BY <2>4, <3>1, <3>2
  <2> QED
    BY <2>2, <2>3, <2>4 DEF Drafted
<1>7. Placed'
  BY <1>1, <1>4 DEF Inv, Placed, mine
<1>8. Counted'
  <2>1. /\ \A id \in Contexts : contexts[id].temporaries <= accidents + 1
        /\ \A id \in Contexts :
             contexts[id].temporaries = accidents + 1 =>
               \E q \in Consoles : console[q].post = "replacing" /\ console[q].id = id
    BY DEF Inv, Counted
  <2>2. accidents \in Nat /\ \A id \in Contexts : contexts[id].temporaries \in Nat
    BY <1>2, AccidentsCounted DEF Directories
  <2>3. \A id \in Contexts : contexts'[id].temporaries <= accidents' + 1
    BY <1>4, <2>1, <2>2, OneMore
  <2>4. ASSUME NEW id \in Contexts, contexts'[id].temporaries = accidents' + 1
        PROVE  \E q \in Consoles : console'[q].post = "replacing" /\ console'[q].id = id
    <3>1. CASE id = mine
      BY <1>1, <1>4, <2>4, <3>1 DEF mine
    <3>2. CASE id # mine
      <4>1. contexts[id].temporaries = accidents + 1
        <5>1. /\ contexts[id].temporaries \in Nat /\ contexts[id].temporaries <= accidents + 1
              /\ contexts[id].temporaries = accidents' + 1
          BY <1>4, <2>1, <2>2, <2>4, <3>2
        <5>2. accidents' = accidents
          BY <2>2, <5>1, OneMore, ZenonT(60)
        <5> QED
          BY <5>1, <5>2
      <4>2. PICK q \in Consoles : console[q].post = "replacing" /\ console[q].id = id
        BY <2>1, <4>1
      <4>3. q = p
        BY <4>2, Alone
      <4> QED
        BY <3>2, <4>2, <4>3 DEF mine
    <3> QED
      BY <3>1, <3>2
  <2>5. ASSUME NEW q \in Consoles, console'[q].post = "replacing"
        PROVE  contexts'[console'[q].id].temporaries >= 1
    BY <1>3, <1>4, <2>5 DEF mine
  <2> QED
    BY <2>3, <2>4, <2>5 DEF Counted
<1> QED
  BY <1>5, <1>6, <1>7, <1>8

(* A step of the process at work that leaves the contexts as they are.      *)
LEMMA Looked ==
  ASSUME Inv, NEW p \in Consoles, console[p].post \in AtWork \ {"replacing"}, contexts' = contexts,
         accidents' = accidents,
         console' \in [Consoles -> Turns], \A q \in Consoles \ {p} : console'[q] = console[q],
         console'[p].post # "idle" => console'[p].id = console[p].id /\ console'[p].op = console[p].op,
         console'[p].post # "replacing",
         console'[p].post = "staging new" => ~contexts[console[p].id].directory,
         console'[p].post = "staging" =>
           /\ console[p].op \in Updates /\ contexts[console[p].id].document # NoRecord
           /\ console'[p].draft \in Changed(console[p].op, contexts[console[p].id].document)
  PROVE  Drafted' /\ Placed' /\ Counted'
<1> DEFINE d == contexts[console[p].id]
<1>1. console[p].id \in Contexts
  BY DEF Inv, Drafted, AtWork
<1>2. contexts \in [Contexts -> Directories] /\ d \in Directories
  BY <1>1 DEF Inv, Typed
<1>3. contexts' = [contexts EXCEPT ![console[p].id] = d]
  BY <1>1, <1>2
<1>4. ~d.directory => d.document = NoRecord
  BY <1>1 DEF Inv, Placed
<1>5. d.temporaries <= accidents' + 1
  BY <1>1 DEF Inv, Counted
<1>6. d.temporaries # accidents' + 1
  <2>1. ASSUME d.temporaries = accidents + 1 PROVE FALSE
    <3>1. PICK q \in Consoles : console[q].post = "replacing"
      BY <1>1, <2>1 DEF Inv, Counted
    <3>2. q = p
      BY <3>1, Alone
    <3> QED
      BY <3>1, <3>2
  <2> QED
    BY <2>1
<1> HIDE DEF d
<1>7. console'[p].post = "staging new" => ~d.directory
  BY DEF d
<1>8. console'[p].post \in {"staging", "replacing"} =>
        /\ console[p].op \in Updates /\ d.document # NoRecord
        /\ console'[p].draft \in Changed(console[p].op, d.document)
  BY DEF d
<1> QED
  BY <1>2, <1>3, <1>4, <1>5, <1>6, <1>7, <1>8, Rewritten

(* A process that leaves having made d of its directory.                    *)
LEMMA Left ==
  ASSUME Inv, NEW p \in Consoles, console[p].post \in AtWork, NEW d \in Directories,
         contexts' = [contexts EXCEPT ![console[p].id] = d], partials' \subseteq Consoles,
         accidents' = accidents \/ accidents' = accidents + 1, accidents' \in 0 .. MaxAccidents,
         ~d.directory => d.document = NoRecord, d.temporaries <= accidents', Leave(p)
  PROVE  Inv'
<1>1. /\ console' \in [Consoles -> Turns] /\ console'[p].post = "idle"
      /\ \A q \in Consoles \ {p} : console'[q] = console[q]
      /\ contextLock' \in Consoles \cup {"nobody"}
  BY LeaveTyped DEF Inv, Typed
<1>2. accidents' \in Nat /\ d.temporaries \in Nat
  BY ContextAssumption DEF Directories
<1>3. d.temporaries <= accidents' + 1 /\ d.temporaries # accidents' + 1
  BY <1>2
<1>4. contexts' \in [Contexts -> Directories] /\ Drafted' /\ Placed' /\ Counted'
  BY <1>1, <1>3, Rewritten
<1>5. Locked'
  BY LeaveLocked
<1> QED
  BY <1>1, <1>4, <1>5 DEF Inv, Typed

(* CreateContext and UpdateRecord                                           *)
LEMMA CreateKept == ASSUME Inv, NEW p \in Consoles, CreateContext(p) PROVE Inv'
<1>1. /\ console[p].post = "looking" /\ contexts' = contexts /\ accidents' = accidents
      /\ console \in [Consoles -> Turns] /\ contextLock \in Consoles \cup {"nobody"}
  BY DEF CreateContext, Busy, Inv, Typed
<1>2. CASE Leave(p) /\ UNCHANGED partials
  <2>1. /\ console' \in [Consoles -> Turns] /\ console'[p].post = "idle"
        /\ \A q \in Consoles \ {p} : console'[q] = console[q]
        /\ contextLock' \in Consoles \cup {"nobody"}
    BY <1>1, <1>2, LeaveTyped
  <2>2. Drafted' /\ Placed' /\ Counted'
    BY <1>1, <2>1, Elsewhere
  <2>3. Locked'
    BY <1>2, LeaveLocked
  <2> QED
    BY <1>1, <1>2, <2>1, <2>2, <2>3 DEF Inv, Typed
<1>3. CASE /\ ~contexts[console[p].id].directory /\ partials' = partials \cup {p}
           /\ Turn(p, "staging new") /\ UNCHANGED contextLock
  <2>1. "staging new" \in Posts
    BY DEF Posts, AtWork
  <2>2. /\ console' \in [Consoles -> Turns]
        /\ console'[p].post = "staging new" /\ console'[p].op = console[p].op
        /\ console'[p].id = console[p].id /\ \A q \in Consoles \ {p} : console'[q] = console[q]
    BY <1>1, <1>3, <2>1, TurnTyped
  <2>3. Drafted' /\ Placed' /\ Counted'
    BY <1>1, <1>3, <2>2, Looked DEF AtWork
  <2>4. Locked'
    BY <1>1, <1>3, <2>2 DEF Inv, Locked, AtWork
  <2> QED
    BY <1>1, <1>3, <2>2, <2>3, <2>4 DEF Inv, Typed
<1> QED
  BY <1>2, <1>3 DEF CreateContext

LEMMA UpdateKept == ASSUME Inv, NEW p \in Consoles, UpdateRecord(p) PROVE Inv'
<1> DEFINE record == contexts[console[p].id].document
<1>1. /\ console[p].post = "looking" /\ contexts' = contexts /\ accidents' = accidents
      /\ partials' = partials /\ console[p].op \in Updates
      /\ console \in [Consoles -> Turns] /\ contextLock \in Consoles \cup {"nobody"}
  BY DEF UpdateRecord, Busy, Inv, Typed
<1>2. CASE Leave(p)
  <2>1. /\ console' \in [Consoles -> Turns] /\ console'[p].post = "idle"
        /\ \A q \in Consoles \ {p} : console'[q] = console[q]
        /\ contextLock' \in Consoles \cup {"nobody"}
    BY <1>1, <1>2, LeaveTyped
  <2>2. Drafted' /\ Placed' /\ Counted'
    BY <1>1, <2>1, Elsewhere
  <2>3. Locked'
    BY <1>2, LeaveLocked
  <2> QED
    BY <1>1, <1>2, <2>1, <2>2, <2>3 DEF Inv, Typed
<1>3. CASE /\ record # NoRecord /\ UNCHANGED contextLock
           /\ \E changed \in Changed(console[p].op, record) :
                console' = [console EXCEPT ![p].draft = changed, ![p].post = "staging"]
  <2>1. PICK changed \in Changed(console[p].op, record) :
          console' = [console EXCEPT ![p].draft = changed, ![p].post = "staging"]
    BY <1>3
  <2>2. console[p].id \in Contexts
    BY <1>1 DEF Inv, Drafted
  <2>3. record \in Records
    BY <1>3, <2>2 DEF Inv, Typed, Directories
  <2>4. changed \in Records
    BY <1>1, <2>3, ChangedTyped
  <2>5. console[p] \in Turns
    BY <1>1
  <2>6. /\ [console[p] EXCEPT !.draft = changed, !.post = "staging"] \in Turns
    BY <2>4, <2>5 DEF Turns, Posts, AtWork
  <2>7. console' = [console EXCEPT ![p] = [console[p] EXCEPT !.draft = changed, !.post = "staging"]]
    BY <2>1
  <2>8. /\ console' \in [Consoles -> Turns]
        /\ console'[p].post = "staging" /\ console'[p].op = console[p].op
        /\ console'[p].draft = changed
        /\ console'[p].id = console[p].id /\ \A q \in Consoles \ {p} : console'[q] = console[q]
    BY <1>1, <2>5, <2>6, <2>7 DEF Turns
  <2>9. Drafted' /\ Placed' /\ Counted'
    BY <1>1, <1>3, <2>8, Looked DEF AtWork
  <2>10. Locked'
    BY <1>1, <1>3, <2>8 DEF Inv, Locked, AtWork
  <2> QED
    BY <1>1, <1>3, <2>8, <2>9, <2>10 DEF Inv, Typed
<1> QED
  BY <1>2, <1>3 DEF UpdateRecord

(* PublishNewRecord                                                         *)
LEMMA NewKept == ASSUME Inv, NEW p \in Consoles, PublishNewRecord(p) PROVE Inv'
<1>1. /\ console[p].post = "staging new" /\ Leave(p) /\ accidents \in Nat
      /\ accidents \in 0 .. MaxAccidents
      /\ contexts \in [Contexts -> Directories] /\ partials \subseteq Consoles
  BY AccidentsCounted DEF PublishNewRecord, Busy, Inv, Typed
<1>2. console[p].id \in Contexts
  BY <1>1 DEF Inv, Drafted
<1>3. CASE /\ contexts' = [contexts EXCEPT ![console[p].id] =
                             [directory |-> TRUE, document |-> Empty, temporaries |-> 0]]
           /\ partials' = partials \ {p} /\ UNCHANGED accidents
  <2> DEFINE d == [directory |-> TRUE, document |-> Empty, temporaries |-> 0]
  <2>1. Empty \in Records
    BY ContextAssumption DEF Empty, Records
  <2>2. d \in Directories /\ d.directory /\ d.temporaries = 0
    BY <2>1 DEF Directories
  <2>3. d.temporaries <= accidents'
    <3>1. accidents' = accidents
      BY <1>3
    <3>2. accidents \in Nat
      BY AccidentsCounted
    <3>3. 0 <= accidents
      BY <3>2
    <3> QED
      BY <2>2, <3>1, <3>3
  <2>4. partials' \subseteq Consoles
    BY <1>1, <1>3
  <2>5. contexts' = [contexts EXCEPT ![console[p].id] = d]
    BY <1>3
  <2> HIDE DEF d
  <2> QED
    BY <1>1, <1>3, <2>2, <2>3, <2>4, <2>5, Left DEF AtWork
<1>4. CASE Accident /\ UNCHANGED contexts /\ partials' \in {partials, partials \ {p}}
  <2>1. accidents' = accidents + 1 /\ accidents < MaxAccidents
    BY <1>4 DEF Accident
  <2>2. accidents' \in 0 .. MaxAccidents
    BY <1>1, <1>4, AccidentTyped
  <2>3. /\ console' \in [Consoles -> Turns] /\ console'[p].post = "idle"
        /\ \A q \in Consoles \ {p} : console'[q] = console[q]
        /\ contextLock' \in Consoles \cup {"nobody"}
    BY <1>1, LeaveTyped DEF Inv, Typed
  <2>4. Drafted' /\ Placed' /\ Counted'
    BY <1>4, <2>1, <2>3, Elsewhere
  <2>5. Locked'
    BY <1>1, LeaveLocked
  <2> QED
    BY <1>1, <1>4, <2>2, <2>3, <2>4, <2>5 DEF Inv, Typed
<1> QED
  BY <1>3, <1>4 DEF PublishNewRecord

(* WriteTemporary                                                           *)
LEMMA WriteKept == ASSUME Inv, NEW p \in Consoles, WriteTemporary(p) PROVE Inv'
<1> DEFINE old == contexts[console[p].id]
<1>1. /\ console[p].post = "staging" /\ Turn(p, "replacing") /\ accidents' = accidents
      /\ contexts' = [contexts EXCEPT ![console[p].id] = [old EXCEPT !.temporaries = old.temporaries + 1]]
      /\ UNCHANGED <<partials, contextLock>>
      /\ contexts \in [Contexts -> Directories] /\ console \in [Consoles -> Turns]
  BY DEF WriteTemporary, Busy, Inv, Typed
<1>2. /\ console[p].id \in Contexts /\ console[p].op \in Updates /\ old.document # NoRecord
      /\ console[p].draft \in Changed(console[p].op, old.document)
  BY <1>1 DEF Inv, Drafted
<1>3. old \in Directories /\ old.temporaries \in Nat /\ accidents \in Nat
  BY <1>1, <1>2, AccidentsCounted DEF Directories
<1>4. old.temporaries <= accidents + 1 /\ old.temporaries # accidents + 1
  <2>1. old.temporaries <= accidents + 1
    BY <1>2 DEF Inv, Counted
  <2>2. ASSUME old.temporaries = accidents + 1 PROVE FALSE
    <3>1. PICK q \in Consoles : console[q].post = "replacing"
      BY <1>2, <2>2 DEF Inv, Counted
    <3>2. q = p
      BY <1>1, <3>1, Alone DEF AtWork
    <3> QED
      BY <1>1, <3>1, <3>2
  <2> QED
    BY <2>1, <2>2
<1> DEFINE d == [old EXCEPT !.temporaries = old.temporaries + 1]
<1>5. old.temporaries + 1 \in Nat
  BY <1>3
<1>6. /\ d \in Directories /\ d.directory = old.directory /\ d.document = old.document
      /\ d.temporaries = old.temporaries + 1
  BY <1>3, <1>5 DEF Directories
<1>7. d.temporaries <= accidents' + 1 /\ d.temporaries >= 1
  BY <1>1, <1>3, <1>4, <1>6
<1>8. ~d.directory => d.document = NoRecord
  BY <1>2, <1>6 DEF Inv, Placed
<1>9. contexts' = [contexts EXCEPT ![console[p].id] = d]
  BY <1>1
<1>10. "replacing" \in Posts
  BY DEF Posts, AtWork
<1>11. /\ console' \in [Consoles -> Turns]
       /\ console'[p].post = "replacing" /\ console'[p].op = console[p].op
       /\ console'[p].draft = console[p].draft
       /\ console'[p].id = console[p].id /\ \A q \in Consoles \ {p} : console'[q] = console[q]
  BY <1>1, <1>10, TurnTyped
<1>12. d.document # NoRecord /\ console'[p].draft \in Changed(console[p].op, d.document)
  BY <1>2, <1>6, <1>11
<1> HIDE DEF d, old
<1>13. contexts' \in [Contexts -> Directories] /\ Drafted' /\ Placed' /\ Counted'
  BY <1>1, <1>2, <1>6, <1>7, <1>8, <1>9, <1>11, <1>12, Rewritten DEF AtWork
<1>14. Locked'
  BY <1>1, <1>11 DEF Inv, Locked, AtWork
<1> QED
  BY <1>1, <1>11, <1>13, <1>14 DEF Inv, Typed

(* PublishRecord                                                            *)
LEMMA PublishKept == ASSUME Inv, NEW p \in Consoles, PublishRecord(p) PROVE Inv'
<1> DEFINE old == contexts[console[p].id]
<1>1. /\ console[p].post = "replacing" /\ Leave(p) /\ partials' = partials
      /\ contexts \in [Contexts -> Directories] /\ console \in [Consoles -> Turns]
      /\ partials \subseteq Consoles /\ accidents \in 0 .. MaxAccidents
  BY DEF PublishRecord, Busy, Inv, Typed
<1>2. /\ console[p].id \in Contexts /\ console[p].op \in Updates /\ old.document # NoRecord
      /\ console[p].draft \in Changed(console[p].op, old.document)
  BY <1>1 DEF Inv, Drafted
<1>3. old \in Directories /\ old.temporaries \in Nat /\ accidents \in Nat
  BY <1>1, <1>2, AccidentsCounted DEF Directories
<1>4. old.temporaries <= accidents + 1 /\ old.temporaries >= 1
  BY <1>1, <1>2 DEF Inv, Counted
<1>5. old.directory
  BY <1>2 DEF Inv, Placed
<1>6. old.document \in Records /\ console[p].draft \in Records
  BY <1>2, <1>3, ChangedTyped DEF Directories
<1>7. CASE /\ contexts' = [contexts EXCEPT ![console[p].id].temporaries = old.temporaries - 1,
                                          ![console[p].id].document = console[p].draft]
           /\ UNCHANGED accidents
  <2> DEFINE d == [old EXCEPT !.temporaries = old.temporaries - 1, !.document = console[p].draft]
  <2>1. old.temporaries - 1 \in Nat /\ old.temporaries - 1 <= accidents
    BY <1>3, <1>4
  <2>2. d \in Directories /\ d.directory = old.directory /\ d.temporaries = old.temporaries - 1
    BY <1>3, <1>6, <2>1 DEF Directories
  <2>3. contexts' = [contexts EXCEPT ![console[p].id] = d]
    BY <1>1, <1>2, <1>7
  <2> HIDE DEF d, old
  <2> QED
    BY <1>1, <1>5, <1>7, <2>1, <2>2, <2>3, Left, ZenonT(60) DEF AtWork
<1>8. CASE Accident /\ contexts' \in {contexts, [contexts EXCEPT ![console[p].id].document = NoRecord]}
  <2>1. accidents' = accidents + 1 /\ accidents < MaxAccidents
    BY <1>8 DEF Accident
  <2>2. accidents' \in 0 .. MaxAccidents /\ old.temporaries <= accidents'
    BY <1>1, <1>3, <1>4, <2>1, ContextAssumption
  <2>3. CASE contexts' = contexts
    <3>1. contexts' = [contexts EXCEPT ![console[p].id] = old]
      BY <1>1, <1>2, <2>3
    <3> HIDE DEF old
    <3> QED
      BY <1>1, <1>3, <1>5, <2>1, <2>2, <3>1, Left DEF AtWork
  <2>4. CASE contexts' = [contexts EXCEPT ![console[p].id].document = NoRecord]
    <3> DEFINE d == [old EXCEPT !.document = NoRecord]
    <3>1. d \in Directories /\ d.directory = old.directory /\ d.temporaries = old.temporaries
      BY <1>3 DEF Directories
    <3>2. contexts' = [contexts EXCEPT ![console[p].id] = d]
      BY <1>1, <1>2, <2>4
    <3> HIDE DEF d, old
    <3> QED
      BY <1>1, <1>5, <2>1, <2>2, <3>1, <3>2, Left DEF AtWork
  <2> QED
    BY <1>8, <2>3, <2>4
<1> QED
  BY <1>7, <1>8 DEF PublishRecord

(* DeleteRecord and RemoveDirectory                                         *)
LEMMA DeleteKept == ASSUME Inv, NEW p \in Consoles, DeleteRecord(p) PROVE Inv'
<1> DEFINE old == contexts[console[p].id]
<1>1. /\ console[p].post = "looking" /\ UNCHANGED <<partials, accidents>>
      /\ contexts \in [Contexts -> Directories] /\ console \in [Consoles -> Turns]
      /\ partials \subseteq Consoles /\ accidents \in 0 .. MaxAccidents
      /\ contextLock \in Consoles \cup {"nobody"}
  BY DEF DeleteRecord, Busy, Inv, Typed
<1>2. console[p].id \in Contexts
  BY <1>1 DEF Inv, Drafted
<1>3. CASE Leave(p) /\ UNCHANGED contexts
  <2>1. /\ console' \in [Consoles -> Turns] /\ console'[p].post = "idle"
        /\ \A q \in Consoles \ {p} : console'[q] = console[q]
        /\ contextLock' \in Consoles \cup {"nobody"}
    BY <1>1, <1>3, LeaveTyped
  <2>2. Drafted' /\ Placed' /\ Counted'
    BY <1>1, <1>3, <2>1, Elsewhere
  <2>3. Locked'
    BY <1>3, LeaveLocked
  <2> QED
    BY <1>1, <1>3, <2>1, <2>2, <2>3 DEF Inv, Typed
<1>4. CASE /\ old.temporaries = 0 /\ contexts' = [contexts EXCEPT ![console[p].id].document = NoRecord]
           /\ Turn(p, "removing") /\ UNCHANGED contextLock
  <2> DEFINE d == [old EXCEPT !.document = NoRecord]
  <2>1. old \in Directories /\ accidents \in Nat
    BY <1>1, <1>2, AccidentsCounted
  <2>2. d \in Directories /\ d.document = NoRecord /\ d.temporaries = 0
    BY <1>4, <2>1 DEF Directories
  <2>3. contexts' = [contexts EXCEPT ![console[p].id] = d]
    BY <1>1, <1>2, <1>4
  <2>4. accidents' = accidents
    BY <1>1
  <2>5. d.temporaries <= accidents' + 1 /\ d.temporaries # accidents' + 1
    BY <2>1, <2>2, <2>4
  <2>6. "removing" \in Posts
    BY DEF Posts, AtWork
  <2>7. /\ console' \in [Consoles -> Turns]
        /\ console'[p].post = "removing" /\ console'[p].op = console[p].op
        /\ console'[p].id = console[p].id /\ \A q \in Consoles \ {p} : console'[q] = console[q]
    BY <1>1, <1>4, <2>6, TurnTyped
  <2> HIDE DEF d, old
  <2>8. contexts' \in [Contexts -> Directories] /\ Drafted' /\ Placed' /\ Counted'
    BY <1>1, <2>2, <2>3, <2>4, <2>5, <2>7, Rewritten DEF AtWork
  <2>9. Locked'
    BY <1>1, <1>4, <2>7 DEF Inv, Locked, AtWork
  <2> QED
    BY <1>1, <1>4, <2>7, <2>8, <2>9 DEF Inv, Typed
<1> QED
  BY <1>3, <1>4 DEF DeleteRecord

LEMMA RemoveKept == ASSUME Inv, NEW p \in Consoles, RemoveDirectory(p) PROVE Inv'
<1>1. /\ console[p].post = "removing" /\ Leave(p) /\ partials' = partials
      /\ contexts \in [Contexts -> Directories] /\ console \in [Consoles -> Turns]
      /\ partials \subseteq Consoles /\ accidents \in 0 .. MaxAccidents
      /\ contextLock \in Consoles \cup {"nobody"}
  BY DEF RemoveDirectory, Busy, Inv, Typed
<1>2. CASE contexts' = [contexts EXCEPT ![console[p].id] = Missing] /\ UNCHANGED accidents
  <2>1. /\ Missing \in Directories /\ Missing.temporaries = 0 /\ Missing.document = NoRecord
    BY DEF Missing, Directories
  <2>2. accidents' = accidents
    BY <1>2
  <2>3. accidents \in Nat
    BY AccidentsCounted
  <2>4. 0 <= accidents
    BY <2>3
  <2>5. Missing.temporaries <= accidents'
    BY <2>1, <2>2, <2>4
  <2> QED
    BY <1>1, <1>2, <2>1, <2>2, <2>5, Left DEF AtWork
<1>3. CASE Accident /\ UNCHANGED contexts
  <2>1. accidents' = accidents + 1 /\ accidents' \in 0 .. MaxAccidents
    BY <1>1, <1>3, AccidentTyped DEF Accident
  <2>2. /\ console' \in [Consoles -> Turns] /\ console'[p].post = "idle"
        /\ \A q \in Consoles \ {p} : console'[q] = console[q]
        /\ contextLock' \in Consoles \cup {"nobody"}
    BY <1>1, LeaveTyped
  <2>3. Drafted' /\ Placed' /\ Counted'
    BY <1>3, <2>1, <2>2, Elsewhere
  <2>4. Locked'
    BY <1>1, LeaveLocked
  <2> QED
    BY <1>1, <1>3, <2>1, <2>2, <2>3, <2>4 DEF Inv, Typed
<1> QED
  BY <1>2, <1>3 DEF RemoveDirectory

-----------------------------------------------------------------------------
(* The invariant holds in every state of every behaviour. *)
LEMMA Invariance == ContextSpec => []Inv
<1>1. ASSUME Inv, [ContextNext]_contextVars PROVE Inv'
  <2>1. CASE UNCHANGED contextVars
    BY <1>1, <2>1 DEF contextVars, Inv, Typed, Locked, Drafted, Placed, Counted
  <2>2. ASSUME NEW p \in Consoles, ContextStep(p) PROVE Inv'
    BY <1>1, <2>2, BeginKept, AcquireKept, DiesKept, CreateKept, NewKept, UpdateKept, WriteKept,
       PublishKept, DeleteKept, RemoveKept DEF ContextStep
  <2> QED
    BY <1>1, <2>1, <2>2 DEF ContextNext
<1> QED
  BY Initially, <1>1, PTL DEF ContextSpec

(* Every variable has its type: no accident leaves more than one temporary   *)
(* file behind (publish_record).                                             *)
THEOREM ContextsTyped == ContextSpec => []ContextTypeOK
<1>1. ASSUME Inv PROVE ContextTypeOK
  <2>1. accidents \in 0 .. MaxAccidents /\ accidents \in Nat
    BY <1>1, AccidentsCounted DEF Inv, Typed
  <2>2. ASSUME NEW id \in Contexts
        PROVE  contexts[id] \in [directory : BOOLEAN, document : Records \cup {NoRecord},
                                 temporaries : 0 .. MaxAccidents + 1]
    <3>1. contexts[id] \in Directories /\ contexts[id].temporaries <= accidents + 1
      BY <1>1 DEF Inv, Typed, Counted
    <3>2. contexts[id].temporaries \in Nat
      BY <3>1 DEF Directories
    <3>3. contexts[id].temporaries \in 0 .. MaxAccidents + 1
      BY <2>1, <3>1, <3>2, ContextAssumption
    <3> QED
      BY <3>1, <3>3 DEF Directories
  <2>3. contexts = [id \in Contexts |-> contexts[id]]
    BY <1>1 DEF Inv, Typed
  <2> QED
    BY <1>1, <2>2, <2>3 DEF Inv, Typed, ContextTypeOK, Turns, Posts, AtWork
<1> QED
  BY Invariance, <1>1, PTL

(* A change of a saved context is one command's change of what the command   *)
(* before it has left, however many consoles edit it and are killed.         *)
THEOREM CommittedStay == ContextSpec => CommittedStays
<1> DEFINE Change(id) ==
      contexts'[id].document \notin {contexts[id].document, NoRecord} =>
        IF contexts[id].document = NoRecord THEN contexts'[id].document = Empty
        ELSE \E op \in Updates : contexts'[id].document \in Changed(op, contexts[id].document)
<1>1. ASSUME Inv, NEW p \in Consoles, ContextStep(p), NEW id \in Contexts PROVE Change(id)
  <2>1. contexts \in [Contexts -> Directories] /\ console[p] \in Turns
    BY <1>1 DEF Inv, Typed
  <2>2. CASE contexts' = contexts
    BY <2>2
  <2>3. CASE contexts' = [contexts EXCEPT ![console[p].id].document = NoRecord]
    BY <2>1, <2>3
  <2>4. CASE PublishNewRecord(p)
    <3>1. contexts[console[p].id].document = NoRecord
      BY <1>1, <2>4 DEF Inv, Drafted, Placed, PublishNewRecord, Busy
    <3> DEFINE new == [directory |-> TRUE, document |-> Empty, temporaries |-> 0]
    <3>2. contexts' = contexts \/ contexts' = [contexts EXCEPT ![console[p].id] = new]
      BY <2>4, Zenon DEF PublishNewRecord
    <3>3. new.document = Empty
      OBVIOUS
    <3> HIDE DEF new
    <3>4. contexts'[id].document \in {contexts[id].document, Empty}
      BY <2>1, <3>2, <3>3
    <3>5. CASE id = console[p].id
      BY <3>1, <3>4, <3>5
    <3>6. CASE id # console[p].id
      BY <2>1, <3>2, <3>6
    <3> QED
      BY <3>5, <3>6
  <2>5. CASE WriteTemporary(p)
    BY <2>1, <2>5 DEF WriteTemporary, Directories
  <2>6. CASE PublishRecord(p)
    <3>1. /\ console[p].op \in Updates /\ contexts[console[p].id].document # NoRecord
          /\ console[p].draft \in Changed(console[p].op, contexts[console[p].id].document)
      BY <1>1, <2>6 DEF Inv, Drafted, PublishRecord, Busy
    <3>2. contexts'[id].document \in {contexts[id].document, NoRecord, console[p].draft}
      BY <2>1, <2>6 DEF PublishRecord, Directories
    <3>3. CASE id = console[p].id
      BY <3>1, <3>2, <3>3
    <3>4. CASE id # console[p].id
      BY <2>1, <2>6, <3>4 DEF PublishRecord
    <3> QED
      BY <3>3, <3>4
  <2>7. CASE RemoveDirectory(p)
    <3>1. Missing.document = NoRecord
      BY DEF Missing
    <3> QED
      BY <2>1, <2>7, <3>1 DEF RemoveDirectory
  <2> QED
    BY <1>1, <2>2, <2>3, <2>4, <2>5, <2>6, <2>7 DEF ContextStep, BeginCommand, AcquireLock, CreateContext,
       UpdateRecord, DeleteRecord, CommandDies
<1>2. ASSUME Inv, [ContextNext]_contextVars
      PROVE  [\A id \in Contexts : Change(id)]_contextVars
  BY <1>1, <1>2 DEF ContextNext
<1>3. CommittedStays <=> [][\A id \in Contexts : Change(id)]_contextVars
  BY PTL DEF CommittedStays
<1> QED
  BY Invariance, <1>2, <1>3, PTL DEF ContextSpec
=============================================================================
