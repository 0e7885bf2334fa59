---------------------------- MODULE ProcessTree ----------------------------
(***************************************************************************)
(* One process tree and the Job Object that owns it (process_job.rs), as   *)
(* operators on a record: the root process, a process that it may leave    *)
(* behind, and what the two have written to the root's pipes.              *)
(***************************************************************************)
EXTENDS Naturals

Streams == {"stdout", "stderr"}

NoProcess == [root |-> "none", code |-> 0, killed |-> FALSE, helper |-> FALSE, owned |-> FALSE]

Trees == [root : {"none", "suspended", "running", "exited"}, code : {0, 1}, killed : BOOLEAN,
          helper : BOOLEAN, owned : BOOLEAN]

Runs(tree)   == tree.root = "running" \/ tree.helper
Exists(tree) == Runs(tree) \/ tree.root = "suspended"

(* The Launcher, or a command, is created with CREATE_SUSPENDED.            *)
Suspended == [NoProcess EXCEPT !.root = "suspended"]

(* assign_and_resume, and what it leaves when only the second half fails.   *)
Assigned(tree) == [tree EXCEPT !.owned = TRUE]
Resumed(tree)  == [tree EXCEPT !.owned = TRUE, !.root = "running"]

KilledRoot(tree, code) ==
  IF tree.root \in {"suspended", "running"}
  THEN [tree EXCEPT !.root = "exited", !.code = code, !.killed = TRUE]
  ELSE tree

(* TerminateJobObject reaches every process of the Job.                     *)
Terminated(tree, code) ==
  IF tree.owned THEN [KilledRoot(tree, code) EXCEPT !.helper = FALSE] ELSE tree

(* JOB_OBJECT_LIMIT_KILL_ON_JOB_CLOSE: so does closing its last handle.     *)
Closed(tree) == [Terminated(tree, 1) EXCEPT !.owned = FALSE]

(* What the processes do on their own.                                      *)
Lives(tree) ==
  {[tree EXCEPT !.root = "exited", !.code = code] : code \in {c \in {0, 1} : tree.root = "running"}}
    \cup {[tree EXCEPT !.helper = h] : h \in {h \in BOOLEAN : IF h THEN tree.root = "running"
                                                                   ELSE tree.helper}}
=============================================================================
