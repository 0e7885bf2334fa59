----------------------------- MODULE RunStream -----------------------------
(***************************************************************************)
(* The events of one command run on their way to a web page                *)
(* (server/command_run/registry/run.rs, web/command-run.js,                *)
(* command-run-client.js and command-run-output.js): the Host keeps a      *)
(* window of the latest events, the page polls with a cursor, cancels,     *)
(* retries what failed, and after a reload finds its run again by the id   *)
(* in its session storage.  Requests and answers may overtake each other.  *)
(* An answer that is no run document, after which the page asks its user to *)
(* load it again, is left out.                                             *)
(***************************************************************************)
EXTENDS Integers, Sequences

CONSTANTS WindowSize,   \* MAX_OUTPUT_EVENTS, of the Host and of the page
          MaxSent,    \* bound on the events of the run
          MaxVersion    \* bound on pollVersion: one request of each is in flight

ASSUME StreamAssumption == WindowSize \in Nat /\ MaxSent \in Nat /\ MaxVersion \in Nat \ {0}

VARIABLES
  run,        \* CommandRun: its state and the window first .. next of its events
  page,       \* what the page shows and remembers
  requests,   \* the request that each pollVersion has in flight
  deletion    \* the DELETE in flight

streamVars == <<run, page, requests, deletion>>

-----------------------------------------------------------------------------
Final    == {"exited", "canceled", "failed"}
Underway == {"running", "canceling"}
Versions0 == 0 .. MaxVersion

Documents == [status : Underway \cup Final, first : 1 .. MaxSent + 1, next : 0 .. MaxSent,
              truncated : BOOLEAN]
NoDocument == [status |-> "absent", first |-> 1, next |-> 0, truncated |-> FALSE]

NoRequest == [kind |-> "none", stage |-> "none", after |-> 0, doc |-> NoDocument]

StreamTypeOK ==
  /\ run \in [doc : Documents \cup {NoDocument}, broken : BOOLEAN, known : BOOLEAN]
  /\ page \in [state : {"none", "lost"} \cup Underway \cup Final, truncated : BOOLEAN,
               clipped : BOOLEAN, cursor : 0 .. MaxSent,
               shown : Seq(1 .. MaxSent),
               version : Versions0, timer : Versions0 \cup {-1},
               awaiting : {"poll", "restore"}, restoring : BOOLEAN, submitting : BOOLEAN,
               stored : BOOLEAN]
  /\ Len(page.shown) <= WindowSize
  /\ requests \in [Versions0 -> [kind : {"none", "post", "poll", "restore"},
                                stage : {"none", "sent", "answered", "gone", "failed"},
                                after : 0 .. MaxSent, doc : Documents \cup {NoDocument}]]
  /\ deletion \in [stage : {"none", "sent", "done", "failed"}, version : Versions0]

BlankPage == [state |-> "none", truncated |-> FALSE, clipped |-> FALSE, cursor |-> 0, shown |-> <<>>,
              version |-> 0, timer |-> -1, awaiting |-> "poll", restoring |-> FALSE,
              submitting |-> FALSE, stored |-> FALSE]

NoDeletion == [stage |-> "none", version |-> 0]

StreamInit ==
  /\ run = [doc |-> NoDocument, broken |-> FALSE, known |-> FALSE]
  /\ page = BlankPage
  /\ requests = [v \in Versions0 |-> NoRequest]
  /\ deletion = NoDeletion

-----------------------------------------------------------------------------
(* The Host.                                                                *)

(* append_journal_event: the oldest events leave when there are too many,   *)
(* or when they hold too many bytes, be it all of them.  Once the journal   *)
(* has failed, nothing is appended.                                         *)
AppendEvent ==
  /\ run.doc.status \in Underway /\ run.doc.next < MaxSent
  /\ \/ /\ ~run.broken
        /\ \E first \in run.doc.first .. run.doc.next + 2 :
             /\ run.doc.next + 1 - first < WindowSize
             /\ run' = [run EXCEPT !.doc.next = @ + 1, !.doc.first = first,
                                   !.doc.truncated = @ \/ first > run.doc.first]
     \/ run' = [run EXCEPT !.broken = TRUE]
  /\ UNCHANGED <<page, requests, deletion>>

(* complete                                                                 *)
CompleteRun ==
  /\ run.doc.status \in Underway
  /\ \E status \in IF run.broken THEN {"failed"}
                   ELSE IF run.doc.status = "canceling" THEN {"canceled", "failed"}
                   ELSE {"exited", "failed"} :
       run' = [run EXCEPT !.doc.status = status]
  /\ UNCHANGED <<page, requests, deletion>>

(* The Host restarts, or as many other runs have ended as it retains.       *)
ForgetRun ==
  /\ run.known
  /\ run' = [run EXCEPT !.known = FALSE]
  /\ UNCHANGED <<page, requests, deletion>>

(* post_command_run and get_command_run; document takes the state at once.  *)
HandleRequest(v) ==
  /\ requests[v].stage = "sent"
  /\ IF requests[v].kind = "post"
     THEN /\ run.doc.status = "absent"
          /\ run' = [run EXCEPT !.doc.status = "running", !.known = TRUE]
     ELSE UNCHANGED run
  /\ requests' = IF run'.known
                 THEN [requests EXCEPT ![v].stage = "answered", ![v].doc = run'.doc]
                 ELSE [requests EXCEPT ![v].stage = "gone"]
  /\ UNCHANGED <<page, deletion>>

(* delete_command_run; a cancellation that fails leaves the run running.    *)
HandleDeletion ==
  /\ deletion.stage = "sent"
  /\ \/ /\ run.known /\ deletion' = [deletion EXCEPT !.stage = "done"]
        /\ run' = [run EXCEPT !.doc.status = IF @ = "running" THEN "canceling" ELSE @]
     \/ /\ ~run.known \/ run.doc.status = "running"
        /\ deletion' = [deletion EXCEPT !.stage = "failed"]
        /\ UNCHANGED run
  /\ UNCHANGED <<page, requests>>

(* Another page cancels the run, or this one before it was loaded again.    *)
CanceledElsewhere ==
  /\ run.known /\ run.doc.status = "running"
  /\ run' = [run EXCEPT !.doc.status = "canceling"]
  /\ UNCHANGED <<page, requests, deletion>>

(* The network, or the Host while it restarts.                              *)
RequestFails ==
  /\ \/ \E v \in Versions0 :
          /\ requests[v].stage \in {"sent", "answered"}
          /\ requests' = [requests EXCEPT ![v].stage = "failed"]
          /\ UNCHANGED deletion
     \/ /\ deletion.stage \in {"sent", "done"}
        /\ deletion' = [deletion EXCEPT !.stage = "failed"]
        /\ UNCHANGED requests
  /\ UNCHANGED <<run, page>>

-----------------------------------------------------------------------------
(* The page.                                                                *)

Active == page.state \in Underway

Send(v, kind, after) ==
  requests' = [requests EXCEPT ![v] = [kind |-> kind, stage |-> "sent", after |-> after,
                                       doc |-> NoDocument]]

Later(m, n) == IF m < n THEN n ELSE m

(* createCommandRunOutput.append: the events of an answer, which begin with  *)
(* the window, that neither the request's cursor nor the page has passed.    *)
Appended(shown, doc, after, cursor) ==
  LET passed == Later(doc.first - 1, Later(after, cursor))
  IN  shown \o [i \in 1 .. doc.next - passed |-> passed + i]

(* adoptSnapshot                                                            *)
Adopted(old, doc, after) ==
  LET all == Appended(old.shown, doc, after, old.cursor) IN
  {[old EXCEPT !.state = doc.status, !.truncated = doc.truncated, !.cursor = doc.next,
               !.shown = SubSeq(all, Len(all) - kept + 1, Len(all)),
               !.clipped = @ \/ kept < Len(all),
               !.stored = doc.status \in Underway,
               !.timer = IF doc.status \in Underway THEN old.version ELSE @,
               !.awaiting = "poll"]
     : kept \in {k \in 0 .. Len(all) : k <= WindowSize}}

Execute ==
  /\ page.state = "none" /\ run.doc.status = "absent"
  /\ ~page.submitting /\ ~page.restoring
  /\ page' = [page EXCEPT !.submitting = TRUE]
  /\ Send(page.version, "post", 0)
  /\ UNCHANGED <<run, deletion>>

(* execute, when the answer to its POST arrives.                            *)
Started(v) ==
  /\ requests[v].kind = "post" /\ requests[v].stage \in {"answered", "gone", "failed"}
  /\ IF requests[v].stage = "answered"
     THEN page' \in Adopted([page EXCEPT !.version = 1, !.submitting = FALSE, !.timer = -1,
                                         !.shown = <<>>, !.clipped = FALSE, !.cursor = 0],
                            requests[v].doc, 0)
     ELSE page' = [page EXCEPT !.submitting = FALSE]
  /\ requests' = [requests EXCEPT ![v] = NoRequest]
  /\ UNCHANGED <<run, deletion>>

(* The timer of schedulePoll, and of scheduleRestore.                       *)
Poll ==
  /\ page.timer # -1
  /\ page' = [page EXCEPT !.timer = -1]
  /\ IF page.awaiting = "restore" \/ (page.timer = page.version /\ Active)
     THEN Send(page.timer, page.awaiting, IF page.awaiting = "restore" THEN 0 ELSE page.cursor)
     ELSE UNCHANGED requests
  /\ UNCHANGED <<run, deletion>>

(* Mutant: an answer is taken whatever has been asked since. *)
PolledLate(v) ==
  /\ requests[v].kind = "poll" /\ requests[v].stage \in {"answered", "gone", "failed"}
  /\ CASE requests[v].stage = "answered" -> page' \in Adopted(page, requests[v].doc, requests[v].after)
       [] requests[v].stage = "gone"     -> page' = [page EXCEPT !.state = "lost", !.stored = FALSE]
       [] OTHER                          -> page' = [page EXCEPT !.timer = v]
  /\ requests' = [requests EXCEPT ![v] = NoRequest]
  /\ UNCHANGED <<run, deletion>>

(* poll, when the answer arrives: one of an older version is not used.      *)
Polled(v) ==
  /\ requests[v].kind = "poll" /\ requests[v].stage \in {"answered", "gone", "failed"}
  /\ CASE v # page.version               -> UNCHANGED page
       [] v = page.version /\ requests[v].stage = "answered" ->
            page' \in Adopted(page, requests[v].doc, requests[v].after)
       [] v = page.version /\ requests[v].stage = "gone" ->
            page' = [page EXCEPT !.state = "lost", !.stored = FALSE]
       [] OTHER                          -> page' = [page EXCEPT !.timer = v]
  /\ requests' = [requests EXCEPT ![v] = NoRequest]
  /\ UNCHANGED <<run, deletion>>

(* cancel                                                                   *)
Cancel ==
  /\ Active /\ deletion.stage = "none" /\ page.version < MaxVersion
  /\ page' = [page EXCEPT !.version = @ + 1, !.timer = -1]
  /\ deletion' = [stage |-> "sent", version |-> page.version + 1]
  /\ UNCHANGED <<run, requests>>

(* Mutant: a cancellation that fails leaves the polling stopped. *)
CanceledQuietly ==
  /\ deletion.stage \in {"done", "failed"}
  /\ page' = IF Active /\ deletion.stage = "done"
             THEN [page EXCEPT !.timer = deletion.version, !.state = "canceling"]
             ELSE page
  /\ deletion' = NoDeletion
  /\ UNCHANGED <<run, requests>>

(* What follows when the answer to the DELETE arrives.                      *)
Canceled ==
  /\ deletion.stage \in {"done", "failed"}
  /\ page' = IF Active
             THEN [page EXCEPT !.timer = deletion.version,
                     !.state = IF deletion.stage = "done" THEN "canceling" ELSE @]
             ELSE page
  /\ deletion' = NoDeletion
  /\ UNCHANGED <<run, requests>>

(* The page is loaded again; only the session storage is left, and restore  *)
(* asks for the run that it names.                                          *)
Reload ==
  /\ deletion' = NoDeletion
  /\ IF page.stored
     THEN /\ page' = [BlankPage EXCEPT !.stored = TRUE, !.restoring = TRUE, !.version = 1,
                                       !.awaiting = "restore"]
          /\ requests' = [v \in Versions0 |-> IF v = 1 THEN [NoRequest EXCEPT !.kind = "restore",
                                                                             !.stage = "sent"]
                                             ELSE NoRequest]
     ELSE page' = BlankPage /\ requests' = [v \in Versions0 |-> NoRequest]
  /\ UNCHANGED run

(* restoreAttempt, when the answer arrives.                                 *)
Restored(v) ==
  /\ requests[v].kind = "restore" /\ requests[v].stage \in {"answered", "gone", "failed"}
  /\ CASE requests[v].stage = "answered" ->
            page' \in Adopted([page EXCEPT !.restoring = FALSE], requests[v].doc, 0)
       [] requests[v].stage = "gone" ->
            page' = [page EXCEPT !.restoring = FALSE, !.stored = FALSE]
       [] OTHER -> page' = [page EXCEPT !.timer = v]
  /\ requests' = [requests EXCEPT ![v] = NoRequest]
  /\ UNCHANGED <<run, deletion>>

StreamNext ==
  \/ AppendEvent \/ CompleteRun \/ ForgetRun \/ HandleDeletion \/ CanceledElsewhere
  \/ RequestFails
  \/ Execute \/ Poll \/ Cancel \/ Canceled \/ Reload
  \/ \E v \in Versions0 : HandleRequest(v) \/ Started(v) \/ Polled(v) \/ Restored(v)

StreamSpec == StreamInit /\ [][StreamNext]_streamVars

-----------------------------------------------------------------------------
(* A page that shows a run as active, or restores one, has asked for it or is *)
(* about to: whatever failed, was overtaken or came too late.                *)
KeepsAsking ==
  Active \/ page.restoring =>
    \/ page.timer = page.version
    \/ requests[page.version].kind \in {"poll", "restore"}
    \/ deletion.stage # "none"

(* The page shows every event once and in order; where it leaves out any, it *)
(* says so; and when it shows how the run has ended, that is how it has, and *)
(* nothing is left to come.                                                  *)
ShownIsWhole ==
  LET n == Len(page.shown) IN
  /\ \A i, j \in 1 .. n : i < j => page.shown[i] < page.shown[j]
  /\ page.truncated \/ page.clipped
       \/ page.shown = [i \in 1 .. page.cursor |-> i]
  /\ page.state \in Final => page.state = run.doc.status /\ page.cursor = run.doc.next
=============================================================================
