---------------------------- MODULE HostLifecycle ----------------------------
(***************************************************************************)
(* The Host of one Entry: the processes that try to become it, the named   *)
(* event that elects one of them, the runtime document by which the others *)
(* find it, its control state, and the coordinators that restart it on a   *)
(* new Runtime Release.                                                    *)
(*                                                                         *)
(* A process is named by the user's launch, or by the restart coordinator, *)
(* that started it.  The steps of several processes interleave freely; a   *)
(* step is one call to the system or one message.                          *)
(***************************************************************************)
EXTENDS Naturals, FiniteSets

CONSTANTS Users,         \* launches by the user
          Coordinators,  \* restart coordinators, and the Hosts they launch
          CanFail        \* whether calls may fail and processes be killed

Procs == Users \cup Coordinators

ASSUME ProcAssumption == Users \cap Coordinators = {} /\ "none" \notin Procs
ASSUME FailAssumption == CanFail \in BOOLEAN

VARIABLES
  host,      \* each Host process
  coord,     \* each restart coordinator
  handles,   \* the processes with an open handle on the named event
  document   \* the process named by the runtime document, or "none"

vars == <<host, coord, handles, document>>

Owning   == {"booting", "serving", "draining", "closing"}
Retiring == {"unowned", "removing"}
Seeking  == {"starting", "looking", "waiting"}
Over     == {"idle", "gone", "killed", "opened", "refused"}

Hosts == [pc : Owning \cup Retiring \cup Seeking \cup Over,
          control : {"running", "preparing", "stopping"},
          announced : {"pending", "yes", "failed"}, stop : BOOLEAN,
          coordinator : Coordinators \cup {"none"}]

Restarts == [pc : {"idle", "starting", "ready", "launched", "failed", "killed"},
             parent : Procs \cup {"none"}]

(* A process has a handle on the event exactly while it owns the instance,  *)
(* or is about to find that it does not.                                    *)
TypeOK ==
  /\ host \in [Procs -> Hosts]
  /\ coord \in [Coordinators -> Restarts]
  /\ handles = {p \in Procs : host[p].pc \in Owning \cup {"looking"}}
  /\ document \in Procs \cup {"none"}

Init ==
  /\ host = [p \in Procs |->
              [pc |-> "idle", control |-> "running",
               announced |-> "pending", stop |-> FALSE, coordinator |-> "none"]]
  /\ coord = [c \in Coordinators |-> [pc |-> "idle", parent |-> "none"]]
  /\ handles = {}
  /\ document = "none"

Goto(p, pc) == host' = [host EXCEPT ![p].pc = pc]
Dead(p)     == host[p].pc \in Over

-----------------------------------------------------------------------------
(* The launch chain (Launcher, Core, Host) and HostInstance::acquire *)

Launch(p) ==
  /\ p \in Users /\ host[p].pc = "idle"
  /\ Goto(p, "starting")
  /\ UNCHANGED <<coord, handles, document>>

StartFails(p) ==
  /\ CanFail /\ host[p].pc = "starting"
  /\ Goto(p, "gone")
  /\ UNCHANGED <<coord, handles, document>>

(* Mutant: the runtime document is taken for the lease. *)
AcquireByDocument(p) ==
  /\ host[p].pc = "starting"
  /\ handles' = handles \cup {p}
  /\ Goto(p, IF document = "none" THEN "booting" ELSE "looking")
  /\ UNCHANGED <<coord, document>>

(* CreateEventW opens a handle in either case; the process that created the *)
(* event is the primary.                                                    *)
Acquire(p) ==
  /\ host[p].pc = "starting"
  /\ handles' = handles \cup {p}
  /\ Goto(p, IF handles = {} THEN "booting" ELSE "looking")
  /\ UNCHANGED <<coord, document>>

DropHandle(p) ==
  /\ host[p].pc = "looking"
  /\ handles' = handles \ {p}
  /\ Goto(p, "waiting")
  /\ UNCHANGED <<coord, document>>

(* wait_for_healthy: the document names a Host that answers as itself. *)
Healthy == document # "none" /\ host[document].pc = "serving"

Activate(p) ==
  /\ host[p].pc = "waiting" /\ Healthy
  /\ Goto(p, "opened")
  /\ UNCHANGED <<coord, handles, document>>

GiveUp(p) ==
  /\ host[p].pc = "waiting" /\ ~Healthy
  /\ Goto(p, "refused")
  /\ UNCHANGED <<coord, handles, document>>

-----------------------------------------------------------------------------
(* The primary: the server thread binds its port and then reports it to the *)
(* event loop, which publishes the runtime document.                        *)

Serve(p) ==
  /\ host[p].pc = "booting"
  /\ Goto(p, "serving")
  /\ UNCHANGED <<coord, handles, document>>

BootFails(p) ==
  /\ CanFail /\ host[p].pc = "booting"
  /\ host' = [host EXCEPT ![p].pc = "closing", ![p].announced = "failed"]
  /\ UNCHANGED <<coord, handles, document>>

Announce(p) ==
  /\ host[p].pc \in {"serving", "draining"} /\ host[p].announced = "pending"
  /\ host' = [host EXCEPT ![p].announced = "yes"]
  /\ document' = p
  /\ UNCHANGED <<coord, handles>>

AnnounceFails(p) ==
  /\ CanFail
  /\ host[p].pc \in {"serving", "draining"} /\ host[p].announced = "pending"
  /\ host' = [host EXCEPT ![p].announced = "failed", ![p].stop = TRUE]
  /\ UNCHANGED <<coord, handles, document>>

(* The tray's Quit bypasses the control state. *)
Quit(p) ==
  /\ host[p].pc \in {"booting", "serving"} /\ ~host[p].stop
  /\ host' = [host EXCEPT ![p].stop = TRUE]
  /\ UNCHANGED <<coord, handles, document>>

(* A request that the draining server has accepted before is answered too. *)
Answering(p) == host[p].pc \in {"serving", "draining"}

(* Mutant: a shutdown is accepted while a restart is being prepared. *)
RequestShutdownAnyway(p) ==
  /\ Answering(p) /\ host[p].control # "stopping"
  /\ host' = [host EXCEPT ![p].control = "stopping", ![p].stop = TRUE]
  /\ UNCHANGED <<coord, handles, document>>

(* HostControl::request_shutdown: while a restart is being prepared it is   *)
(* answered Busy, once stopping AlreadyRequested.                           *)
RequestShutdown(p) ==
  /\ Answering(p) /\ host[p].control = "running"
  /\ host' = [host EXCEPT ![p].control = "stopping", ![p].stop = TRUE]
  /\ UNCHANGED <<coord, handles, document>>

(* post_restart and HostControl::request_restart up to the coordinator's    *)
(* start.  The selector names another Release than the Host's own: it may   *)
(* be moved by a publication at any time.                                   *)
RequestRestart(p) ==
  /\ Answering(p) /\ host[p].control = "running"
  /\ \E c \in Coordinators :
       /\ coord[c].pc = "idle"
       /\ coord' = [coord EXCEPT ![c] = [pc |-> "starting", parent |-> p]]
       /\ host' = [host EXCEPT ![p].control = "preparing", ![p].coordinator = c]
  /\ UNCHANGED <<handles, document>>

(* Once the coordinator is ready, or is not, the control state is stored    *)
(* without another look at it.                                              *)
Preparing(p) == host[p].coordinator # "none" /\ ~Dead(p)

Settle(p, control, stop) ==
  host' = [host EXCEPT ![p].control = control, ![p].stop = stop, ![p].coordinator = "none"]

AcceptRestart(p) ==
  /\ Preparing(p)
  /\ coord[host[p].coordinator].pc = "ready"
  /\ Settle(p, "stopping", TRUE)
  /\ UNCHANGED <<coord, handles, document>>

(* Mutant: the coordinator that was too slow is left running. *)
RefuseRestartLeaks(p) ==
  /\ CanFail /\ Preparing(p)
  /\ Settle(p, "running", host[p].stop)
  /\ UNCHANGED <<coord, handles, document>>

(* Mutant: a restart that is refused withdraws the request to stop too. *)
RefuseRestartWithdraws(p) ==
  /\ CanFail /\ Preparing(p)
  /\ Settle(p, "running", FALSE)
  /\ coord' = [coord EXCEPT ![host[p].coordinator].pc =
                              IF @ = "failed" THEN "failed" ELSE "killed"]
  /\ UNCHANGED <<handles, document>>

(* The coordinator was not ready in five seconds, and is killed (it may     *)
(* have become ready meanwhile), or it has failed.                          *)
RefuseRestart(p) ==
  /\ CanFail /\ Preparing(p)
  /\ Settle(p, "running", host[p].stop)
  /\ coord' = [coord EXCEPT ![host[p].coordinator].pc =
                              IF @ = "failed" THEN "failed" ELSE "killed"]
  /\ UNCHANGED <<handles, document>>

-----------------------------------------------------------------------------
(* The end of a Host: the server drains, the runtime waits for a restart    *)
(* that is being prepared, the event loop exits, and App is dropped, the    *)
(* lease before the runtime document.                                       *)

Drain(p) ==
  /\ host[p].pc = "serving" /\ host[p].stop
  /\ Goto(p, "draining")
  /\ UNCHANGED <<coord, handles, document>>

Stopped(p) ==
  /\ host[p].pc = "draining"
  /\ host[p].announced # "pending" /\ host[p].coordinator = "none"
  /\ Goto(p, "closing")
  /\ UNCHANGED <<coord, handles, document>>

DropInstance(p) ==
  /\ host[p].pc = "closing"
  /\ handles' = handles \ {p}
  /\ Goto(p, "unowned")
  /\ UNCHANGED <<coord, document>>

(* Mutant: the exiting Host takes the document for a newer one's. *)
ReadDocumentNewer(p) ==
  /\ host[p].pc = "unowned"
  /\ Goto(p, "gone")
  /\ UNCHANGED <<coord, handles, document>>

(* HostRuntimeOwner::drop reads the document and then removes the file. *)
ReadDocument(p) ==
  /\ host[p].pc = "unowned"
  /\ Goto(p, IF document = p THEN "removing" ELSE "gone")
  /\ UNCHANGED <<coord, handles, document>>

RemoveDocument(p) ==
  /\ host[p].pc = "removing"
  /\ document' = "none"
  /\ Goto(p, "gone")
  /\ UNCHANGED <<coord, handles>>

Kill(p) ==
  /\ CanFail /\ ~Dead(p)
  /\ handles' = handles \ {p}
  /\ Goto(p, "killed")
  /\ UNCHANGED <<coord, document>>

-----------------------------------------------------------------------------
(* HostRestartRequest::complete, in the coordinator's process *)

(* The old Host's process is opened, so that its end can be awaited, before *)
(* readiness is signalled.                                                  *)
CoordinatorReady(c) ==
  /\ coord[c].pc = "starting" /\ ~Dead(coord[c].parent)
  /\ coord' = [coord EXCEPT ![c].pc = "ready"]
  /\ UNCHANGED <<host, handles, document>>

CoordinatorLaunch(c) ==
  /\ coord[c].pc = "ready" /\ Dead(coord[c].parent)
  /\ coord' = [coord EXCEPT ![c].pc = "launched"]
  /\ Goto(c, "starting")
  /\ UNCHANGED <<handles, document>>

(* The Entry has changed, the Launcher fails, or the old Host is gone       *)
(* before it could be opened.                                               *)
CoordinatorFails(c) ==
  /\ CanFail /\ coord[c].pc \in {"starting", "ready"}
  /\ coord' = [coord EXCEPT ![c].pc = "failed"]
  /\ UNCHANGED <<host, handles, document>>

-----------------------------------------------------------------------------
(* What the processes do by themselves once started. *)
Advance(p) ==
  \/ Acquire(p) \/ DropHandle(p) \/ Activate(p) \/ GiveUp(p) \/ Serve(p) \/ Announce(p)
  \/ Drain(p) \/ Stopped(p) \/ DropInstance(p) \/ ReadDocument(p) \/ RemoveDocument(p)

(* The request that prepares a restart waits for five seconds at most. *)
Decide(p) == AcceptRestart(p) \/ RefuseRestart(p)

Coordinate(c) == CoordinatorReady(c) \/ CoordinatorLaunch(c)

Environment(p) ==
  \/ Launch(p) \/ Quit(p) \/ RequestShutdown(p) \/ RequestRestart(p)
  \/ StartFails(p) \/ BootFails(p) \/ AnnounceFails(p) \/ Kill(p)

(* Everybody has ended, and nobody is launched any more. *)
Rest ==
  /\ \A p \in Procs : Dead(p)
  /\ \A c \in Coordinators : coord[c].pc \notin {"starting", "ready"}
  /\ UNCHANGED vars

Next ==
  \/ Rest
  \/ \E p \in Procs : Advance(p) \/ Decide(p) \/ Environment(p)
  \/ \E c \in Coordinators : Coordinate(c) \/ CoordinatorFails(c)

Spec == Init /\ [][Next]_vars

FairSpec ==
  /\ Spec
  /\ \A p \in Procs : WF_vars(Advance(p)) /\ WF_vars(Decide(p))
  /\ \A c \in Coordinators : WF_vars(Coordinate(c))

-----------------------------------------------------------------------------
(* Properties *)

(* The Entry has one Host: however launches, restarts, exits and crashes    *)
(* interleave, two processes never both own the instance.                   *)
SingleHost == \A p, q \in Procs :
  host[p].pc \in Owning /\ host[q].pc \in Owning => p = q

(* A Host that has exited in an orderly way is not advertised any more.     *)
NoStaleAdvertisement == document # "none" => host[document].pc # "gone"

(* An accepted shutdown or restart is never taken back.                     *)
AcceptedIsFinal ==
  [][\A p \in Procs : host[p].control = "stopping" => host'[p].control = "stopping"]_vars

(* A coordinator launches a Host only when the one it replaces has gone and *)
(* has accepted that restart; a refused restart launches nothing.           *)
NoUninvitedLaunch ==
  \A c \in Coordinators : coord[c].pc = "launched" =>
    LET old == host[coord[c].parent]
    IN  old.pc \in {"gone", "killed"} /\ (old.pc = "gone" => old.control = "stopping")

(* A Host asked to stop gives the instance back. *)
StopReleasesInstance == \A p \in Procs : host[p].stop ~> p \notin handles

(* "publishes_and_removes_only_the_current_owner": a Host that exits        *)
(* removes no document but its own.                                         *)
RemovesOnlyItsOwn ==
  [][\A p \in Procs : host[p].pc = "removing" /\ host'[p].pc = "gone" => document = p]_vars
=============================================================================
