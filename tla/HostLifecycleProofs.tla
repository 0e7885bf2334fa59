------------------------- MODULE HostLifecycleProofs -------------------------
(***************************************************************************)
(* What holds of the Hosts of one Entry for any number of launches and     *)
(* restart coordinators.                                                   *)
(*                                                                         *)
(* The argument is about who points at whom: a Host that prepares a        *)
(* restart and its coordinator point at each other until one of them is    *)
(* gone or the restart is decided (Coupled), a coordinator that has not    *)
(* launched has no Host of its own (Unlaunched), and the runtime document  *)
(* points at a Host that is not through with its exit (Documented).        *)
(***************************************************************************)
EXTENDS HostLifecycle, TLAPS

(* A Host that has served, and may be the parent of a coordinator. *)
Served == (Owning \ {"booting"}) \cup Retiring \cup {"gone", "killed"}

Coupled ==
  \A p \in Procs : host[p].coordinator # "none" =>
    /\ host[p].control = "preparing"
    /\ host[p].pc \in {"serving", "draining", "killed"}
    /\ coord[host[p].coordinator].parent = p
    /\ coord[host[p].coordinator].pc # "idle"

Parented ==
  \A c \in Coordinators : coord[c].pc \in {"starting", "ready", "launched"} =>
    /\ coord[c].parent \in Procs
    /\ host[coord[c].parent].pc \in Served
    /\ \/ host[coord[c].parent].coordinator = c
       \/ host[coord[c].parent].control = "stopping"
    /\ coord[c].pc = "launched" => host[coord[c].parent].pc \in {"gone", "killed"}

Unlaunched == \A c \in Coordinators : coord[c].pc # "launched" => host[c].pc = "idle"

Documented == document # "none" => host[document].pc \in Served \ {"gone"}

Inv == TypeOK /\ SingleHost /\ Coupled /\ Parented /\ Unlaunched /\ Documented

(* The state before the first launch.                                       *)
LEMMA Initially == Init => Inv
<1> SUFFICES ASSUME Init PROVE Inv  OBVIOUS
<1>1. TypeOK
  BY ProcAssumption DEF Init, TypeOK, Hosts, Restarts, Procs, Owning, Retiring, Seeking, Over
<1>2. SingleHost /\ Documented
  BY DEF Init, SingleHost, Documented, Owning
<1>3. Coupled /\ Parented
  BY DEF Init, Coupled, Parented
<1>4. Unlaunched
  BY DEF Init, Unlaunched, Procs
<1> QED  BY <1>1, <1>2, <1>3, <1>4 DEF Inv

(* The assignments that set the stop flag keep the shape of a Host.         *)
LEMMA StopTyped ==
  ASSUME NEW h \in Hosts, NEW s \in BOOLEAN,
         NEW k \in {"running", "preparing", "stopping"}, NEW a \in {"pending", "yes", "failed"}
  PROVE  /\ [h EXCEPT !.stop = s] \in Hosts
         /\ [h EXCEPT !.control = k, !.stop = s] \in Hosts
         /\ [h EXCEPT !.announced = a, !.stop = s] \in Hosts
BY DEF Hosts

(* No step takes a variable out of its type, and a process has a handle on  *)
(* the event exactly while it owns the instance or is about to look.        *)
LEMMA TypePreserved == ASSUME TypeOK, Unlaunched, [Next]_vars PROVE TypeOK'
<1> USE ProcAssumption DEF TypeOK, Hosts, Restarts, Procs, Owning, Retiring, Seeking, Over
<1>1. CASE UNCHANGED vars  BY <1>1 DEF vars
<1>2. ASSUME NEW p \in Procs, Launch(p) PROVE TypeOK'  BY <1>2 DEF Launch, Goto
<1>3. ASSUME NEW p \in Procs, StartFails(p) PROVE TypeOK'  BY <1>3 DEF StartFails, Goto
<1>4. ASSUME NEW p \in Procs, Acquire(p) PROVE TypeOK'  BY <1>4 DEF Acquire, Goto
<1>5. ASSUME NEW p \in Procs, DropHandle(p) PROVE TypeOK'  BY <1>5 DEF DropHandle, Goto
<1>6. ASSUME NEW p \in Procs, Activate(p) PROVE TypeOK'  BY <1>6 DEF Activate, Goto
<1>7. ASSUME NEW p \in Procs, GiveUp(p) PROVE TypeOK'  BY <1>7 DEF GiveUp, Goto
<1>8. ASSUME NEW p \in Procs, Serve(p) PROVE TypeOK'  BY <1>8 DEF Serve, Goto
<1>9. ASSUME NEW p \in Procs, BootFails(p) PROVE TypeOK'  BY <1>9 DEF BootFails
<1>10. ASSUME NEW p \in Procs, Announce(p) PROVE TypeOK'  BY <1>10 DEF Announce
<1>11. ASSUME NEW p \in Procs, AnnounceFails(p) PROVE TypeOK'
  <2> HIDE DEF Hosts, Procs
  <2>1. host' = [host EXCEPT ![p] = [host[p] EXCEPT !.announced = "failed", !.stop = TRUE]]
    BY <1>11 DEF AnnounceFails
  <2>2. host' \in [Procs -> Hosts]  BY <2>1, StopTyped
  <2>3. \A q \in Procs : host'[q].pc = host[q].pc  BY <2>1 DEF Hosts
  <2> QED  BY <1>11, <2>2, <2>3 DEF AnnounceFails
<1>12. ASSUME NEW p \in Procs, Quit(p) PROVE TypeOK'
  <2> HIDE DEF Hosts, Procs
  <2>1. host' = [host EXCEPT ![p] = [host[p] EXCEPT !.stop = TRUE]]
    BY <1>12 DEF Quit
  <2>2. host' \in [Procs -> Hosts]  BY <2>1, StopTyped
  <2>3. \A q \in Procs : host'[q].pc = host[q].pc  BY <2>1 DEF Hosts
  <2> QED  BY <1>12, <2>2, <2>3 DEF Quit
<1>13. ASSUME NEW p \in Procs, RequestShutdown(p) PROVE TypeOK'
  <2> HIDE DEF Hosts, Procs
  <2>1. host' = [host EXCEPT ![p] = [host[p] EXCEPT !.control = "stopping", !.stop = TRUE]]
    BY <1>13 DEF RequestShutdown
  <2>2. host' \in [Procs -> Hosts]  BY <2>1, StopTyped
  <2>3. \A q \in Procs : host'[q].pc = host[q].pc  BY <2>1 DEF Hosts
  <2> QED  BY <1>13, <2>2, <2>3 DEF RequestShutdown
<1>14. ASSUME NEW p \in Procs, RequestRestart(p) PROVE TypeOK'
  BY <1>14 DEF RequestRestart, Answering
<1>15. ASSUME NEW p \in Procs, AcceptRestart(p) PROVE TypeOK'
  BY <1>15 DEF AcceptRestart, Settle, Preparing
<1>16. ASSUME NEW p \in Procs, RefuseRestart(p) PROVE TypeOK'
  BY <1>16 DEF RefuseRestart, Settle, Preparing
<1>17. ASSUME NEW p \in Procs, Drain(p) PROVE TypeOK'  BY <1>17 DEF Drain, Goto
<1>18. ASSUME NEW p \in Procs, Stopped(p) PROVE TypeOK'  BY <1>18 DEF Stopped, Goto
<1>19. ASSUME NEW p \in Procs, DropInstance(p) PROVE TypeOK'  BY <1>19 DEF DropInstance, Goto
<1>20. ASSUME NEW p \in Procs, ReadDocument(p) PROVE TypeOK'  BY <1>20 DEF ReadDocument, Goto
<1>21. ASSUME NEW p \in Procs, RemoveDocument(p) PROVE TypeOK'
  BY <1>21 DEF RemoveDocument, Goto
<1>22. ASSUME NEW p \in Procs, Kill(p) PROVE TypeOK'  BY <1>22 DEF Kill, Goto, Dead
<1>23. ASSUME NEW c \in Coordinators, CoordinatorReady(c) PROVE TypeOK'
  BY <1>23 DEF CoordinatorReady
<1>24. ASSUME NEW c \in Coordinators, CoordinatorLaunch(c) PROVE TypeOK'
  <2>1. c \in Procs /\ host[c].pc = "idle"  BY <1>24 DEF CoordinatorLaunch, Unlaunched
  <2>2. [host[c] EXCEPT !.pc = "starting"] \in Hosts  BY <2>1
  <2>3. [coord[c] EXCEPT !.pc = "launched"] \in Restarts  OBVIOUS
  <2> QED  BY <1>24, <2>1, <2>2, <2>3 DEF CoordinatorLaunch, Goto, Unlaunched
<1>25. ASSUME NEW c \in Coordinators, CoordinatorFails(c) PROVE TypeOK'
  BY <1>25 DEF CoordinatorFails
<1> HIDE DEF TypeOK, Hosts, Restarts, Procs, Owning, Retiring, Seeking, Over
<1> QED
  BY <1>1, <1>2, <1>3, <1>4, <1>5, <1>6, <1>7, <1>8, <1>9, <1>10, <1>11, <1>12, <1>13, <1>14, <1>15, <1>16, <1>17, <1>18, <1>19, <1>20, <1>21, <1>22, <1>23, <1>24, <1>25 DEF Next, Advance, Decide, Environment, Coordinate, Rest

(* The pointers between Hosts, coordinators and the document stay coherent. *)
LEMMA CoherencePreserved ==
  ASSUME Inv, [Next]_vars
  PROVE  (SingleHost /\ Coupled /\ Parented /\ Unlaunched /\ Documented)'
<1> USE ProcAssumption DEF Inv, TypeOK, Hosts, Restarts, Procs, Owning, Retiring, Seeking, Over,
    Served, SingleHost, Coupled, Parented, Unlaunched, Documented
<1> DEFINE Goal == (SingleHost /\ Coupled /\ Parented /\ Unlaunched /\ Documented)'
<1>1. CASE UNCHANGED vars  BY <1>1 DEF vars
<1>2. ASSUME NEW p \in Procs, Launch(p) PROVE Goal  BY <1>2 DEF Launch, Goto
<1>3. ASSUME NEW p \in Procs, StartFails(p) PROVE Goal  BY <1>3 DEF StartFails, Goto
<1>4. ASSUME NEW p \in Procs, Acquire(p) PROVE Goal  BY <1>4 DEF Acquire, Goto
<1>5. ASSUME NEW p \in Procs, DropHandle(p) PROVE Goal  BY <1>5 DEF DropHandle, Goto
<1>6. ASSUME NEW p \in Procs, Activate(p) PROVE Goal  BY <1>6 DEF Activate, Goto
<1>7. ASSUME NEW p \in Procs, GiveUp(p) PROVE Goal  BY <1>7 DEF GiveUp, Goto
<1>8. ASSUME NEW p \in Procs, Serve(p) PROVE Goal  BY <1>8 DEF Serve, Goto
<1>9. ASSUME NEW p \in Procs, BootFails(p) PROVE Goal  BY <1>9 DEF BootFails
<1>10. ASSUME NEW p \in Procs, Announce(p) PROVE Goal  BY <1>10 DEF Announce
<1>11. ASSUME NEW p \in Procs, AnnounceFails(p) PROVE Goal  BY <1>11 DEF AnnounceFails
<1>12. ASSUME NEW p \in Procs, Quit(p) PROVE Goal  BY <1>12 DEF Quit
<1>13. ASSUME NEW p \in Procs, RequestShutdown(p) PROVE Goal  BY <1>13 DEF RequestShutdown, Answering
<1>14. ASSUME NEW p \in Procs, RequestRestart(p) PROVE Goal  BY <1>14 DEF RequestRestart, Answering
<1>15. ASSUME NEW p \in Procs, AcceptRestart(p) PROVE Goal
  <2>1. /\ \A q \in Procs : host'[q].pc = host[q].pc
        /\ \A q \in Procs \ {p} : host'[q] = host[q]
        /\ host'[p].coordinator = "none" /\ host'[p].control = "stopping"
    BY <1>15 DEF AcceptRestart, Settle
  <2>2. coord' = coord /\ document' = document
    BY <1>15 DEF AcceptRestart
  <2>3. (SingleHost /\ Unlaunched /\ Documented)'  BY <2>1, <2>2
  <2>4. Coupled'  BY <2>1, <2>2
  <2>5. Parented'  BY <2>1, <2>2
  <2> QED  BY <2>3, <2>4, <2>5
<1>16. ASSUME NEW p \in Procs, RefuseRestart(p) PROVE Goal
  <2> DEFINE k == host[p].coordinator
  <2>1. k \in Coordinators /\ coord[k].parent = p /\ coord[k].pc \notin {"idle", "launched"}
    BY <1>16 DEF RefuseRestart, Preparing, Dead
  <2>2. /\ \A q \in Procs : host'[q].pc = host[q].pc
        /\ \A q \in Procs \ {p} : host'[q] = host[q]
        /\ host'[p].coordinator = "none"
    BY <1>16 DEF RefuseRestart, Settle
  <2>3. /\ coord'[k].pc \in {"failed", "killed"}
        /\ \A c \in Coordinators \ {k} : coord'[c] = coord[c]
        /\ document' = document
    BY <1>16, <2>1 DEF RefuseRestart
  <2>4. (SingleHost /\ Unlaunched /\ Documented)'  BY <2>1, <2>2, <2>3
  <2>5. Coupled'
    <3>1. \A q \in Procs \ {p} : host[q].coordinator # k  BY <2>1
    <3> QED  BY <2>2, <2>3, <3>1
  <2>6. Parented'
    <3>1. \A c \in Coordinators \ {k} :
            coord[c].pc \in {"starting", "ready", "launched"} => coord[c].parent # p
      BY <1>16 DEF RefuseRestart, Preparing
    <3> QED  BY <2>2, <2>3, <3>1
  <2> QED  BY <2>4, <2>5, <2>6
<1>17. ASSUME NEW p \in Procs, Drain(p) PROVE Goal  BY <1>17 DEF Drain, Goto
<1>18. ASSUME NEW p \in Procs, Stopped(p) PROVE Goal  BY <1>18 DEF Stopped, Goto
<1>19. ASSUME NEW p \in Procs, DropInstance(p) PROVE Goal  BY <1>19 DEF DropInstance, Goto
<1>20. ASSUME NEW p \in Procs, ReadDocument(p) PROVE Goal  BY <1>20 DEF ReadDocument, Goto
<1>21. ASSUME NEW p \in Procs, RemoveDocument(p) PROVE Goal  BY <1>21 DEF RemoveDocument, Goto
<1>22. ASSUME NEW p \in Procs, Kill(p) PROVE Goal  BY <1>22 DEF Kill, Goto, Dead
<1>23. ASSUME NEW c \in Coordinators, CoordinatorReady(c) PROVE Goal  BY <1>23 DEF CoordinatorReady, Dead
<1>24. ASSUME NEW c \in Coordinators, CoordinatorLaunch(c) PROVE Goal  BY <1>24 DEF CoordinatorLaunch, Goto, Dead
<1>25. ASSUME NEW c \in Coordinators, CoordinatorFails(c) PROVE Goal  BY <1>25 DEF CoordinatorFails
<1> HIDE DEF Inv, TypeOK, Hosts, Restarts, Procs, Owning, Retiring, Seeking, Over,
    Served, SingleHost, Coupled, Parented, Unlaunched, Documented
<1> QED
  BY <1>1, <1>2, <1>3, <1>4, <1>5, <1>6, <1>7, <1>8, <1>9, <1>10, <1>11, <1>12, <1>13, <1>14, <1>15, <1>16, <1>17, <1>18, <1>19, <1>20, <1>21, <1>22, <1>23, <1>24, <1>25 DEF Next, Advance, Decide, Environment, Coordinate, Rest

LEMMA Invariance == Spec => []Inv
<1>1. Inv /\ [Next]_vars => Inv'
  <2> SUFFICES ASSUME Inv, [Next]_vars PROVE Inv'  OBVIOUS
  <2>1. TypeOK'  BY TypePreserved DEF Inv
  <2> QED  BY <2>1, CoherencePreserved DEF Inv
<1> QED  BY Initially, <1>1, PTL DEF Spec

-----------------------------------------------------------------------------
(* Every variable keeps its type, and the handles on the named event are    *)
(* those of the processes that own the instance or are about to look.       *)
THEOREM TypeCorrect == Spec => []TypeOK
<1>1. Inv => TypeOK  BY DEF Inv
<1> QED  BY Invariance, <1>1, PTL

(* However many launches, restarts, exits and crashes interleave, two       *)
(* processes never both own the instance (host_instance).                   *)
THEOREM OneHost == Spec => []SingleHost
<1>1. Inv => SingleHost  BY DEF Inv
<1> QED  BY Invariance, <1>1, PTL

(* No Host that has exited in an orderly way is named by the runtime        *)
(* document (host_runtime).                                                 *)
THEOREM NothingStale == Spec => []NoStaleAdvertisement
<1>1. Inv => NoStaleAdvertisement
  BY DEF Inv, Documented, NoStaleAdvertisement
<1> QED  BY Invariance, <1>1, PTL

(* A coordinator has launched a Host only when the Host that asked for it   *)
(* has gone, and never after a refused restart (host_restart).              *)
THEOREM LaunchInvited == Spec => []NoUninvitedLaunch
<1>1. Inv => NoUninvitedLaunch
  <2> SUFFICES ASSUME Inv, NEW c \in Coordinators, coord[c].pc = "launched"
               PROVE  LET old == host[coord[c].parent]
                      IN  old.pc \in {"gone", "killed"} /\ (old.pc = "gone" => old.control = "stopping")
    BY DEF NoUninvitedLaunch
  <2> DEFINE p == coord[c].parent
  <2>1. /\ p \in Procs /\ host[p].pc \in {"gone", "killed"}
        /\ host[p].coordinator = c \/ host[p].control = "stopping"
    BY DEF Inv, Parented
  <2>2. host[p].coordinator = c => host[p].pc = "killed"
    BY <2>1, ProcAssumption DEF Inv, Coupled, Procs
  <2> QED  BY <2>1, <2>2
<1> QED  BY Invariance, <1>1, PTL

(* No step takes back a shutdown or a restart that was accepted, not even   *)
(* the blind store of a restart that was refused (host_control).            *)
THEOREM AcceptedFinal == Spec => AcceptedIsFinal
<1> DEFINE Kept == \A p \in Procs : host[p].control = "stopping" => host'[p].control = "stopping"
<1>1. Inv /\ [Next]_vars => Kept
  <2> SUFFICES ASSUME Inv, [Next]_vars, NEW q \in Procs, host[q].control = "stopping"
               PROVE  host'[q].control = "stopping"
    OBVIOUS
  <2> USE DEF Inv, TypeOK, Coupled, Hosts
  <2>1. \A p \in Procs : Preparing(p) => p # q
    BY DEF Preparing
  <2>2. ASSUME NEW p \in Procs, Decide(p) PROVE host'[q].control = "stopping"
    BY <2>1, <2>2 DEF Decide, AcceptRestart, RefuseRestart, Settle
  <2>3. ASSUME NEW p \in Procs, Advance(p) PROVE host'[q].control = "stopping"
    <3>1. CASE Acquire(p) \/ DropHandle(p) \/ Activate(p) \/ GiveUp(p) \/ Serve(p)
      BY <3>1 DEF Goto, Acquire, DropHandle, Activate, GiveUp, Serve
    <3>2. CASE Announce(p) \/ Drain(p) \/ Stopped(p)
      BY <3>2 DEF Goto, Announce, Drain, Stopped
    <3>3. CASE DropInstance(p) \/ ReadDocument(p) \/ RemoveDocument(p)
      BY <3>3 DEF Goto, DropInstance, ReadDocument, RemoveDocument
    <3> QED
      BY <2>3, <3>1, <3>2, <3>3 DEF Advance
  <2>4. ASSUME NEW p \in Procs, Environment(p) PROVE host'[q].control = "stopping"
    BY <2>4 DEF Environment, Goto, Launch, Quit, RequestShutdown, RequestRestart, StartFails,
       BootFails, AnnounceFails, Kill
  <2>5. ASSUME NEW c \in Coordinators, Coordinate(c) \/ CoordinatorFails(c)
        PROVE  host'[q].control = "stopping"
    BY <2>5 DEF Coordinate, Goto, CoordinatorReady, CoordinatorLaunch, CoordinatorFails
  <2>6. CASE UNCHANGED vars  BY <2>6 DEF vars
  <2> QED  BY <2>2, <2>3, <2>4, <2>5, <2>6 DEF Next, Rest
<1>2. Spec => [][Inv /\ Inv' /\ Kept]_vars
  BY Invariance, <1>1, PTL DEF Spec
<1> QED  BY <1>2, PTL DEF AcceptedIsFinal
=============================================================================
