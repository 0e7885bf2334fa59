-------------------------- MODULE ReleaseSetProofs --------------------------
(***************************************************************************)
(* What holds of the Releases of an installation for any number of         *)
(* publications, cleanups and launches.                                    *)
(*                                                                         *)
(* The lock makes what its holder has read stay true: a publisher's        *)
(* validated Release stays in place, and a cleaner's idea of the selector  *)
(* stays right (Ready, Informed).  Launches take no lock; what protects    *)
(* them is that whoever runs from the Release that is about to be removed  *)
(* came after the look at the processes (Watched).                         *)
(***************************************************************************)
EXTENDS ReleaseSet, TLAPS

Ready == \A u \in Publishers :
  /\ publisher[u].pc # "idle" => publisher[u].release \in Releases
  /\ publisher[u].pc \in {"valid", "replacing", "selected"} => publisher[u].release \in releases

Informed == \A c \in Cleaners :
  /\ cleaner[c].pc \in {"read", "planned", "isolating"} => cleaner[c].keep = selected
  /\ cleaner[c].pc \in {"planned", "isolating"} => cleaner[c].keep \notin cleaner[c].plan
  /\ cleaner[c].pc = "isolating" =>
       cleaner[c].item \in Releases /\ cleaner[c].item # cleaner[c].keep

Watched == \A c \in Cleaners :
  cleaner[c].pc = "isolating" => Users(cleaner[c].item) \subseteq fresh

Inv == TypeOK /\ SelectedIsWhole /\ Ready /\ Informed /\ Watched

(* The first state, with one Release or none.                               *)
LEMMA Initially == Init => Inv
BY PartyAssumption DEF Init, Inv, TypeOK, Cleanups, SelectedIsWhole, Ready, Informed, Watched,
   NoPublisher, NoCleaner, NoLaunch, Maybe, Publishing, Cleaning, Running, Users

(* A cleanup that notes what it has read or planned keeps its shape.        *)
LEMMA CleanerTyped ==
  ASSUME cleaner \in [Cleaners -> Cleanups], NEW c \in Cleaners,
         NEW pc \in Cleaning \cup {"waiting"}, NEW r \in Maybe(Releases), NEW S \in SUBSET Releases
  PROVE  /\ [cleaner EXCEPT ![c].pc = pc] \in [Cleaners -> Cleanups]
         /\ [cleaner EXCEPT ![c].pc = pc, ![c].own = r] \in [Cleaners -> Cleanups]
         /\ [cleaner EXCEPT ![c].pc = pc, ![c].keep = r] \in [Cleaners -> Cleanups]
         /\ [cleaner EXCEPT ![c].pc = pc, ![c].plan = S] \in [Cleaners -> Cleanups]
<1>1. cleaner[c] \in Cleanups
  OBVIOUS
<1>2. /\ [cleaner[c] EXCEPT !.pc = pc] \in Cleanups
      /\ [cleaner[c] EXCEPT !.pc = pc, !.own = r] \in Cleanups
      /\ [cleaner[c] EXCEPT !.pc = pc, !.keep = r] \in Cleanups
      /\ [cleaner[c] EXCEPT !.pc = pc, !.plan = S] \in Cleanups
  BY <1>1 DEF Cleanups
<1> QED
  BY <1>2

(* The same for one that takes a Release off its plan.                      *)
LEMMA TakenTyped ==
  ASSUME cleaner \in [Cleaners -> Cleanups], NEW c \in Cleaners,
         NEW r \in Releases, NEW S \in SUBSET Releases
  PROVE  /\ [cleaner EXCEPT ![c].plan = S] \in [Cleaners -> Cleanups]
         /\ [cleaner EXCEPT ![c].pc = "isolating", ![c].item = r, ![c].plan = S]
              \in [Cleaners -> Cleanups]
<1>1. cleaner[c] \in Cleanups
  OBVIOUS
<1>2. /\ [cleaner[c] EXCEPT !.plan = S] \in Cleanups
      /\ [cleaner[c] EXCEPT !.pc = "isolating", !.item = r, !.plan = S] \in Cleanups
  BY <1>1 DEF Cleanups, Cleaning, Maybe
<1> QED
  BY <1>2

(* No step takes a variable out of its type, and the lock has at most one   *)
(* holder, who is at work.                                                  *)
LEMMA TypePreserved == ASSUME Inv, [Next]_vars PROVE TypeOK'
<1> USE PartyAssumption DEF Inv, TypeOK, Cleanups, Ready, Maybe, Publishing, Cleaning, Running
<1>1. CASE UNCHANGED vars
  BY <1>1 DEF vars
<1>2. ASSUME NEW u \in Publishers, PublishLock(u) PROVE TypeOK'
  BY <1>2 DEF PublishLock, PublisherAt
<1>3. ASSUME NEW u \in Publishers, NEW r \in Releases, PublishBegin(u, r) PROVE TypeOK'
  BY <1>3 DEF PublishBegin
<1>4. ASSUME NEW u \in Publishers, PublishLook(u) PROVE TypeOK'
  BY <1>4 DEF PublishLook, PublisherAt
<1>5. ASSUME NEW u \in Publishers, PublishMove(u) PROVE TypeOK'
  BY <1>5 DEF PublishMove, PublisherAt
<1>6. ASSUME NEW u \in Publishers, PublishValidate(u) PROVE TypeOK'
  BY <1>6 DEF PublishValidate, PublisherAt
<1>7. ASSUME NEW u \in Publishers, PublishSelect(u) PROVE TypeOK'
  BY <1>7 DEF PublishSelect
<1>8. ASSUME NEW u \in Publishers, PublishReplace(u) PROVE TypeOK'
  BY <1>8 DEF PublishReplace, PublisherAt
<1>9. ASSUME NEW u \in Publishers, PublishEnd(u) PROVE TypeOK'
  BY <1>9 DEF PublishEnd, NoPublisher
<1>10. ASSUME NEW p \in Launches, ReadSelector(p) PROVE TypeOK'
  BY <1>10 DEF ReadSelector
<1>11. ASSUME NEW p \in Launches, FindCore(p) PROVE TypeOK'
  BY <1>11 DEF FindCore, LaunchAt
<1>12. ASSUME NEW p \in Launches, Bootstrapped(p) PROVE TypeOK'
  BY <1>12 DEF Bootstrapped, LaunchAt
<1>13. ASSUME NEW p \in Launches, StartCore(p) PROVE TypeOK'
  BY <1>13 DEF StartCore, LaunchAt
<1>14. ASSUME NEW p \in Launches, StartHost(p) PROVE TypeOK'
  BY <1>14 DEF StartHost, LaunchAt
<1>15. ASSUME NEW p \in Launches, LaunchEnd(p) PROVE TypeOK'
  BY <1>15 DEF LaunchEnd, NoLaunch
<1>16. ASSUME NEW p \in Launches, NEW c \in Cleaners, CleanBegin(p, c) PROVE TypeOK'
  <2> HIDE DEF Cleanups
  <2>1. cleaner' \in [Cleaners -> Cleanups]
    BY <1>16, CleanerTyped DEF CleanBegin
  <2>2. \A d \in Cleaners \ {c} : cleaner'[d] = cleaner[d]
    BY <1>16 DEF CleanBegin
  <2>3. cleaner[c].pc = "idle" /\ cleaner'[c].pc = "waiting"
    BY <1>16 DEF CleanBegin, Cleanups
  <2> QED
    BY <1>16, <2>1, <2>2, <2>3 DEF CleanBegin
<1>17. ASSUME NEW c \in Cleaners, CleanLock(c) PROVE TypeOK'
  <2> HIDE DEF Cleanups
  <2>0. "locked" \in Cleaning \cup {"waiting"}
    OBVIOUS
  <2>1. cleaner' \in [Cleaners -> Cleanups]
    BY <1>17, <2>0, CleanerTyped DEF CleanLock, CleanerAt
  <2>2. \A d \in Cleaners \ {c} : cleaner'[d] = cleaner[d]
    BY <1>17 DEF CleanLock, CleanerAt
  <2>3. cleaner[c].pc = "waiting" /\ cleaner'[c].pc = "locked"
    BY <1>17 DEF CleanLock, CleanerAt, Cleanups
  <2> QED
    BY <1>17, <2>1, <2>2, <2>3 DEF CleanLock
<1>18. ASSUME NEW c \in Cleaners, CleanRead(c) PROVE TypeOK'
  <2> HIDE DEF Cleanups
  <2>1. cleaner' \in [Cleaners -> Cleanups]
    BY <1>18, CleanerTyped DEF CleanRead
  <2>2. \A d \in Cleaners \ {c} : cleaner'[d] = cleaner[d]
    BY <1>18 DEF CleanRead
  <2>3. cleaner[c].pc = "locked" /\ cleaner'[c].pc = "read"
    BY <1>18 DEF CleanRead, Cleanups
  <2> QED
    BY <1>18, <2>1, <2>2, <2>3 DEF CleanRead
<1>19. ASSUME NEW c \in Cleaners, CleanPlan(c) PROVE TypeOK'
  <2> HIDE DEF Cleanups
  <2>1. cleaner' \in [Cleaners -> Cleanups]
    BY <1>19, CleanerTyped DEF CleanPlan
  <2>2. \A d \in Cleaners \ {c} : cleaner'[d] = cleaner[d]
    BY <1>19 DEF CleanPlan
  <2>3. cleaner[c].pc = "read" /\ cleaner'[c].pc = "planned"
    BY <1>19 DEF CleanPlan, Cleanups
  <2> QED
    BY <1>19, <2>1, <2>2, <2>3 DEF CleanPlan
<1>20. ASSUME NEW c \in Cleaners, NEW r \in Releases, CleanLook(c, r) PROVE TypeOK'
  <2> HIDE DEF Cleanups
  <2>0. /\ cleaner[c].pc = "planned" /\ cleaner[c].plan \ {r} \in SUBSET Releases
        /\ "planned" \in Cleaning \cup {"waiting"} /\ "isolating" \in Cleaning \cup {"waiting"}
    BY <1>20 DEF CleanLook, Cleanups
  <2>1. CASE Users(r) = {}
    <3>1. cleaner' = [cleaner EXCEPT ![c].pc = "isolating", ![c].item = r,
                                     ![c].plan = cleaner[c].plan \ {r}]
      BY <1>20, <2>1 DEF CleanLook, Take
    <3>2. cleaner' \in [Cleaners -> Cleanups]
      BY <2>0, <3>1, TakenTyped
    <3>3. (\A d \in Cleaners \ {c} : cleaner'[d] = cleaner[d]) /\ cleaner'[c].pc = "isolating"
      BY <3>1 DEF Cleanups
    <3> QED
      BY <1>20, <2>0, <3>2, <3>3 DEF CleanLook
  <2>2. CASE Users(r) # {}
    <3>1. cleaner' = [cleaner EXCEPT ![c].plan = cleaner[c].plan \ {r}]
      BY <1>20, <2>2 DEF CleanLook
    <3>2. cleaner' \in [Cleaners -> Cleanups]
      BY <2>0, <3>1, TakenTyped
    <3>3. (\A d \in Cleaners \ {c} : cleaner'[d] = cleaner[d]) /\ cleaner'[c].pc = "planned"
      BY <2>0, <3>1 DEF Cleanups
    <3> QED
      BY <1>20, <2>0, <3>2, <3>3 DEF CleanLook
  <2> QED
    BY <2>1, <2>2
<1>21. ASSUME NEW c \in Cleaners, CleanIsolate(c) PROVE TypeOK'
  <2> HIDE DEF Cleanups
  <2>1. cleaner[c].pc = "isolating" /\ cleaner' = [cleaner EXCEPT ![c].pc = "planned"]
    BY <1>21 DEF CleanIsolate, CleanerAt
  <2>2. cleaner' \in [Cleaners -> Cleanups]
    BY <2>1, CleanerTyped
  <2>3. (\A d \in Cleaners \ {c} : cleaner'[d] = cleaner[d]) /\ cleaner'[c].pc = "planned"
    BY <2>1 DEF Cleanups
  <2> QED
    BY <1>21, <2>1, <2>2, <2>3 DEF CleanIsolate
<1>22. ASSUME NEW c \in Cleaners, CleanEnd(c) PROVE TypeOK'
  BY <1>22 DEF CleanEnd, NoCleaner
<1> HIDE DEF Inv, TypeOK, Cleanups, Ready, Maybe, Publishing, Cleaning, Running
<1> QED
  BY <1>1, <1>2, <1>3, <1>4, <1>5, <1>6, <1>7, <1>8, <1>9, <1>10, <1>11, <1>12, <1>13, <1>14, <1>15, <1>16, <1>17, <1>18, <1>19, <1>20, <1>21, <1>22
     DEF Next, PublisherStep, LaunchStep, CleanerStep

(* What the holder of the lock knows stays true.                            *)
LEMMA WholePreserved == ASSUME Inv, [Next]_vars PROVE (SelectedIsWhole /\ Ready /\ Informed)'
<1> USE PartyAssumption DEF Inv, TypeOK, Cleanups, SelectedIsWhole, Ready, Informed, Maybe, Publishing, Cleaning
<1>1. CASE UNCHANGED vars
  BY <1>1 DEF vars
<1>2. ASSUME NEW u \in Publishers, PublishLock(u) PROVE (SelectedIsWhole /\ Ready /\ Informed)'
  BY <1>2 DEF PublishLock, PublisherAt
<1>3. ASSUME NEW u \in Publishers, NEW r \in Releases, PublishBegin(u, r) PROVE (SelectedIsWhole /\ Ready /\ Informed)'
  BY <1>3 DEF PublishBegin
<1>4. ASSUME NEW u \in Publishers, PublishLook(u) PROVE (SelectedIsWhole /\ Ready /\ Informed)'
  BY <1>4 DEF PublishLook, PublisherAt
<1>5. ASSUME NEW u \in Publishers, PublishMove(u) PROVE (SelectedIsWhole /\ Ready /\ Informed)'
  BY <1>5 DEF PublishMove, PublisherAt
<1>6. ASSUME NEW u \in Publishers, PublishValidate(u) PROVE (SelectedIsWhole /\ Ready /\ Informed)'
  BY <1>6 DEF PublishValidate, PublisherAt
<1>7. ASSUME NEW u \in Publishers, PublishSelect(u) PROVE (SelectedIsWhole /\ Ready /\ Informed)'
  BY <1>7 DEF PublishSelect
<1>8. ASSUME NEW u \in Publishers, PublishReplace(u) PROVE (SelectedIsWhole /\ Ready /\ Informed)'
  BY <1>8 DEF PublishReplace, PublisherAt
<1>9. ASSUME NEW u \in Publishers, PublishEnd(u) PROVE (SelectedIsWhole /\ Ready /\ Informed)'
  BY <1>9 DEF PublishEnd, NoPublisher
<1>10. ASSUME NEW p \in Launches, ReadSelector(p) PROVE (SelectedIsWhole /\ Ready /\ Informed)'
  BY <1>10 DEF ReadSelector
<1>11. ASSUME NEW p \in Launches, FindCore(p) PROVE (SelectedIsWhole /\ Ready /\ Informed)'
  BY <1>11 DEF FindCore, LaunchAt
<1>12. ASSUME NEW p \in Launches, Bootstrapped(p) PROVE (SelectedIsWhole /\ Ready /\ Informed)'
  BY <1>12 DEF Bootstrapped, LaunchAt
<1>13. ASSUME NEW p \in Launches, StartCore(p) PROVE (SelectedIsWhole /\ Ready /\ Informed)'
  BY <1>13 DEF StartCore, LaunchAt
<1>14. ASSUME NEW p \in Launches, StartHost(p) PROVE (SelectedIsWhole /\ Ready /\ Informed)'
  BY <1>14 DEF StartHost, LaunchAt
<1>15. ASSUME NEW p \in Launches, LaunchEnd(p) PROVE (SelectedIsWhole /\ Ready /\ Informed)'
  BY <1>15 DEF LaunchEnd, NoLaunch
<1>16. ASSUME NEW p \in Launches, NEW c \in Cleaners, CleanBegin(p, c) PROVE (SelectedIsWhole /\ Ready /\ Informed)'
  BY <1>16 DEF CleanBegin
<1>17. ASSUME NEW c \in Cleaners, CleanLock(c) PROVE (SelectedIsWhole /\ Ready /\ Informed)'
  BY <1>17 DEF CleanLock, CleanerAt
<1>18. ASSUME NEW c \in Cleaners, CleanRead(c) PROVE (SelectedIsWhole /\ Ready /\ Informed)'
  BY <1>18 DEF CleanRead
<1>19. ASSUME NEW c \in Cleaners, CleanPlan(c) PROVE (SelectedIsWhole /\ Ready /\ Informed)'
  BY <1>19 DEF CleanPlan
<1>20. ASSUME NEW c \in Cleaners, NEW r \in Releases, CleanLook(c, r) PROVE (SelectedIsWhole /\ Ready /\ Informed)'
  BY <1>20 DEF CleanLook, Take
<1>21. ASSUME NEW c \in Cleaners, CleanIsolate(c) PROVE (SelectedIsWhole /\ Ready /\ Informed)'
  BY <1>21 DEF CleanIsolate, CleanerAt
<1>22. ASSUME NEW c \in Cleaners, CleanEnd(c) PROVE (SelectedIsWhole /\ Ready /\ Informed)'
  BY <1>22 DEF CleanEnd, NoCleaner
<1> HIDE DEF Inv, TypeOK, Cleanups, SelectedIsWhole, Ready, Informed, Maybe, Publishing, Cleaning
<1> QED
  BY <1>1, <1>2, <1>3, <1>4, <1>5, <1>6, <1>7, <1>8, <1>9, <1>10, <1>11, <1>12, <1>13, <1>14, <1>15, <1>16, <1>17, <1>18, <1>19, <1>20, <1>21, <1>22
     DEF Next, PublisherStep, LaunchStep, CleanerStep

(* Whoever joins the users of a Release under removal is fresh.             *)
LEMMA WatchPreserved == ASSUME Inv, [Next]_vars PROVE Watched'
<1> USE PartyAssumption DEF Inv, TypeOK, Cleanups, Watched, Users, Running, Cleaning, Publishing
<1>1. CASE UNCHANGED vars
  BY <1>1 DEF vars
<1>2. ASSUME NEW u \in Publishers, PublishLock(u) PROVE Watched'
  BY <1>2 DEF PublishLock, PublisherAt
<1>3. ASSUME NEW u \in Publishers, NEW r \in Releases, PublishBegin(u, r) PROVE Watched'
  BY <1>3 DEF PublishBegin
<1>4. ASSUME NEW u \in Publishers, PublishLook(u) PROVE Watched'
  BY <1>4 DEF PublishLook, PublisherAt
<1>5. ASSUME NEW u \in Publishers, PublishMove(u) PROVE Watched'
  BY <1>5 DEF PublishMove, PublisherAt
<1>6. ASSUME NEW u \in Publishers, PublishValidate(u) PROVE Watched'
  BY <1>6 DEF PublishValidate, PublisherAt
<1>7. ASSUME NEW u \in Publishers, PublishSelect(u) PROVE Watched'
  BY <1>7 DEF PublishSelect
<1>8. ASSUME NEW u \in Publishers, PublishReplace(u) PROVE Watched'
  BY <1>8 DEF PublishReplace, PublisherAt
<1>9. ASSUME NEW u \in Publishers, PublishEnd(u) PROVE Watched'
  BY <1>9 DEF PublishEnd, NoPublisher
<1>10. ASSUME NEW p \in Launches, ReadSelector(p) PROVE Watched'
  BY <1>10 DEF ReadSelector
<1>11. ASSUME NEW p \in Launches, FindCore(p) PROVE Watched'
  BY <1>11 DEF FindCore, LaunchAt
<1>12. ASSUME NEW p \in Launches, Bootstrapped(p) PROVE Watched'
  BY <1>12 DEF Bootstrapped, LaunchAt
<1>13. ASSUME NEW p \in Launches, StartCore(p) PROVE Watched'
  BY <1>13 DEF StartCore, LaunchAt
<1>14. ASSUME NEW p \in Launches, StartHost(p) PROVE Watched'
  BY <1>14 DEF StartHost, LaunchAt
<1>15. ASSUME NEW p \in Launches, LaunchEnd(p) PROVE Watched'
  BY <1>15 DEF LaunchEnd, NoLaunch
<1>16. ASSUME NEW p \in Launches, NEW c \in Cleaners, CleanBegin(p, c) PROVE Watched'
  BY <1>16 DEF CleanBegin
<1>17. ASSUME NEW c \in Cleaners, CleanLock(c) PROVE Watched'
  BY <1>17 DEF CleanLock, CleanerAt
<1>18. ASSUME NEW c \in Cleaners, CleanRead(c) PROVE Watched'
  BY <1>18 DEF CleanRead
<1>19. ASSUME NEW c \in Cleaners, CleanPlan(c) PROVE Watched'
  BY <1>19 DEF CleanPlan
<1>20. ASSUME NEW c \in Cleaners, NEW r \in Releases, CleanLook(c, r) PROVE Watched'
  BY <1>20 DEF CleanLook, Take
<1>21. ASSUME NEW c \in Cleaners, CleanIsolate(c) PROVE Watched'
  BY <1>21 DEF CleanIsolate, CleanerAt
<1>22. ASSUME NEW c \in Cleaners, CleanEnd(c) PROVE Watched'
  BY <1>22 DEF CleanEnd, NoCleaner
<1> HIDE DEF Inv, TypeOK, Cleanups, Watched, Users, Running, Cleaning, Publishing
<1> QED
  BY <1>1, <1>2, <1>3, <1>4, <1>5, <1>6, <1>7, <1>8, <1>9, <1>10, <1>11, <1>12, <1>13, <1>14, <1>15, <1>16, <1>17, <1>18, <1>19, <1>20, <1>21, <1>22
     DEF Next, PublisherStep, LaunchStep, CleanerStep

LEMMA Invariance == Spec => []Inv
<1>1. Inv /\ [Next]_vars => Inv'
  BY TypePreserved, WholePreserved, WatchPreserved DEF Inv
<1> QED
  BY Initially, <1>1, PTL DEF Spec

-----------------------------------------------------------------------------
(* Every variable keeps its type; the lock always belongs to the party that *)
(* is at work under it, and to nobody when none is (release-publish.lock).  *)
THEOREM TypeCorrect == Spec => []TypeOK
<1>1. Inv => TypeOK
  BY DEF Inv
<1> QED
  BY Invariance, <1>1, PTL

(* The selector names a whole Release at any time (publishSelector,         *)
(* remove_release).                                                         *)
THEOREM SelectionSound == Spec => []SelectedIsWhole
<1>1. Inv => SelectedIsWhole
  BY DEF Inv
<1> QED
  BY Invariance, <1>1, PTL

(* No Release is removed under a process that the cleanup could have seen   *)
(* at its last look (execute_plan).                                         *)
THEOREM UsersSafe == Spec => UsersKept
<1> DEFINE Kept == \A r \in releases \ releases' : Users(r) \subseteq fresh
<1>1. Inv /\ [Next]_vars => Kept
  <2> SUFFICES ASSUME Inv, [Next]_vars PROVE Kept
    OBVIOUS
  <2>1. ASSUME NEW c \in Cleaners, CleanIsolate(c) PROVE Kept
    BY <2>1 DEF CleanIsolate, CleanerAt, Inv, Watched
  <2>2. ASSUME NEW c \in Cleaners, CleanerStep(c), ~CleanIsolate(c) PROVE Kept
    BY <2>2 DEF CleanerStep, CleanLock, CleanRead, CleanPlan, CleanEnd, CleanLook
  <2>3. ASSUME NEW u \in Publishers, PublisherStep(u) PROVE Kept
    BY <2>3 DEF PublisherStep, PublishLock, PublishLook, PublishMove, PublishValidate,
       PublishReplace, PublishSelect, PublishEnd
  <2>4. ASSUME NEW u \in Publishers, NEW r \in Releases, PublishBegin(u, r) PROVE Kept
    BY <2>4 DEF PublishBegin
  <2>5. ASSUME NEW p \in Launches, LaunchStep(p) PROVE Kept
    BY <2>5 DEF LaunchStep, ReadSelector, FindCore, Bootstrapped, StartCore, StartHost, LaunchEnd
  <2>6. ASSUME NEW p \in Launches, NEW c \in Cleaners, CleanBegin(p, c) PROVE Kept
    BY <2>6 DEF CleanBegin
  <2>7. CASE UNCHANGED vars
    BY <2>7 DEF vars
  <2> QED
    BY <2>1, <2>2, <2>3, <2>4, <2>5, <2>6, <2>7 DEF Next
<1>2. Spec => [][Kept]_vars
  BY Invariance, <1>1, PTL DEF Spec
<1> QED
  BY <1>2, PTL DEF UsersKept
=============================================================================
