----------------------------- MODULE ReleaseSet -----------------------------
(***************************************************************************)
(* The Runtime Releases of one installation: their publication by a build  *)
(* or by Bootstrap, the selector that names the current one, the launches  *)
(* that read it, and the explicit cleanup that removes old ones.           *)
(*                                                                         *)
(* Publications and cleanups exclude each other with a lock file, opened   *)
(* with share mode 0, that goes with its process.  Launches take no lock.  *)
(***************************************************************************)
EXTENDS Naturals

CONSTANTS Releases,    \* identities of Releases, that is, hashes of their content
          Publishers,  \* publications in progress
          Cleaners,    \* cleanups in progress (Toolchain processes)
          Launches     \* launches, and the Core and the Host they become

ASSUME PartyAssumption ==
  /\ Publishers \cap Cleaners = {} /\ Launches \cap Cleaners = {}
  /\ "none" \notin Releases \cup Publishers \cup Cleaners

VARIABLES
  releases,   \* the Releases with a whole directory under its final name
  selected,   \* the content of _bin/current, or "none"
  lock,       \* who holds release-publish.lock, or "none"
  publisher, cleaner, launch,  \* where each of them stands
  fresh       \* the processes started since the cleanup has last looked

vars == <<releases, selected, lock, publisher, cleaner, launch, fresh>>

Publishing == {"locked", "staged", "present", "valid", "replacing", "selected"}
Cleaning   == {"locked", "read", "planned", "isolating"}
Running    == {"core", "host"}
Maybe(S)   == S \cup {"none"}

Cleanups == [pc : Cleaning \cup {"idle", "waiting"}, own : Maybe(Releases),
             keep : Maybe(Releases), plan : SUBSET Releases, item : Maybe(Releases)]

(* The lock belongs to the party that is between its Lock and its end.      *)
TypeOK ==
  /\ releases \subseteq Releases
  /\ selected \in Maybe(Releases)
  /\ publisher \in [Publishers -> [pc : Publishing \cup {"idle", "waiting"},
                                   release : Maybe(Releases)]]
  /\ cleaner \in [Cleaners -> Cleanups]
  /\ launch \in [Launches -> [pc : Running \cup {"idle", "read", "found", "bootstrap", "lost"},
                              release : Maybe(Releases)]]
  /\ fresh \subseteq Launches \cup Cleaners
  /\ {lock} \ {"none"} = {u \in Publishers : publisher[u].pc \in Publishing}
                           \cup {c \in Cleaners : cleaner[c].pc \in Cleaning}

NoPublisher == [pc |-> "idle", release |-> "none"]
NoCleaner   == [pc |-> "idle", own |-> "none", keep |-> "none", plan |-> {}, item |-> "none"]
NoLaunch    == [pc |-> "idle", release |-> "none"]

(* An installation with one Release, or one that has none yet. *)
Init ==
  /\ \E r \in Maybe(Releases) : selected = r /\ releases = {r} \ {"none"}
  /\ lock = "none" /\ fresh = {}
  /\ publisher = [u \in Publishers |-> NoPublisher]
  /\ cleaner = [c \in Cleaners |-> NoCleaner]
  /\ launch = [p \in Launches |-> NoLaunch]

-----------------------------------------------------------------------------
(* publishRuntimeReleaseSet, and its PowerShell counterpart for Bootstrap *)

PublisherAt(u, from, to) ==
  publisher[u].pc = from /\ publisher' = [publisher EXCEPT ![u].pc = to]

PublishBegin(u, r) ==
  /\ publisher[u].pc = "idle"
  /\ publisher' = [publisher EXCEPT ![u] = [pc |-> "waiting", release |-> r]]
  /\ UNCHANGED <<releases, selected, lock, cleaner, launch, fresh>>

PublishLock(u) ==
  /\ lock = "none" /\ lock' = u
  /\ PublisherAt(u, "waiting", "locked")
  /\ UNCHANGED <<releases, selected, cleaner, launch, fresh>>

(* A Release that is there already is not copied again. *)
PublishLook(u) ==
  /\ PublisherAt(u, "locked", IF publisher[u].release \in releases THEN "present" ELSE "staged")
  /\ UNCHANGED <<releases, selected, lock, cleaner, launch, fresh>>

(* The files are copied and checked in a work directory, and appear under   *)
(* the final name at once.                                                  *)
PublishMove(u) ==
  /\ PublisherAt(u, "staged", "present")
  /\ releases' = releases \cup {publisher[u].release}
  /\ UNCHANGED <<selected, lock, cleaner, launch, fresh>>

PublishValidate(u) ==
  /\ publisher[u].release \in releases
  /\ PublisherAt(u, "present", "valid")
  /\ UNCHANGED <<releases, selected, lock, cleaner, launch, fresh>>

(* File.Replace, as Bootstrap calls it, moves the old selector out of the   *)
(* way before the new one takes its name.  A selector that is right stays.  *)
PublishReplace(u) ==
  /\ selected \notin {"none", publisher[u].release}
  /\ PublisherAt(u, "valid", "replacing")
  /\ selected' = "none"
  /\ UNCHANGED <<releases, lock, cleaner, launch, fresh>>

(* The explicit publication replaces the selector at once.                  *)
PublishSelect(u) ==
  /\ publisher[u].pc \in {"valid", "replacing"}
  /\ publisher' = [publisher EXCEPT ![u].pc = "selected"]
  /\ selected' = publisher[u].release
  /\ UNCHANGED <<releases, lock, cleaner, launch, fresh>>

(* Success, an error, a lock that was busy for 120 seconds, or the end of   *)
(* the process: a work directory may stay behind, the lock does not.        *)
PublishEnd(u) ==
  /\ publisher[u].pc # "idle"
  /\ publisher' = [publisher EXCEPT ![u] = NoPublisher]
  /\ lock' = IF lock = u THEN "none" ELSE lock
  /\ UNCHANGED <<releases, selected, cleaner, launch, fresh>>

-----------------------------------------------------------------------------
(* launcher_entry and launch_host *)

LaunchAt(p, from, to) == launch[p].pc = from /\ launch' = [launch EXCEPT ![p].pc = to]

(* resolve_current_core reads the selector and then looks for the Core. *)
ReadSelector(p) ==
  /\ launch[p].pc = "idle"
  /\ launch' = [launch EXCEPT ![p] = [pc |-> "read", release |-> selected]]
  /\ UNCHANGED <<releases, selected, lock, publisher, cleaner, fresh>>

FindCore(p) ==
  /\ LaunchAt(p, "read", IF launch[p].release \in releases THEN "found" ELSE "bootstrap")
  /\ UNCHANGED <<releases, selected, lock, publisher, cleaner, fresh>>

(* run_bootstrap: a valid selected Release is left alone, another one is    *)
(* built and published otherwise; then the selector is read again.          *)
Bootstrapped(p) ==
  /\ selected \in releases
  /\ LaunchAt(p, "bootstrap", "idle")
  /\ UNCHANGED <<releases, selected, lock, publisher, cleaner, fresh>>

StartCore(p) ==
  /\ LaunchAt(p, "found", IF launch[p].release \in releases THEN "core" ELSE "lost")
  /\ fresh' = IF launch'[p].pc = "core" THEN fresh \cup {p} ELSE fresh
  /\ UNCHANGED <<releases, selected, lock, publisher, cleaner>>

(* The Core starts the Host beside it, and ends after that. *)
StartHost(p) ==
  /\ LaunchAt(p, "core", IF launch[p].release \in releases THEN "host" ELSE "lost")
  /\ UNCHANGED <<releases, selected, lock, publisher, cleaner, fresh>>

LaunchEnd(p) ==
  /\ launch[p].pc # "idle"
  /\ launch' = [launch EXCEPT ![p] = NoLaunch]
  /\ fresh' = fresh \ {p}
  /\ UNCHANGED <<releases, selected, lock, publisher, cleaner>>

-----------------------------------------------------------------------------
(* runtime_cleanup *)

(* The processes whose image is in the directory of a Release. *)
Users(r) ==
  {p \in Launches : launch[p].pc \in Running /\ launch[p].release = r}
    \cup {c \in Cleaners : cleaner[c].pc # "idle" /\ cleaner[c].own = r}

CleanerAt(c, from, to) == cleaner[c].pc = from /\ cleaner' = [cleaner EXCEPT ![c].pc = to]

(* A Core or a Host starts the Toolchain beside it. *)
CleanBegin(p, c) ==
  /\ launch[p].pc \in Running /\ launch[p].release \in releases
  /\ cleaner[c].pc = "idle"
  /\ cleaner' = [cleaner EXCEPT ![c].pc = "waiting", ![c].own = launch[p].release]
  /\ fresh' = fresh \cup {c}
  /\ UNCHANGED <<releases, selected, lock, publisher, launch>>

(* Mutant: the lock file is opened for shared use. *)
CleanLockShared(c) ==
  /\ lock' = c
  /\ CleanerAt(c, "waiting", "locked")
  /\ UNCHANGED <<releases, selected, publisher, launch, fresh>>

CleanLock(c) ==
  /\ lock = "none" /\ lock' = c
  /\ CleanerAt(c, "waiting", "locked")
  /\ UNCHANGED <<releases, selected, publisher, launch, fresh>>

CleanRead(c) ==
  /\ cleaner[c].pc = "locked" /\ selected # "none"
  /\ cleaner' = [cleaner EXCEPT ![c].pc = "read", ![c].keep = selected]
  /\ UNCHANGED <<releases, selected, lock, publisher, launch, fresh>>

(* One look at the processes, and the plan. *)
CleanPlan(c) ==
  /\ cleaner[c].pc = "read" /\ cleaner[c].keep \in releases
  /\ cleaner' = [cleaner EXCEPT ![c].pc = "planned",
                   ![c].plan = {r \in releases \ {cleaner[c].keep} : Users(r) = {}}]
  /\ fresh' = {}
  /\ UNCHANGED <<releases, selected, lock, publisher, launch>>

Take(c, r) == cleaner' = [cleaner EXCEPT ![c].pc = "isolating", ![c].item = r, ![c].plan = @ \ {r}]

(* Mutant: Toolchain processes do not count as users. *)
CleanLookLaunches(c, r) ==
  /\ cleaner[c].pc = "planned" /\ r \in cleaner[c].plan
  /\ IF Users(r) \cap Launches = {} THEN Take(c, r)
                                    ELSE cleaner' = [cleaner EXCEPT ![c].plan = @ \ {r}]
  /\ fresh' = {}
  /\ UNCHANGED <<releases, selected, lock, publisher, launch>>

(* Another look before each removal; a Release in use again is passed over. *)
CleanLook(c, r) ==
  /\ cleaner[c].pc = "planned" /\ r \in cleaner[c].plan
  /\ IF Users(r) = {} THEN Take(c, r) ELSE cleaner' = [cleaner EXCEPT ![c].plan = @ \ {r}]
  /\ fresh' = {}
  /\ UNCHANGED <<releases, selected, lock, publisher, launch>>

(* The Release is validated once more and renamed to a tombstone, which     *)
(* nobody takes for a Release; what is left of it if it cannot be deleted   *)
(* stays there.                                                             *)
CleanIsolate(c) ==
  /\ CleanerAt(c, "isolating", "planned")
  /\ cleaner[c].item \in releases
  /\ releases' = releases \ {cleaner[c].item}
  /\ UNCHANGED <<selected, lock, publisher, launch, fresh>>

(* The end of the plan, an error at any step (a process that ended while    *)
(* it was looked at, a rename that is refused) or the end of the process.   *)
CleanEnd(c) ==
  /\ cleaner[c].pc # "idle"
  /\ cleaner' = [cleaner EXCEPT ![c] = NoCleaner]
  /\ lock' = IF lock = c THEN "none" ELSE lock
  /\ fresh' = fresh \ {c}
  /\ UNCHANGED <<releases, selected, publisher, launch>>

-----------------------------------------------------------------------------
PublisherStep(u) ==
  \/ PublishLock(u) \/ PublishLook(u) \/ PublishMove(u) \/ PublishValidate(u)
  \/ PublishReplace(u) \/ PublishSelect(u) \/ PublishEnd(u)

LaunchStep(p) ==
  ReadSelector(p) \/ FindCore(p) \/ Bootstrapped(p) \/ StartCore(p) \/ StartHost(p) \/ LaunchEnd(p)

CleanerStep(c) ==
  \/ CleanLock(c) \/ CleanRead(c) \/ CleanPlan(c) \/ CleanIsolate(c) \/ CleanEnd(c)
  \/ \E r \in Releases : CleanLook(c, r)

Next ==
  \/ \E u \in Publishers : PublisherStep(u) \/ \E r \in Releases : PublishBegin(u, r)
  \/ \E p \in Launches : LaunchStep(p) \/ \E c \in Cleaners : CleanBegin(p, c)
  \/ \E c \in Cleaners : CleanerStep(c)

Spec == Init /\ [][Next]_vars

-----------------------------------------------------------------------------
(* Properties *)

(* The selector names a whole Release at any time, whatever publications    *)
(* and cleanups are killed at any step and follow each other.               *)
SelectedIsWhole == selected # "none" => selected \in releases

(* A Release is removed under no process that was there when the cleanup    *)
(* looked before that removal: a Core that has not started its Host yet, a  *)
(* Host, or a Toolchain, be it the cleanup itself or one that waits.        *)
UsersKept ==
  [][\A r \in releases \ releases' : Users(r) \subseteq fresh]_vars
=============================================================================
