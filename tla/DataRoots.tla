----------------------------- MODULE DataRoots ------------------------------
(***************************************************************************)
(* The data directories of the Entries: how a process finds, creates,      *)
(* claims or renames the DataRoot `data/proj.<name>` of its Entry, while   *)
(* other processes do the same, the user moves directories away, writes    *)
(* fail and processes are killed.                                          *)
(*                                                                         *)
(* An Entry is a file: it has a name and a Windows File ID.  A DataRoot    *)
(* has a File ID too, and a record `_entry.json` that says whose it is.    *)
(* All changes are made under `_proj-entry.lock`, a file opened with share *)
(* mode 0; a user is asked for a claim, and inspections are made, without. *)
(***************************************************************************)
CONSTANTS Procs,       \* the processes that resolve a DataRoot
          Names,       \* names of Entry files
          Ids,         \* File IDs of Entry files
          Dirs,        \* File IDs of directories, which are never used twice
          Absent,      \* no directory of that name
          Missing,     \* no record in the directory
          Invalid,     \* a record that cannot be parsed
          None

(* An Entry, and the record that binds a DataRoot to it. *)
Entries == [name : Names, id : Ids]
Records == Entries \cup {Missing, Invalid}
Roots   == [dir : Dirs, rec : Records]

ASSUME ValueAssumption ==
  /\ Missing \notin Entries /\ Invalid \notin Entries \cup {Missing}
  /\ Absent \notin Roots /\ None \notin Dirs \cup Entries

VARIABLES
  root,   \* the content of `data`: by Entry name, a directory or Absent
  used,   \* the directories that have existed
  proc    \* the processes

vars == <<root, used, proc>>

(* A plan, and what of it a user can be asked to confirm.                   *)
Claims  == {"current", "rename"}
NoPlan  == [kind |-> "none", source |-> None, dir |-> None, rec |-> Missing]
Changes(kinds) == [kind : kinds, source : Names, dir : Dirs, rec : Records]
Plans   == Changes(Claims \cup {"direct"})
             \cup [kind : {"create", "refused", "none"}, source : {None},
                   dir : Dirs \cup {None}, rec : {Missing}]

(* Where a process holds the lock, and where it holds a handle on the      *)
(* DataRoot as well.                                                       *)
Locked == {"locked", "change", "pin", "publish", "replace", "lease", "undo"}
Pinned == {"publish", "replace", "lease", "bound"}

Processes == [pc : Locked \cup {"idle", "begun", "asked", "approved", "bound"},
              entry : Entries \cup {None}, plan : Plans, claim : Changes(Claims) \cup {NoPlan}]

NoProcess == [pc |-> "idle", entry |-> None, plan |-> NoPlan, claim |-> NoPlan]

TypeOK ==
  /\ root \in [Names -> Roots \cup {Absent}]
  /\ used \subseteq Dirs
  /\ \A n \in Names : root[n] # Absent => root[n].dir \in used
  /\ \A n, m \in Names :
       n # m /\ root[n] # Absent /\ root[m] # Absent => root[n].dir # root[m].dir
  /\ proc \in [Procs -> Processes]
  /\ \A p, q \in Procs : proc[p].pc \in Locked /\ proc[q].pc \in Locked => p = q

(* Whatever earlier runs of the program leave: DataRoots of one Entry each. *)
Owners(id, data) ==
  {n \in Names : data[n] # Absent /\ data[n].rec \in Entries /\ data[n].rec.id = id}

Present(data) == {n \in Names : data[n] # Absent}

Init ==
  /\ root \in [Names -> Roots \cup {Absent}]
  /\ \A n, m \in Present(root) : n # m => root[n].dir # root[m].dir
  /\ \A id \in Ids : \A n, m \in Owners(id, root) : n = m
  /\ used = {root[n].dir : n \in Present(root)}
  /\ proc = [p \in Procs |-> NoProcess]

-----------------------------------------------------------------------------
(* Planning *)

(* plan_data_root: what to do for Entry e with what a scan has found.       *)
Plan(kind, source, data) ==
  [kind |-> kind, source |-> source, dir |-> data[source].dir, rec |-> data[source].rec]

(* Mutant: only the directory of the Entry's own name is looked at. *)
PlanOfName(e, data) ==
  IF data[e.name] = Absent THEN [NoPlan EXCEPT !.kind = "create"]
  ELSE Plan(IF data[e.name].rec = e THEN "direct" ELSE "current", e.name, data)

PlanOf(e, data) ==
  LET own == Owners(e.id, data)
      at  == data[e.name]
  IN  CASE \E n, m \in own : n # m          -> [NoPlan EXCEPT !.kind = "refused"]
        [] own = {} /\ at = Absent          -> [NoPlan EXCEPT !.kind = "create"]
        [] own = {} /\ at # Absent          -> Plan("current", e.name, data)
        [] own = {e.name} /\ at.rec = e     -> Plan("direct", e.name, data)
        [] own = {e.name} /\ at.rec # e     -> Plan("current", e.name, data)
        [] own # {e.name} /\ \E n \in own : own = {n} ->
             IF at = Absent THEN Plan("rename", CHOOSE n \in own : TRUE, data)
                            ELSE [NoPlan EXCEPT !.kind = "refused"]

(* Mutant: the claim is compared by its names, not by what was observed. *)
ExpectedByName(plan, claim) == plan.kind = claim.kind /\ plan.source = claim.source

(* complete_expected_claim: the claim still stands, or was completed in the *)
(* same directory by somebody else.                                         *)
Expected(plan, claim) ==
  \/ plan = claim
  \/ plan.kind = "direct" /\ plan.dir = claim.dir

-----------------------------------------------------------------------------
(* Resolving *)

MyRoot(p)    == root[proc[p].entry.name]
MyRootIs(p)  == MyRoot(p) # Absent /\ MyRoot(p).dir = proc[p].plan.dir
Changed(p)   == proc[p].plan.kind \in {"create", "rename"}

(* Mutant: the record is opened for sharing of every kind. *)
RecordHeldShared(n) == n \notin Names

(* The handle of a lease shares neither deletion nor writing.               *)
RecordHeld(n) == \E q \in Procs : proc[q].pc = "bound" /\ proc[q].entry.name = n

Goes(p, to)   == proc' = [proc EXCEPT ![p].pc = to]
Ends(p)       == proc' = [proc EXCEPT ![p] = NoProcess]
Moves(n, r)   == root' = [root EXCEPT ![n] = r]

(* OwnedRequest::from_request pins the Entry file; its File ID is read.     *)
Begin(p, e) ==
  /\ proc[p].pc = "idle"
  /\ proc' = [proc EXCEPT ![p] = [NoProcess EXCEPT !.pc = "begun", !.entry = e]]
  /\ UNCHANGED <<root, used>>

(* An inspection takes no lock and shows the claim there would be.          *)
Inspect(p) ==
  /\ proc[p].pc = "begun"
  /\ LET plan == PlanOf(proc[p].entry, root)
     IN  /\ plan.kind \in Claims
         /\ proc' = [proc EXCEPT ![p].pc = "asked", ![p].claim = plan]
  /\ UNCHANGED <<root, used>>

(* The user confirms the claim shown.  A session inspects once more and     *)
(* compares the revisions; a command does not.                              *)
Approve(p) ==
  /\ proc[p].pc = "asked"
  /\ Goes(p, "approved")
  /\ UNCHANGED <<root, used>>

Conflict(p) ==
  /\ proc[p].pc = "asked" /\ PlanOf(proc[p].entry, root) # proc[p].claim
  /\ Ends(p)
  /\ UNCHANGED <<root, used>>

Lock(p) ==
  /\ proc[p].pc \in {"begun", "approved"}
  /\ \A q \in Procs : proc[q].pc \notin Locked
  /\ Goes(p, "locked")
  /\ UNCHANGED <<root, used>>

(* Under the lock the plan is made again; a claim that was not confirmed,   *)
(* or is not the one that was, releases the lock.                           *)
Replan(p) ==
  /\ proc[p].pc = "locked"
  /\ LET plan  == PlanOf(proc[p].entry, root)
         asked == proc[p].claim.kind # "none"
         start == IF plan.kind \in {"create", "rename"} THEN "change" ELSE "pin"
     IN  \/ /\ IF asked THEN Expected(plan, proc[p].claim) ELSE plan.kind \in {"direct", "create"}
            /\ proc' = [proc EXCEPT ![p].pc = start, ![p].plan = plan]
         \/ /\ ~ asked /\ plan.kind \in Claims
            /\ proc' = [proc EXCEPT ![p].pc = "asked", ![p].claim = plan]
         \/ /\ IF asked THEN ~ Expected(plan, proc[p].claim) ELSE plan.kind = "refused"
            /\ Ends(p)
  /\ UNCHANGED <<root, used>>

-----------------------------------------------------------------------------
(* Executing a plan *)

Create(p) ==
  /\ proc[p].pc = "change" /\ proc[p].plan.kind = "create" /\ MyRoot(p) = Absent
  /\ \E d \in Dirs \ used :
       /\ Moves(proc[p].entry.name, [dir |-> d, rec |-> Missing])
       /\ used' = used \cup {d}
       /\ proc' = [proc EXCEPT ![p].pc = "pin", ![p].plan.dir = d]

(* A directory does not move while a lease holds a file in it.              *)
Rename(p) ==
  LET from == proc[p].plan.source
  IN  /\ proc[p].pc = "change" /\ proc[p].plan.kind = "rename"
      /\ root[from] # Absent /\ root[from].dir = proc[p].plan.dir
      /\ MyRoot(p) = Absent /\ ~ RecordHeld(from)
      /\ root' = [root EXCEPT ![from] = Absent, ![proc[p].entry.name] = root[from]]
      /\ Goes(p, "pin")
      /\ UNCHANGED used

(* The directory is pinned, then compared with the one planned.             *)
Pin(p) ==
  /\ proc[p].pc = "pin" /\ MyRootIs(p)
  /\ Goes(p, IF proc[p].plan.kind = "direct" THEN "lease" ELSE "publish")
  /\ UNCHANGED <<root, used>>

(* atomic_file::publish renames where there is no record yet ...            *)
Publish(p) ==
  /\ proc[p].pc = "publish" /\ MyRoot(p) # Absent /\ MyRoot(p).rec = Missing
  /\ Moves(proc[p].entry.name, [MyRoot(p) EXCEPT !.rec = proc[p].entry])
  /\ Goes(p, "lease")
  /\ UNCHANGED used

(* ... and otherwise replaces: the old record goes before the new one has   *)
(* its name.                                                                *)
PublishReplace(p) ==
  /\ proc[p].pc = "publish" /\ MyRoot(p) # Absent /\ MyRoot(p).rec # Missing
  /\ ~ RecordHeld(proc[p].entry.name)
  /\ Moves(proc[p].entry.name, [MyRoot(p) EXCEPT !.rec = Missing])
  /\ Goes(p, "replace")
  /\ UNCHANGED used

PublishReplaced(p) ==
  /\ proc[p].pc = "replace" /\ MyRoot(p) # Absent
  /\ Moves(proc[p].entry.name, [MyRoot(p) EXCEPT !.rec = proc[p].entry])
  /\ Goes(p, "lease")
  /\ UNCHANGED used

(* DataRootBindingLease::acquire opens the record and compares it once more *)
(* before the lock is released.                                             *)
Lease(p) ==
  /\ proc[p].pc = "lease" /\ MyRoot(p) # Absent /\ MyRoot(p).rec = proc[p].entry
  /\ Goes(p, "bound")
  /\ UNCHANGED <<root, used>>

(* A step of an execution that has changed the structure fails ...          *)
Fail(p) ==
  /\ proc[p].pc \in {"pin", "publish", "replace"} /\ Changed(p)
  /\ Goes(p, "undo")
  /\ UNCHANGED <<root, used>>

(* Mutant: whatever directory has the name is removed. *)
UndoCreateByName(p) ==
  /\ proc[p].pc = "undo" /\ proc[p].plan.kind = "create"
  /\ MyRoot(p) # Absent /\ MyRoot(p).rec = Missing
  /\ Moves(proc[p].entry.name, Absent)
  /\ Ends(p)
  /\ UNCHANGED used

(* ... and the change is undone, if the directory is still the same one.    *)
UndoCreate(p) ==
  /\ proc[p].pc = "undo" /\ proc[p].plan.kind = "create"
  /\ MyRootIs(p) /\ MyRoot(p).rec = Missing
  /\ Moves(proc[p].entry.name, Absent)
  /\ Ends(p)
  /\ UNCHANGED used

UndoRename(p) ==
  LET from == proc[p].plan.source
  IN  /\ proc[p].pc = "undo" /\ proc[p].plan.kind = "rename"
      /\ root[from] = Absent /\ MyRootIs(p)
      /\ root' = [root EXCEPT ![from] = MyRoot(p), ![proc[p].entry.name] = Absent]
      /\ Ends(p)
      /\ UNCHANGED used

(* A resolution ends without more: it is killed, the claim is denied, the   *)
(* lock cannot be had, the plan cannot be begun, an undo fails, a lease is  *)
(* not given or, at last, dropped.  Locks and leases go with their process. *)
End(p) ==
  /\ proc[p].pc # "idle"
  /\ Ends(p)
  /\ UNCHANGED <<root, used>>

(* The user moves a directory away that nobody has open, or makes or copies *)
(* one: it is a new directory, with the record of the old one or none.      *)
Displace(n) ==
  /\ root[n] # Absent
  /\ \A p \in Procs : proc[p].pc \in Pinned => proc[p].entry.name # n
  /\ Moves(n, Absent)
  /\ UNCHANGED <<used, proc>>

Place(n) ==
  /\ \A p \in Procs : proc[p].pc \in Pinned => proc[p].entry.name # n
  /\ \E d \in Dirs \ used, r \in {Missing, Invalid} \cup (IF root[n] = Absent THEN {} ELSE {root[n].rec}) :
       Moves(n, [dir |-> d, rec |-> r]) /\ used' = used \cup {d}
  /\ UNCHANGED proc

Next ==
  \/ \E p \in Procs :
       \/ \E e \in Entries : Begin(p, e)
       \/ Inspect(p) \/ Approve(p) \/ Conflict(p) \/ Lock(p) \/ Replan(p)
       \/ Create(p) \/ Rename(p) \/ Pin(p)
       \/ Publish(p) \/ PublishReplace(p) \/ PublishReplaced(p) \/ Lease(p)
       \/ Fail(p) \/ UndoCreate(p) \/ UndoRename(p) \/ End(p)
  \/ \E n \in Names : Displace(n) \/ Place(n)

Spec == Init /\ [][Next]_vars

-----------------------------------------------------------------------------
(* Properties *)

(* While a process holds a resolved DataRoot (ResolvedDataRoot), the        *)
(* directory of its Entry's name is the one it pinned and the record in it  *)
(* names its Entry, whatever the others claim, rename or undo.              *)
BoundIsMine ==
  \A p \in Procs : proc[p].pc = "bound" => MyRootIs(p) /\ MyRoot(p).rec = proc[p].entry

(* No two DataRoots are ever bound to one File ID: the "multiple project    *)
(* DataRoots ... manual repair is required" of plan_data_root is not of the *)
(* program's own making, not even by kills and failed writes.               *)
OneRootPerIdentity ==
  \A id \in Ids : \A n, m \in Owners(id, root) : n = m

(* A step of the program changes, moves or rebinds a directory only for a   *)
(* process to which the user was shown that very directory with the record  *)
(* it has, or has lost in the exchange; or it made the directory itself.    *)
TakesOnlyWhatWasShown ==
  [][\A n \in Names : proc' # proc /\ root[n] # Absent /\ root'[n] # root[n] =>
       \E p \in Procs :
         /\ proc[p].pc \in Locked /\ proc[p].plan.dir = root[n].dir
         /\ \/ proc[p].plan.kind = "create"
            \/ /\ proc[p].claim.dir = root[n].dir
               /\ root[n].rec \in {proc[p].claim.rec, Missing}]_vars

(* The program never removes a directory, except the empty one that it has  *)
(* made in a resolution that then fails.                                    *)
NothingIsLost ==
  [][\A n \in Names : proc' # proc /\ root[n] # Absent =>
       \/ \E m \in Names : root'[m] # Absent /\ root'[m].dir = root[n].dir
       \/ \E p \in Procs : /\ proc[p].plan.kind = "create" /\ proc[p].plan.dir = root[n].dir
                           /\ root[n].rec = Missing]_vars
=============================================================================
