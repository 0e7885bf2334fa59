-------------------------- MODULE DataRootsProofs ---------------------------
(***************************************************************************)
(* Proofs about DataRoots, for any number of processes, Entries and        *)
(* directories.                                                            *)
(***************************************************************************)
EXTENDS DataRoots, TLAPS

(* What is true of the plan that a scan gives. *)
Fits(plan, e, data) ==
  /\ plan \in Plans
  /\ plan.kind = "create" => Owners(e.id, data) = {}
  /\ plan.kind = "rename" =>
       /\ Owners(e.id, data) = {plan.source} /\ plan.source # e.name /\ data[e.name] = Absent
       /\ data[plan.source] # Absent
       /\ plan.dir = data[plan.source].dir /\ plan.rec = data[plan.source].rec
  /\ plan.kind \in {"direct", "current"} =>
       /\ Owners(e.id, data) \subseteq {e.name} /\ data[e.name] # Absent
       /\ plan.dir = data[e.name].dir /\ plan.rec = data[e.name].rec

(* plan_data_root returns a plan that fits what it has been given. *)
LEMMA PlanFits ==
  ASSUME NEW e \in Entries, NEW data \in [Names -> Roots \cup {Absent}]
  PROVE  Fits(PlanOf(e, data), e, data)
<1> DEFINE own == Owners(e.id, data)
           at  == data[e.name]
<1>0. /\ own \subseteq Names /\ \A n \in own : data[n] # Absent /\ data[n] \in Roots
      /\ e.name \in Names /\ e.id \in Ids
  BY DEF Owners, Entries
<1>1. CASE \E n, m \in own : n # m
  <2>1. PlanOf(e, data) = [NoPlan EXCEPT !.kind = "refused"]
    BY <1>1 DEF PlanOf
  <2> QED BY <2>1 DEF Fits, Plans, Changes, NoPlan, Records, Claims
<1>2. CASE own = {} /\ at = Absent
  <2>1. PlanOf(e, data) = [NoPlan EXCEPT !.kind = "create"]
    BY <1>2 DEF PlanOf
  <2> QED BY <1>2, <2>1 DEF Fits, Plans, Changes, NoPlan, Records, Claims
<1>3. CASE own = {} /\ at # Absent
  <2>1. PlanOf(e, data) = Plan("current", e.name, data)
    BY <1>3 DEF PlanOf
  <2> QED BY <1>0, <1>3, <2>1 DEF Fits, Plans, Changes, Plan, Roots, Claims
<1>4. CASE own = {e.name} /\ at.rec = e
  <2>1. PlanOf(e, data) = Plan("direct", e.name, data)
    BY <1>4 DEF PlanOf
  <2> QED BY <1>0, <1>4, <2>1 DEF Fits, Plans, Changes, Plan, Roots, Claims
<1>5. CASE own = {e.name} /\ at.rec # e
  <2>1. PlanOf(e, data) = Plan("current", e.name, data)
    BY <1>5 DEF PlanOf
  <2> QED BY <1>0, <1>5, <2>1 DEF Fits, Plans, Changes, Plan, Roots, Claims
<1>6. CASE own # {e.name} /\ \E n \in own : own = {n}
  <2>1. PICK n \in own : own = {n}
    BY <1>6
  <2>2. PlanOf(e, data) = IF at = Absent THEN Plan("rename", CHOOSE m \in own : TRUE, data)
                                         ELSE [NoPlan EXCEPT !.kind = "refused"]
    BY <1>6 DEF PlanOf
  <2>3. (CHOOSE m \in own : TRUE) = n
    BY <2>1
  <2>4. CASE at = Absent
    <3>1. PlanOf(e, data) = Plan("rename", n, data)
      BY <2>2, <2>3, <2>4
    <3> QED BY <1>0, <1>6, <2>1, <2>4, <3>1 DEF Fits, Plans, Changes, Plan, Roots, Claims
  <2>5. CASE at # Absent
    BY <2>2, <2>5 DEF Fits, Plans, Changes, NoPlan, Records, Claims
  <2> QED BY <2>4, <2>5
<1> QED BY <1>1, <1>2, <1>3, <1>4, <1>5, <1>6

-----------------------------------------------------------------------------
(* Typing *)

(* A process that is not idle has its Entry. *)
Begun == \A p \in Procs : proc[p].pc # "idle" => proc[p].entry \in Entries

(* The directories and the record of those that have existed. *)
Data ==
  /\ root \in [Names -> Roots \cup {Absent}]
  /\ used \subseteq Dirs
  /\ \A n \in Names : root[n] # Absent => root[n].dir \in used
  /\ \A n, m \in Names :
       n # m /\ root[n] # Absent /\ root[m] # Absent => root[n].dir # root[m].dir

Exclusive ==
  \A p, q \in Procs : proc[p].pc \in Locked /\ proc[q].pc \in Locked => p = q

Typed == Data /\ proc \in [Procs -> Processes] /\ Exclusive /\ Begun

(* A step of one process leaves the others alone. *)
LEMMA GoesTo ==
  ASSUME proc \in [Procs -> Processes], NEW p \in Procs,
         NEW to \in Locked \cup {"begun", "asked", "approved", "bound"}, Goes(p, to)
  PROVE  /\ proc' \in [Procs -> Processes] /\ proc'[p].pc = to
         /\ proc'[p].entry = proc[p].entry
         /\ proc'[p].plan = proc[p].plan /\ proc'[p].claim = proc[p].claim
         /\ \A q \in Procs \ {p} : proc'[q] = proc[q]
BY DEF Goes, Processes

LEMMA EndsAs ==
  ASSUME proc \in [Procs -> Processes], NEW p \in Procs, Ends(p)
  PROVE  /\ proc' \in [Procs -> Processes] /\ proc'[p] = NoProcess
         /\ \A q \in Procs \ {p} : proc'[q] = proc[q]
BY DEF Ends, Processes, NoProcess, NoPlan, Plans, Changes, Records

(* The type invariant is kept by every step. *)
LEMMA TypedKept == Typed /\ [Next]_vars => Typed'
<1> SUFFICES ASSUME Typed, [Next]_vars PROVE Typed'
  OBVIOUS
<1> USE DEF Typed
<1>1. ASSUME NEW p \in Procs, NEW e \in Entries, Begin(p, e) PROVE Typed'
  <2>1. proc' \in [Procs -> Processes]
    BY <1>1 DEF Begin, Processes, NoProcess, NoPlan, Plans, Changes, Records
  <2> QED BY <1>1, <2>1 DEF Begin, Processes, NoProcess, Data, Exclusive, Begun, Locked
<1>2. ASSUME NEW p \in Procs, Inspect(p) PROVE Typed'
  <2>1. /\ PlanOf(proc[p].entry, root) \in Plans
        /\ PlanOf(proc[p].entry, root).kind \in Claims =>
             PlanOf(proc[p].entry, root) \in Changes(Claims)
    BY <1>2, PlanFits DEF Inspect, Fits, Plans, Changes, Claims, Begun, Data
  <2>2. proc' \in [Procs -> Processes]
    <3> DEFINE plan == PlanOf(proc[p].entry, root)
               asked == [proc[p] EXCEPT !.pc = "asked", !.claim = plan]
    <3>1. proc[p] \in Processes /\ plan \in Changes(Claims)
      BY <1>2, <2>1 DEF Inspect
    <3>2. proc' = [proc EXCEPT ![p] = asked]
      BY <1>2 DEF Inspect
    <3> HIDE DEF plan
    <3>3. asked \in Processes
      BY <3>1 DEF Processes
    <3> HIDE DEF asked
    <3> QED
      BY <3>2, <3>3
  <2> QED BY <1>2, <2>2 DEF Inspect, Processes, Data, Exclusive, Begun, Locked
<1>3. ASSUME NEW p \in Procs, Approve(p) PROVE Typed'
  BY <1>3, GoesTo DEF Approve, Data, Exclusive, Begun, Locked
<1>4. ASSUME NEW p \in Procs, Conflict(p) \/ End(p) PROVE Typed'
  BY <1>4, EndsAs DEF Conflict, End, NoProcess, Data, Exclusive, Begun, Locked
<1>5. ASSUME NEW p \in Procs, Lock(p) PROVE Typed'
  BY <1>5, GoesTo DEF Lock, Data, Exclusive, Begun, Locked
<1>6. ASSUME NEW p \in Procs, Replan(p) PROVE Typed'
  <2>1. /\ PlanOf(proc[p].entry, root) \in Plans
        /\ PlanOf(proc[p].entry, root).kind \in Claims =>
             PlanOf(proc[p].entry, root) \in Changes(Claims)
    BY <1>6, PlanFits DEF Replan, Fits, Plans, Changes, Claims, Begun, Data
  <2>2. proc' \in [Procs -> Processes]
    BY <1>6, <2>1, EndsAs DEF Replan, Processes, Locked
  <2>3. /\ \A q \in Procs \ {p} : proc'[q] = proc[q]
        /\ proc'[p].pc # "idle" => proc'[p].entry = proc[p].entry
    BY <1>6, EndsAs DEF Replan, Processes, NoProcess
  <2> QED BY <1>6, <2>2, <2>3 DEF Replan, Data, Exclusive, Begun, Locked
<1>7. ASSUME NEW p \in Procs, Create(p) PROVE Typed'
  <2>1. PICK d \in Dirs \ used :
          /\ Moves(proc[p].entry.name, [dir |-> d, rec |-> Missing])
          /\ used' = used \cup {d}
          /\ proc' = [proc EXCEPT ![p].pc = "pin", ![p].plan.dir = d]
    BY <1>7 DEF Create
  <2>2. proc[p].plan \in Plans /\ proc[p].plan.kind = "create"
    BY <1>7 DEF Create, Processes
  <2>3. [proc[p].plan EXCEPT !.dir = d] \in Plans
    BY <2>2 DEF Plans, Changes, Claims
  <2>4. proc' \in [Procs -> Processes]
    <3> DEFINE plan == [proc[p].plan EXCEPT !.dir = d]
               pinning == [proc[p] EXCEPT !.pc = "pin", !.plan = plan]
    <3>1. proc[p] \in Processes /\ plan \in Plans /\ "pin" \in Locked
      BY <2>3 DEF Locked
    <3>2. proc' = [proc EXCEPT ![p] = pinning]
      BY <2>1 DEF Processes
    <3> HIDE DEF plan
    <3>3. pinning \in Processes
      BY <3>1 DEF Processes
    <3> HIDE DEF pinning
    <3> QED
      BY <3>2, <3>3
  <2>5. Data'
    BY <2>1 DEF Data, Moves, Roots, Records
  <2> QED BY <1>7, <2>1, <2>4, <2>5 DEF Create, Processes, Exclusive, Begun, Locked
<1>8. ASSUME NEW p \in Procs, Rename(p) PROVE Typed'
  <2>1. proc[p].plan.source \in Names /\ proc[p].entry.name \in Names
    BY <1>8 DEF Rename, Begun, Entries, Processes, Plans, Changes
  <2>2. Data'
    BY <1>8, <2>1 DEF Rename, Data, MyRoot
  <2> QED BY <1>8, <2>2, GoesTo DEF Rename, Exclusive, Begun, Locked
<1>9. ASSUME NEW p \in Procs, Pin(p) \/ Lease(p) \/ Fail(p) PROVE Typed'
  BY <1>9, GoesTo DEF Pin, Lease, Fail, Data, Exclusive, Begun, Locked
<1>10. ASSUME NEW p \in Procs, Publish(p) \/ PublishReplaced(p) \/ PublishReplace(p) PROVE Typed'
  <2>1. PICK r \in Records : Moves(proc[p].entry.name, [MyRoot(p) EXCEPT !.rec = r])
    BY <1>10 DEF Publish, PublishReplace, PublishReplaced, Begun, Records
  <2>2. proc[p].entry.name \in Names /\ used' = used /\ MyRoot(p) # Absent
    BY <1>10 DEF Publish, PublishReplace, PublishReplaced, Begun, Entries
  <2>3. Data'
    BY <2>1, <2>2 DEF Data, Moves, MyRoot, Roots
  <2> QED BY <1>10, <2>3, GoesTo
          DEF Publish, PublishReplace, PublishReplaced, Exclusive, Begun, Locked
<1>11. ASSUME NEW p \in Procs, UndoCreate(p) \/ UndoRename(p) PROVE Typed'
  <2>1. /\ proc[p].entry.name \in Names /\ MyRoot(p) # Absent
        /\ UndoRename(p) => proc[p].plan.source \in Names
    BY <1>11 DEF UndoCreate, UndoRename, MyRootIs, Begun, Entries, Processes, Plans, Changes
  <2>2. UndoCreate(p) => Data'
    BY <2>1 DEF UndoCreate, Data, Moves
  <2>3. UndoRename(p) => Data'
    BY <2>1 DEF UndoRename, Data, MyRoot
  <2>4. Data'
    BY <1>11, <2>2, <2>3
  <2> QED BY <1>11, <2>4, EndsAs DEF UndoCreate, UndoRename, NoProcess, Exclusive, Begun, Locked
<1>12. ASSUME NEW n \in Names, Displace(n) \/ Place(n) PROVE Typed'
  <2>1. Data'
    BY <1>12 DEF Displace, Place, Data, Moves, Roots, Records
  <2> QED BY <1>12, <2>1 DEF Displace, Place, Exclusive, Begun
<1>13. CASE UNCHANGED vars
  BY <1>13 DEF vars, Data, Exclusive, Begun
<1> QED BY <1>1, <1>2, <1>3, <1>4, <1>5, <1>6, <1>7, <1>8, <1>9, <1>10, <1>11, <1>12, <1>13
        DEF Next

(* The type invariant holds of the initial states. *)
LEMMA TypedInit == Init => Typed
<1> SUFFICES ASSUME Init PROVE Typed
  OBVIOUS
<1>1. NoPlan \in Plans /\ NoPlan \in Changes(Claims) \cup {NoPlan}
  BY DEF NoPlan, Plans, Changes, Records
<1>2. NoProcess \in Processes
  BY <1>1 DEF NoProcess, Processes
<1>3. Data
  BY DEF Init, Data, Present, Roots
<1> QED BY <1>2, <1>3 DEF Init, Typed, Exclusive, Begun, NoProcess, Locked

(* Every variable keeps its type, no directory has two names, and no two    *)
(* processes hold _proj-entry.lock.                                         *)
THEOREM TypeCorrect == Spec => []TypeOK
<1>1. Typed => TypeOK
  BY DEF Typed, Data, Exclusive, TypeOK
<1> QED BY <1>1, TypedInit, TypedKept, PTL DEF Spec

-----------------------------------------------------------------------------
(* What a lease holds *)

(* A pinned directory stays; a record that is leased, or gone in an         *)
(* exchange, stays so; nobody holds a lease where a directory was moved to. *)
HeldBy(p) ==
  /\ proc[p].pc \in Pinned => MyRootIs(p)
  /\ proc[p].pc = "bound" => MyRoot(p).rec = proc[p].entry
  /\ proc[p].pc = "replace" => MyRoot(p).rec = Missing
  /\ proc[p].pc \in {"pin", "publish", "replace", "undo"} /\ Changed(p)
       => ~ RecordHeld(proc[p].entry.name)

Held == \A p \in Procs : HeldBy(p)

(* A change of directories that no lease holds disturbs nobody but the one  *)
(* who makes it.                                                            *)
LEMMA OthersKept ==
  ASSUME Typed, Held, NEW p \in Procs, proc[p].pc \in Locked,
         \A q \in Procs \ {p} : proc'[q] = proc[q],
         \A n \in Names : RecordHeld(n) => root'[n] = root[n]
  PROVE  \A q \in Procs \ {p} : HeldBy(q)'
<1> SUFFICES ASSUME NEW q \in Procs \ {p} PROVE HeldBy(q)'
  OBVIOUS
<1>1. proc'[q] = proc[q] /\ proc[q].pc \notin Locked
  BY DEF Typed, Exclusive
<1>2. proc[q].pc = "bound" => root'[proc[q].entry.name] = root[proc[q].entry.name]
  BY DEF Typed, Begun, Entries, RecordHeld
<1> QED BY <1>1, <1>2 DEF Held, HeldBy, MyRootIs, MyRoot, Pinned, Locked

(* So does a step that leaves the directories alone and neither pins, nor   *)
(* leases, nor begins to undo.                                              *)
LEMMA QuietKept ==
  ASSUME Typed, Held, NEW p \in Procs, root' = root,
         \A q \in Procs \ {p} : proc'[q] = proc[q],
         proc'[p].pc \notin Pinned \cup {"undo"},
         proc'[p].pc = "pin" => proc'[p].plan.kind \notin {"create", "rename"}
  PROVE  Held'
<1>1. \A n \in Names : RecordHeld(n)' => RecordHeld(n)
  BY DEF RecordHeld, Pinned
<1>2. ASSUME NEW q \in Procs \ {p} PROVE HeldBy(q)'
  <2>1. proc'[q] = proc[q] /\ HeldBy(q) /\ (proc[q].pc # "idle" => proc[q].entry.name \in Names)
    BY <1>2 DEF Held, Typed, Begun, Entries
  <2> QED BY <1>1, <2>1 DEF HeldBy, MyRootIs, MyRoot, Changed
<1>3. HeldBy(p)'
  BY DEF HeldBy, Pinned, Changed
<1> QED BY <1>2, <1>3 DEF Held

LEMMA HeldKept == Typed /\ Held /\ [Next]_vars => Held'
<1> SUFFICES ASSUME Typed, Held, [Next]_vars PROVE Held'
  OBVIOUS
<1>1. Typed'
  BY TypedKept
<1>2. ASSUME NEW p \in Procs, NEW e \in Entries, Begin(p, e) PROVE Held'
  BY <1>2, QuietKept DEF Begin, NoProcess, Typed, Processes, Pinned
<1>3. ASSUME NEW p \in Procs, Inspect(p) \/ Approve(p) \/ Lock(p) PROVE Held'
  BY <1>3, QuietKept DEF Inspect, Approve, Lock, Goes, Typed, Processes, Pinned
<1>4. ASSUME NEW p \in Procs, Conflict(p) \/ End(p) PROVE Held'
  BY <1>4, EndsAs, QuietKept DEF Conflict, End, NoProcess, Typed, Pinned
<1>5. ASSUME NEW p \in Procs, Replan(p) PROVE Held'
  <2>1. \A q \in Procs \ {p} : proc'[q] = proc[q]
    BY <1>5, EndsAs DEF Replan, Typed
  <2>2. /\ proc'[p].pc \notin Pinned \cup {"undo"}
        /\ proc'[p].pc = "pin" => proc'[p].plan.kind \notin {"create", "rename"}
    BY <1>5 DEF Replan, Ends, NoProcess, Typed, Processes, Pinned
  <2> QED BY <1>5, <2>1, <2>2, QuietKept DEF Replan
<1>6. ASSUME NEW p \in Procs, Create(p) PROVE Held'
  <2>1. ~ RecordHeld(proc[p].entry.name)
    BY <1>6 DEF Create, RecordHeld, Held, HeldBy, Pinned, MyRootIs, MyRoot
  <2>2. /\ \A q \in Procs \ {p} : proc'[q] = proc[q]
        /\ proc'[p].pc = "pin" /\ proc'[p].entry = proc[p].entry
        /\ \A n \in Names \ {proc[p].entry.name} : root'[n] = root[n]
    BY <1>6 DEF Create, Moves, Typed, Data, Processes
  <2>3. \A q \in Procs \ {p} : HeldBy(q)'
    BY <1>6, <2>1, <2>2, OthersKept DEF Create, Locked
  <2>4. ~ RecordHeld(proc[p].entry.name)'
    BY <2>1, <2>2 DEF RecordHeld
  <2> QED BY <2>2, <2>3, <2>4 DEF Held, HeldBy, Pinned
<1>7. ASSUME NEW p \in Procs, Rename(p) PROVE Held'
  <2>1. ~ RecordHeld(proc[p].entry.name) /\ ~ RecordHeld(proc[p].plan.source)
    BY <1>7 DEF Rename, RecordHeld, Held, HeldBy, Pinned, MyRootIs, MyRoot
  <2>2. /\ \A q \in Procs \ {p} : proc'[q] = proc[q]
        /\ proc'[p].pc = "pin" /\ proc'[p].entry = proc[p].entry
        /\ \A n \in Names \ {proc[p].entry.name, proc[p].plan.source} : root'[n] = root[n]
    BY <1>7, GoesTo DEF Rename, Typed, Data, Locked
  <2>3. \A q \in Procs \ {p} : HeldBy(q)'
    BY <1>7, <2>1, <2>2, OthersKept DEF Rename, Locked
  <2>4. ~ RecordHeld(proc[p].entry.name)'
    BY <2>1, <2>2 DEF RecordHeld
  <2> QED BY <2>2, <2>3, <2>4 DEF Held, HeldBy, Pinned
<1>8. ASSUME NEW p \in Procs, Pin(p) \/ Fail(p) \/ Lease(p) PROVE Held'
  <2>1. /\ \A q \in Procs \ {p} : proc'[q] = proc[q]
        /\ proc'[p].pc \in {"lease", "publish", "undo", "bound"}
        /\ proc'[p].entry = proc[p].entry /\ proc'[p].plan = proc[p].plan /\ root' = root
    BY <1>8, GoesTo DEF Pin, Fail, Lease, Typed, Locked
  <2>2. \A q \in Procs \ {p} : HeldBy(q)'
    BY <1>8, <2>1, OthersKept DEF Pin, Fail, Lease, Locked
  <2>3. proc'[p].pc # "bound" => (RecordHeld(proc[p].entry.name)' => RecordHeld(proc[p].entry.name))
    BY <2>1 DEF RecordHeld
  <2>4. CASE Pin(p)
    <3>1. /\ proc'[p].pc \in {"lease", "publish"} /\ MyRootIs(p)'
          /\ proc'[p].pc = "publish" /\ Changed(p)' => ~ RecordHeld(proc[p].entry.name)
      BY <2>1, <2>4, GoesTo DEF Pin, MyRootIs, MyRoot, Changed, Typed, Held, HeldBy, Locked
    <3> QED BY <2>1, <2>2, <2>3, <3>1 DEF Held, HeldBy
  <2>5. CASE Fail(p)
    <3>1. proc'[p].pc = "undo" /\ ~ RecordHeld(proc[p].entry.name)
      BY <2>5, GoesTo DEF Fail, Typed, Held, HeldBy, Locked
    <3> QED BY <2>1, <2>2, <2>3, <3>1 DEF Held, HeldBy, Pinned
  <2>6. CASE Lease(p)
    <3>1. proc'[p].pc = "bound" /\ MyRootIs(p)' /\ (MyRoot(p).rec = proc[p].entry)'
      BY <2>1, <2>6, GoesTo DEF Lease, MyRootIs, MyRoot, Typed, Held, HeldBy, Locked, Pinned
    <3> QED BY <2>2, <3>1 DEF Held, HeldBy
  <2> QED BY <1>8, <2>4, <2>5, <2>6
<1>9. ASSUME NEW p \in Procs, Publish(p) \/ PublishReplace(p) \/ PublishReplaced(p) PROVE Held'
  <2>1. ~ RecordHeld(proc[p].entry.name)
    <3>1. ~ PublishReplace(p) => MyRoot(p).rec = Missing
      BY <1>9 DEF Publish, PublishReplaced, Held, HeldBy
    <3>2. ASSUME NEW q \in Procs, proc[q].pc = "bound", proc[q].entry.name = proc[p].entry.name
          PROVE  MyRoot(p).rec \in Entries
      BY <3>2 DEF Held, HeldBy, MyRoot, Typed, Begun
    <3> QED BY <1>9, <3>1, <3>2, ValueAssumption DEF PublishReplace, RecordHeld
  <2>2. /\ \A q \in Procs \ {p} : proc'[q] = proc[q]
        /\ proc'[p].entry = proc[p].entry /\ proc'[p].plan = proc[p].plan
        /\ proc'[p].pc = IF PublishReplace(p) THEN "replace" ELSE "lease"
    BY <1>9, GoesTo DEF Publish, PublishReplace, PublishReplaced, Typed, Locked
  <2>3. proc[p].entry.name \in Names /\ MyRoot(p) \in Roots
    BY <1>9 DEF Publish, PublishReplace, PublishReplaced, Typed, Data, MyRoot, Begun, Entries
  <2>4. PICK r \in Records : /\ Moves(proc[p].entry.name, [MyRoot(p) EXCEPT !.rec = r])
                             /\ PublishReplace(p) => r = Missing
    BY <1>9 DEF Publish, PublishReplace, PublishReplaced, Typed, Begun, Records
  <2>5. /\ \A n \in Names \ {proc[p].entry.name} : root'[n] = root[n]
        /\ root'[proc[p].entry.name] \in Roots
        /\ root'[proc[p].entry.name].dir = MyRoot(p).dir
        /\ root'[proc[p].entry.name].rec = r
    BY <2>3, <2>4 DEF Moves, Typed, Data, Roots
  <2>6. \A q \in Procs \ {p} : HeldBy(q)'
    BY <1>9, <2>1, <2>2, <2>5, OthersKept DEF Publish, PublishReplace, PublishReplaced, Locked
  <2>7. MyRootIs(p)
    BY <1>9 DEF Publish, PublishReplace, PublishReplaced, Held, HeldBy, Pinned
  <2>8. MyRootIs(p)' /\ (PublishReplace(p) => (MyRoot(p).rec = Missing)')
    BY <2>2, <2>4, <2>5, <2>7, ValueAssumption DEF MyRootIs, MyRoot
  <2>9. ~ RecordHeld(proc[p].entry.name)'
    BY <2>1, <2>2 DEF RecordHeld
  <2> QED BY <2>2, <2>6, <2>8, <2>9 DEF Held, HeldBy
<1>10. ASSUME NEW p \in Procs, UndoCreate(p) \/ UndoRename(p) PROVE Held'
  <2>1. ~ RecordHeld(proc[p].entry.name)
    BY <1>10 DEF UndoCreate, UndoRename, Held, HeldBy, Changed
  <2>2. UndoRename(p) => ~ RecordHeld(proc[p].plan.source)
    BY DEF UndoRename, RecordHeld, Held, HeldBy, Pinned, MyRootIs, MyRoot
  <2>3. \A n \in Names : RecordHeld(n) => root'[n] = root[n]
    BY <1>10, <2>1, <2>2 DEF UndoCreate, UndoRename, Moves, Typed, Data
  <2>4. proc'[p] = NoProcess /\ \A q \in Procs \ {p} : proc'[q] = proc[q]
    BY <1>10, EndsAs DEF UndoCreate, UndoRename, Typed
  <2>5. \A q \in Procs \ {p} : HeldBy(q)'
    BY <1>10, <2>3, <2>4, OthersKept DEF UndoCreate, UndoRename, Locked
  <2> QED BY <2>4, <2>5 DEF Held, HeldBy, NoProcess, Pinned
<1>11. ASSUME NEW n \in Names, Displace(n) \/ Place(n) PROVE Held'
  <2>1. \A m \in Names \ {n} : root'[m] = root[m]
    BY <1>11 DEF Displace, Place, Moves, Typed, Data
  <2>2. \A p \in Procs : proc[p].pc \in Pinned => proc[p].entry.name \in Names \ {n}
    BY <1>11 DEF Displace, Place, Typed, Begun, Entries, Pinned
  <2>3. proc' = proc
    BY <1>11 DEF Displace, Place
  <2>4. \A p \in Procs : proc[p].pc \in Pinned => (MyRoot(p)' = MyRoot(p))
    BY <2>1, <2>2, <2>3 DEF MyRoot
  <2> QED BY <2>3, <2>4 DEF Held, HeldBy, MyRootIs, Changed, RecordHeld, Pinned
<1>12. CASE UNCHANGED vars
  BY <1>12 DEF vars, Held, HeldBy, MyRootIs, MyRoot, Changed, RecordHeld
<1> QED BY <1>2, <1>3, <1>4, <1>5, <1>6, <1>7, <1>8, <1>9, <1>10, <1>11, <1>12 DEF Next

(* Nobody is active at first. *)
LEMMA IdleInit == Init => \A p \in Procs : proc[p].pc = "idle"
<1> SUFFICES ASSUME Init PROVE \A p \in Procs : proc[p].pc = "idle"
  OBVIOUS
<1>1. \A p \in Procs : proc[p] = NoProcess
  BY DEF Init
<1>2. NoProcess.pc = "idle"
  BY DEF NoProcess
<1> QED BY <1>1, <1>2

LEMMA HeldInit == Init => Held
BY IdleInit DEF Held, HeldBy, Pinned

(* For any number of processes, what a process has resolved stays its own   *)
(* as long as it holds the lease.                                           *)
THEOREM BindingsHold == Spec => []BoundIsMine
<1>1. Held => BoundIsMine
  BY DEF Held, HeldBy, BoundIsMine, Pinned
<1> QED BY <1>1, HeldInit, TypedInit, TypedKept, HeldKept, PTL DEF Spec

-----------------------------------------------------------------------------
(* One DataRoot per File ID *)

(* What the process that executes a plan relies on: nobody but the source   *)
(* of the plan, and then the Entry's own name, is bound to its File ID.     *)
SoleFor(p) ==
  /\ proc[p].pc = "change" /\ proc[p].plan.kind = "create" => Owners(proc[p].entry.id, root) = {}
  /\ proc[p].pc = "change" /\ proc[p].plan.kind = "rename" =>
       Owners(proc[p].entry.id, root) \subseteq {proc[p].plan.source}
  /\ proc[p].pc \in {"pin", "publish", "replace"} =>
       Owners(proc[p].entry.id, root) \subseteq {proc[p].entry.name}

Sole == OneRootPerIdentity /\ \A p \in Procs : SoleFor(p)

(* A change that gives no directory a new owner. *)
Sheds ==
  \A n \in Names :
    \/ root'[n] = Absent
    \/ root'[n].rec \notin Entries
    \/ root[n] # Absent /\ root'[n].rec = root[n].rec

LEMMA ShedsKeeps ==
  ASSUME Sheds
  PROVE  \A id \in Ids : Owners(id, root') \subseteq Owners(id, root)
BY DEF Sheds, Owners

(* A change that nobody but p notices: the others do not execute a plan.    *)
LEMMA SoleOfOne ==
  ASSUME Typed, NEW p \in Procs, proc[p].pc \in Locked,
         \A q \in Procs \ {p} : proc'[q] = proc[q], OneRootPerIdentity', SoleFor(p)'
  PROVE  Sole'
<1>1. ASSUME NEW q \in Procs \ {p} PROVE SoleFor(q)'
  BY DEF Typed, Exclusive, SoleFor, Locked
<1> QED BY <1>1 DEF Sole

(* So do steps that leave the plans and the owners alone. *)
LEMMA SoleShed ==
  ASSUME Typed, Sole, Sheds, NEW p \in Procs,
         \A q \in Procs \ {p} : proc'[q] = proc[q],
         \/ proc'[p].pc \notin {"change", "pin", "publish", "replace"}
         \/ /\ proc'[p].entry = proc[p].entry /\ proc[p].pc \in {"pin", "publish", "replace"}
            /\ proc'[p].pc \in {"pin", "publish", "replace"}
         \/ proc'[p] = proc[p]
  PROVE  Sole'
<1>1. \A id \in Ids : Owners(id, root') \subseteq Owners(id, root)
  BY ShedsKeeps
<1>2. OneRootPerIdentity'
  BY <1>1 DEF Sole, OneRootPerIdentity
<1>3. \A q \in Procs : proc[q].pc # "idle" => proc[q].entry.id \in Ids
  BY DEF Typed, Begun, Entries
<1>4. ASSUME NEW q \in Procs, proc'[q] = proc[q] PROVE SoleFor(q)'
  BY <1>1, <1>3, <1>4 DEF Sole, SoleFor
<1>5. SoleFor(p)'
  BY <1>1, <1>3, <1>4 DEF Sole, SoleFor
<1> QED BY <1>2, <1>4, <1>5 DEF Sole

(* A move of the directory m to the free name n gives no File ID a second   *)
(* one.                                                                     *)
LEMMA MoveKeeps ==
  ASSUME Typed, OneRootPerIdentity, NEW n \in Names, NEW m \in Names,
         root[n] = Absent, root[m] # Absent,
         root' = [root EXCEPT ![m] = Absent, ![n] = root[m]]
  PROVE  /\ OneRootPerIdentity'
         /\ \A id \in Ids : Owners(id, root) \subseteq {m} => Owners(id, root') \subseteq {n}
<1>1. /\ root'[m] = Absent /\ root'[n] = root[m]
      /\ \A k \in Names \ {n, m} : root'[k] = root[k]
  BY DEF Typed, Data
<1>2. ASSUME NEW id \in Ids, NEW k \in Owners(id, root')
      PROVE  /\ k \in Names
             /\ IF k = n THEN m \in Owners(id, root) ELSE k # m /\ k \in Owners(id, root)
  BY <1>1 DEF Owners
<1>3. ASSUME NEW id \in Ids, NEW k \in Owners(id, root'), NEW l \in Owners(id, root') PROVE k = l
  <2>1. /\ IF k = n THEN m \in Owners(id, root) ELSE k # m /\ k \in Owners(id, root)
        /\ IF l = n THEN m \in Owners(id, root) ELSE l # m /\ l \in Owners(id, root)
    BY <1>2, <1>3
  <2> QED BY <2>1 DEF OneRootPerIdentity
<1>4. OneRootPerIdentity'
  BY <1>3 DEF OneRootPerIdentity
<1>5. ASSUME NEW id \in Ids, Owners(id, root) \subseteq {m} PROVE Owners(id, root') \subseteq {n}
  BY <1>2, <1>5
<1> QED BY <1>4, <1>5

(* Writing the record of the Entry keeps it, when nobody else has it. *)
LEMMA WriteKeeps ==
  ASSUME Typed, OneRootPerIdentity, NEW e \in Entries, Owners(e.id, root) \subseteq {e.name},
         Moves(e.name, [root[e.name] EXCEPT !.rec = e]), root[e.name] # Absent
  PROVE  OneRootPerIdentity'
<1>1. /\ e.name \in Names /\ e.id \in Ids /\ root[e.name] \in Roots
      /\ \A k \in Names \ {e.name} : root'[k] = root[k]
  BY DEF Typed, Data, Entries, Moves
<1>2. root'[e.name].rec = e
  BY <1>1 DEF Typed, Data, Moves, Roots
<1>3. ASSUME NEW id \in Ids, NEW k \in Owners(id, root'), NEW l \in Owners(id, root') PROVE k = l
  <2>1. CASE id = e.id
    BY <1>1, <2>1 DEF Owners
  <2>2. CASE id # e.id
    BY <1>1, <1>2, <2>2 DEF Owners, OneRootPerIdentity
  <2> QED BY <2>1, <2>2
<1> QED BY <1>3 DEF OneRootPerIdentity

LEMMA SoleKept == Typed /\ Held /\ Sole /\ [Next]_vars => Sole'
<1> SUFFICES ASSUME Typed, Held, Sole, [Next]_vars PROVE Sole'
  OBVIOUS
<1>1. root' = root => Sheds
  BY DEF Sheds
<1>2. ASSUME NEW p \in Procs, NEW e \in Entries, Begin(p, e) PROVE Sole'
  BY <1>1, <1>2, SoleShed DEF Begin, NoProcess, Typed, Processes
<1>3. ASSUME NEW p \in Procs, Inspect(p) \/ Approve(p) \/ Lock(p) PROVE Sole'
  BY <1>1, <1>3, SoleShed DEF Inspect, Approve, Lock, Goes, Typed, Processes
<1>4. ASSUME NEW p \in Procs, Conflict(p) \/ End(p) PROVE Sole'
  BY <1>1, <1>4, EndsAs, SoleShed DEF Conflict, End, NoProcess, Typed
<1>5. ASSUME NEW p \in Procs, Replan(p) PROVE Sole'
  <2> DEFINE plan == PlanOf(proc[p].entry, root)
  <2>1. Fits(plan, proc[p].entry, root)
    BY <1>5, PlanFits DEF Replan, Typed, Begun, Data
  <2>2. root' = root /\ \A q \in Procs \ {p} : proc'[q] = proc[q]
    BY <1>5, EndsAs DEF Replan, Typed
  <2>3. CASE proc'[p].pc \in {"change", "pin"}
    <3>1. /\ proc'[p].entry = proc[p].entry /\ proc'[p].plan = plan
          /\ proc'[p].pc = IF plan.kind \in {"create", "rename"} THEN "change" ELSE "pin"
          /\ plan.kind \in {"direct", "create", "current", "rename"}
      BY <1>5, <2>3 DEF Replan, Ends, NoProcess, Typed, Processes, Expected, Changes, Claims, NoPlan
    <3>2. SoleFor(p)'
      BY <2>1, <2>2, <3>1 DEF SoleFor, Fits
    <3>3. OneRootPerIdentity'
      BY <2>2 DEF Sole, OneRootPerIdentity
    <3> QED BY <1>5, <2>2, <3>2, <3>3, SoleOfOne DEF Replan, Locked
  <2>4. CASE proc'[p].pc \notin {"change", "pin"}
    <3>1. proc'[p].pc \notin {"publish", "replace"}
      BY <1>5, <2>4 DEF Replan, Ends, NoProcess, Typed, Processes
    <3> QED BY <1>1, <2>2, <2>4, <3>1, SoleShed
  <2> QED BY <2>3, <2>4
<1>6. ASSUME NEW p \in Procs, Create(p) PROVE Sole'
  <2>1. PICK d \in Dirs : /\ Moves(proc[p].entry.name, [dir |-> d, rec |-> Missing])
                          /\ proc' = [proc EXCEPT ![p].pc = "pin", ![p].plan.dir = d]
    BY <1>6 DEF Create
  <2>2. Sheds
    BY <2>1, ValueAssumption DEF Sheds, Moves, Typed, Data
  <2>3. proc[p].entry.id \in Ids /\ Owners(proc[p].entry.id, root) = {}
    BY <1>6 DEF Create, Sole, SoleFor, Typed, Begun, Entries
  <2>4. /\ proc'[p].pc = "pin" /\ proc'[p].entry = proc[p].entry
        /\ \A q \in Procs \ {p} : proc'[q] = proc[q]
    BY <2>1 DEF Typed, Processes
  <2>5. SoleFor(p)'
    BY <2>2, <2>3, <2>4, ShedsKeeps DEF SoleFor
  <2>6. OneRootPerIdentity'
    BY <2>2, ShedsKeeps DEF Sole, OneRootPerIdentity
  <2> QED BY <1>6, <2>4, <2>5, <2>6, SoleOfOne DEF Create, Locked
<1>7. ASSUME NEW p \in Procs, Rename(p) PROVE Sole'
  <2>1. /\ proc[p].plan.source \in Names /\ proc[p].entry.name \in Names
        /\ proc[p].entry.id \in Ids
    BY <1>7 DEF Rename, Typed, Begun, Entries, Processes, Plans, Changes
  <2>2. /\ OneRootPerIdentity'
        /\ Owners(proc[p].entry.id, root') \subseteq {proc[p].entry.name}
    BY <1>7, <2>1, MoveKeeps DEF Rename, MyRoot, Sole, SoleFor
  <2>3. /\ proc'[p].pc = "pin" /\ proc'[p].entry = proc[p].entry
        /\ \A q \in Procs \ {p} : proc'[q] = proc[q]
    BY <1>7, GoesTo DEF Rename, Typed, Locked
  <2> QED BY <1>7, <2>2, <2>3, SoleOfOne DEF Rename, Locked, SoleFor
<1>8. ASSUME NEW p \in Procs, Pin(p) \/ Lease(p) \/ Fail(p) PROVE Sole'
  BY <1>1, <1>8, GoesTo, SoleShed DEF Pin, Lease, Fail, Typed, Locked
<1>9. ASSUME NEW p \in Procs, PublishReplace(p) PROVE Sole'
  <2>1. Sheds
    BY <1>9, ValueAssumption DEF PublishReplace, MyRoot, Moves, Sheds, Typed, Data, Roots
  <2> QED BY <1>9, <2>1, GoesTo, SoleShed DEF PublishReplace, Typed, Locked
<1>10. ASSUME NEW p \in Procs, Publish(p) \/ PublishReplaced(p) PROVE Sole'
  <2>1. /\ proc[p].entry \in Entries /\ MyRoot(p) # Absent
        /\ Owners(proc[p].entry.id, root) \subseteq {proc[p].entry.name}
        /\ Moves(proc[p].entry.name, [MyRoot(p) EXCEPT !.rec = proc[p].entry])
    BY <1>10 DEF Publish, PublishReplaced, Typed, Begun, Sole, SoleFor
  <2>2. OneRootPerIdentity'
    BY <2>1, WriteKeeps DEF MyRoot, Sole
  <2>3. proc'[p].pc = "lease" /\ \A q \in Procs \ {p} : proc'[q] = proc[q]
    BY <1>10, GoesTo DEF Publish, PublishReplaced, Typed, Locked
  <2> QED BY <1>10, <2>2, <2>3, SoleOfOne DEF Publish, PublishReplaced, Locked, SoleFor
<1>11. ASSUME NEW p \in Procs, UndoCreate(p) PROVE Sole'
  <2>1. Sheds
    BY <1>11 DEF UndoCreate, Moves, Sheds, Typed, Data
  <2> QED BY <1>11, <2>1, EndsAs, SoleShed DEF UndoCreate, NoProcess, Typed
<1>12. ASSUME NEW p \in Procs, UndoRename(p) PROVE Sole'
  <2>1. /\ proc[p].plan.source \in Names /\ proc[p].entry.name \in Names
        /\ MyRoot(p) # Absent /\ proc[p].plan.source # proc[p].entry.name
    BY <1>12 DEF UndoRename, MyRootIs, MyRoot, Typed, Begun, Entries, Processes, Plans, Changes
  <2>2. root' = [root EXCEPT ![proc[p].entry.name] = Absent, ![proc[p].plan.source] = MyRoot(p)]
    BY <1>12, <2>1 DEF UndoRename, Typed, Data
  <2>3. OneRootPerIdentity'
    BY <1>12, <2>1, <2>2, MoveKeeps DEF UndoRename, MyRoot, Sole
  <2>4. proc'[p] = NoProcess /\ \A q \in Procs \ {p} : proc'[q] = proc[q]
    BY <1>12, EndsAs DEF UndoRename, Typed
  <2> QED BY <1>12, <2>3, <2>4, SoleOfOne DEF UndoRename, Locked, SoleFor, NoProcess
<1>13. ASSUME NEW n \in Names, Displace(n) \/ Place(n) PROVE Sole'
  <2>1. Sheds /\ proc' = proc
    BY <1>13, ValueAssumption DEF Displace, Place, Moves, Sheds, Typed, Data
  <2>2. \A id \in Ids : Owners(id, root') \subseteq Owners(id, root)
    BY <2>1, ShedsKeeps
  <2>3. \A p \in Procs : proc[p].pc # "idle" => proc[p].entry.id \in Ids
    BY DEF Typed, Begun, Entries
  <2> QED BY <2>1, <2>2, <2>3 DEF Sole, SoleFor, OneRootPerIdentity
<1>14. CASE UNCHANGED vars
  BY <1>14 DEF vars, Sole, SoleFor, OneRootPerIdentity
<1> QED BY <1>2, <1>3, <1>4, <1>5, <1>6, <1>7, <1>8, <1>9, <1>10, <1>11, <1>12, <1>13, <1>14
        DEF Next

(* For any number of processes, and whatever fails or is killed, the        *)
(* program never binds two directories to one File ID.                      *)
THEOREM IdentitiesHold == Spec => []OneRootPerIdentity
<1>1. Init => Sole
  BY IdleInit DEF Init, Sole, SoleFor, OneRootPerIdentity
<1>2. Sole => OneRootPerIdentity
  BY DEF Sole
<1> QED BY <1>1, <1>2, HeldInit, TypedInit, TypedKept, HeldKept, SoleKept, PTL DEF Spec

-----------------------------------------------------------------------------
(* What the program takes, moves and removes *)

(* A directory that is planned for has existed, so that no new one is it;   *)
(* and what is executed without having been made is the claim that was      *)
(* shown, its record unchanged or gone in the exchange.                     *)
Executing == {"change", "pin", "publish", "replace", "undo"}

ShownTo(p) ==
  /\ proc[p].pc \in Executing /\ proc[p].plan.kind \in Claims =>
       /\ proc[p].claim = proc[p].plan /\ proc[p].plan.dir \in used
       /\ \A n \in Names : root[n] # Absent /\ root[n].dir = proc[p].plan.dir
                             => root[n].rec \in {proc[p].claim.rec, Missing}
  /\ proc[p].pc \in Executing => proc[p].plan.kind \in Claims \cup {"create", "direct"}
  /\ proc[p].pc \in {"publish", "replace", "undo"} => proc[p].plan.kind # "direct"

Shown == \A p \in Procs : ShownTo(p)

(* A step of the lock's holder concerns no other plan. *)
LEMMA ShownOfOne ==
  ASSUME Typed, NEW p \in Procs, proc[p].pc \in Locked,
         \A q \in Procs \ {p} : proc'[q] = proc[q], ShownTo(p)'
  PROVE  Shown'
<1>1. ASSUME NEW q \in Procs \ {p} PROVE ShownTo(q)'
  BY DEF Typed, Exclusive, ShownTo, Locked, Executing
<1> QED BY <1>1 DEF Shown

(* Nor does a step that leaves the directories alone and executes nothing.  *)
LEMMA ShownQuiet ==
  ASSUME Shown, UNCHANGED <<root, used>>, NEW p \in Procs,
         \A q \in Procs \ {p} : proc'[q] = proc[q], proc'[p].pc \notin Executing
  PROVE  Shown'
<1>1. ASSUME NEW q \in Procs \ {p} PROVE ShownTo(q)'
  BY DEF Shown, ShownTo
<1>2. ShownTo(p)'
  BY DEF ShownTo, Executing
<1> QED BY <1>1, <1>2 DEF Shown

LEMMA ShownKept == Typed /\ Held /\ Shown /\ [Next]_vars => Shown'
<1> SUFFICES ASSUME Typed, Held, Shown, [Next]_vars PROVE Shown'
  OBVIOUS
<1>1. ASSUME NEW p \in Procs, NEW e \in Entries, Begin(p, e) PROVE Shown'
  BY <1>1, ShownQuiet DEF Begin, NoProcess, Typed, Processes, Executing
<1>2. ASSUME NEW p \in Procs, Inspect(p) \/ Approve(p) \/ Lock(p) PROVE Shown'
  BY <1>2, ShownQuiet DEF Inspect, Approve, Lock, Goes, Typed, Processes, Executing
<1>3. ASSUME NEW p \in Procs, Conflict(p) \/ End(p) PROVE Shown'
  BY <1>3, EndsAs, ShownQuiet DEF Conflict, End, NoProcess, Typed, Executing
<1>4. ASSUME NEW p \in Procs, Replan(p) PROVE Shown'
  <2> DEFINE plan == PlanOf(proc[p].entry, root)
  <2>1. Fits(plan, proc[p].entry, root) /\ proc[p].entry.name \in Names
    BY <1>4, PlanFits DEF Replan, Typed, Begun, Data, Entries
  <2>2. UNCHANGED <<root, used>> /\ \A q \in Procs \ {p} : proc'[q] = proc[q]
    BY <1>4, EndsAs DEF Replan, Typed
  <2>3. CASE proc'[p].pc \in {"change", "pin"}
    <3>1. /\ proc'[p].claim = proc[p].claim /\ proc'[p].plan = plan
          /\ IF proc[p].claim.kind # "none" THEN Expected(plan, proc[p].claim)
                                            ELSE plan.kind \in {"direct", "create"}
          /\ proc[p].claim \in Changes(Claims) \cup {NoPlan}
      BY <1>4, <2>3 DEF Replan, Ends, NoProcess, Typed, Processes
    <3>2. /\ plan.kind \in Claims \cup {"direct", "create"}
          /\ plan.kind \in Claims => proc[p].claim = plan
      BY <3>1 DEF Expected, Changes, Claims, NoPlan
    <3>3. plan.kind \in Claims =>
            \E n \in Names : root[n] # Absent /\ plan.dir = root[n].dir /\ plan.rec = root[n].rec
      <4>1. CASE plan.kind = "rename"
        BY <2>1, <4>1 DEF Fits, Owners
      <4>2. CASE plan.kind = "current"
        BY <2>1, <4>2 DEF Fits
      <4> QED BY <4>1, <4>2 DEF Claims
    <3>4. ShownTo(p)'
      BY <2>2, <2>3, <3>1, <3>2, <3>3 DEF ShownTo, Typed, Data
    <3> QED BY <1>4, <2>2, <3>4, ShownOfOne DEF Replan, Locked
  <2>4. CASE proc'[p].pc \notin {"change", "pin"}
    <3>1. proc'[p].pc \notin Executing
      BY <1>4, <2>4 DEF Replan, Ends, NoProcess, Typed, Processes, Executing
    <3> QED BY <2>2, <3>1, ShownQuiet
  <2> QED BY <2>3, <2>4
<1>5. ASSUME NEW p \in Procs, Create(p) PROVE Shown'
  <2>1. /\ proc'[p].pc = "pin" /\ proc'[p].plan.kind = "create"
        /\ \A q \in Procs \ {p} : proc'[q] = proc[q]
    <3>1. proc[p].plan \in Plans /\ proc[p].plan.kind = "create"
      BY <1>5 DEF Create, Typed, Processes
    <3>2. PICK d \in Dirs : proc' = [proc EXCEPT ![p].pc = "pin", ![p].plan.dir = d]
      BY <1>5 DEF Create
    <3>3. proc'[p].plan = [proc[p].plan EXCEPT !.dir = d]
      BY <3>2 DEF Typed, Processes
    <3>4. [proc[p].plan EXCEPT !.dir = d].kind = proc[p].plan.kind
      BY <3>1 DEF Plans, Changes
    <3> QED BY <3>1, <3>2, <3>3, <3>4 DEF Typed, Processes
  <2> QED BY <1>5, <2>1, ShownOfOne DEF Create, ShownTo, Locked, Claims
<1>6. ASSUME NEW p \in Procs, Rename(p) PROVE Shown'
  <2>1. /\ proc[p].plan.source \in Names /\ proc[p].entry.name \in Names
    BY <1>6 DEF Rename, Typed, Begun, Entries, Processes, Plans, Changes
  <2>2. /\ root'[proc[p].plan.source] = Absent
        /\ root'[proc[p].entry.name] = root[proc[p].plan.source]
        /\ \A n \in Names \ {proc[p].plan.source, proc[p].entry.name} : root'[n] = root[n]
    BY <1>6, <2>1 DEF Rename, MyRoot, Typed, Data
  <2>3. /\ proc'[p].pc = "pin" /\ proc'[p].plan = proc[p].plan /\ proc'[p].claim = proc[p].claim
        /\ \A q \in Procs \ {p} : proc'[q] = proc[q]
    BY <1>6, GoesTo DEF Rename, Typed, Locked
  <2>4. \A n \in Names : root'[n] # Absent => \E m \in Names : root[m] = root'[n]
    BY <2>1, <2>2
  <2>5. used' = used /\ proc[p].pc \in Executing /\ ShownTo(p)
    BY <1>6 DEF Rename, Executing, Shown
  <2>6. ShownTo(p)'
    BY <2>3, <2>4, <2>5 DEF ShownTo
  <2> QED BY <1>6, <2>3, <2>6, ShownOfOne DEF Rename, Locked
<1>7. ASSUME NEW p \in Procs, Pin(p) \/ Lease(p) \/ Fail(p) PROVE Shown'
  <2>1. /\ UNCHANGED <<root, used>> /\ proc'[p].plan = proc[p].plan /\ proc'[p].claim = proc[p].claim
        /\ \A q \in Procs \ {p} : proc'[q] = proc[q]
        /\ proc'[p].pc \in {"publish", "undo"} =>
             proc[p].pc \in Executing /\ proc[p].plan.kind # "direct"
        /\ proc'[p].pc \in {"publish", "undo", "lease", "bound"}
    BY <1>7, GoesTo DEF Pin, Lease, Fail, Typed, Locked, Executing, Changed
  <2>2. ShownTo(p)'
    BY <2>1 DEF Shown, ShownTo, Executing
  <2> QED BY <1>7, <2>1, <2>2, ShownOfOne DEF Pin, Lease, Fail, Locked
<1>8. ASSUME NEW p \in Procs, PublishReplace(p) PROVE Shown'
  <2>1. proc[p].entry.name \in Names /\ MyRoot(p) \in Roots
    BY <1>8 DEF PublishReplace, MyRoot, Typed, Data, Begun, Entries
  <2>2. /\ root'[proc[p].entry.name].rec = Missing
        /\ \A n \in Names \ {proc[p].entry.name} : root'[n] = root[n]
        /\ used' = used
    BY <1>8, <2>1 DEF PublishReplace, Moves, Typed, Data, Roots
  <2>3. /\ proc'[p].pc = "replace" /\ proc'[p].plan = proc[p].plan /\ proc'[p].claim = proc[p].claim
        /\ \A q \in Procs \ {p} : proc'[q] = proc[q]
    BY <1>8, GoesTo DEF PublishReplace, Typed, Locked
  <2>4. ShownTo(p)'
    BY <1>8, <2>2, <2>3 DEF PublishReplace, Shown, ShownTo, Executing
  <2> QED BY <1>8, <2>3, <2>4, ShownOfOne DEF PublishReplace, Locked
<1>9. ASSUME NEW p \in Procs, Publish(p) \/ PublishReplaced(p) PROVE Shown'
  <2>1. proc'[p].pc = "lease" /\ \A q \in Procs \ {p} : proc'[q] = proc[q]
    BY <1>9, GoesTo DEF Publish, PublishReplaced, Typed, Locked
  <2> QED BY <1>9, <2>1, ShownOfOne DEF Publish, PublishReplaced, ShownTo, Locked, Executing
<1>10. ASSUME NEW p \in Procs, UndoCreate(p) \/ UndoRename(p) PROVE Shown'
  <2>1. proc'[p] = NoProcess /\ \A q \in Procs \ {p} : proc'[q] = proc[q]
    BY <1>10, EndsAs DEF UndoCreate, UndoRename, Typed
  <2> QED BY <1>10, <2>1, ShownOfOne
          DEF UndoCreate, UndoRename, ShownTo, Locked, Executing, NoProcess
<1>11. ASSUME NEW n \in Names, Displace(n) \/ Place(n) PROVE Shown'
  <2>1. /\ proc' = proc /\ used \subseteq used'
        /\ \A m \in Names : root'[m] # Absent =>
             root'[m] = root[m] \/ root'[m].dir \notin used
    BY <1>11 DEF Displace, Place, Moves, Typed, Data
  <2>2. ASSUME NEW p \in Procs PROVE ShownTo(p)'
    BY <2>1 DEF Shown, ShownTo
  <2> QED BY <2>2 DEF Shown
<1>12. CASE UNCHANGED vars
  BY <1>12 DEF vars, Shown, ShownTo
<1> QED BY <1>1, <1>2, <1>3, <1>4, <1>5, <1>6, <1>7, <1>8, <1>9, <1>10, <1>11, <1>12 DEF Next

(* A directory that is somewhere else, or has another record or is gone     *)
(* after a step of the program, was taken by the holder of the lock.        *)
TakesShown ==
  \A n \in Names : proc' # proc /\ root[n] # Absent /\ root'[n] # root[n] =>
    \E p \in Procs :
      /\ proc[p].pc \in Locked /\ proc[p].plan.dir = root[n].dir
      /\ \/ proc[p].plan.kind = "create"
         \/ proc[p].claim.dir = root[n].dir /\ root[n].rec \in {proc[p].claim.rec, Missing}

LEMMA StepTakesShown == Typed /\ Held /\ Shown /\ [Next]_vars => TakesShown
<1> SUFFICES ASSUME Typed, Held, Shown, [Next]_vars,
                    NEW n \in Names, proc' # proc, root[n] # Absent, root'[n] # root[n]
             PROVE  \E p \in Procs :
                      /\ proc[p].pc \in Locked /\ proc[p].plan.dir = root[n].dir
                      /\ \/ proc[p].plan.kind = "create"
                         \/ /\ proc[p].claim.dir = root[n].dir
                            /\ root[n].rec \in {proc[p].claim.rec, Missing}
  BY DEF TakesShown
<1>1. PICK p \in Procs : Create(p) \/ Rename(p) \/ Publish(p) \/ PublishReplace(p)
                          \/ PublishReplaced(p) \/ UndoCreate(p) \/ UndoRename(p)
  BY DEF Next, vars, Begin, Inspect, Approve, Conflict, Lock, Replan, Pin, Lease, Fail, End,
         Displace, Place
<1>2. proc[p].pc \in Executing /\ proc[p].pc \in Locked
  BY <1>1 DEF Create, Rename, Publish, PublishReplace, PublishReplaced, UndoCreate, UndoRename,
         Executing, Locked
<1>3. proc[p].plan.kind \in Claims \cup {"create"}
  BY <1>1, <1>2 DEF Create, Rename, Publish, PublishReplace, PublishReplaced, UndoCreate, UndoRename,
         Shown, ShownTo
<1>4. proc[p].plan.dir = root[n].dir
  <2>1. CASE Create(p)
    BY <2>1 DEF Create, Moves, MyRoot, Typed, Data
  <2>2. CASE Rename(p)
    BY <2>2 DEF Rename, MyRoot, Typed, Data
  <2>3. CASE Publish(p) \/ PublishReplace(p) \/ PublishReplaced(p)
    <3>1. MyRootIs(p) /\ \A m \in Names \ {proc[p].entry.name} : root'[m] = root[m]
      BY <2>3 DEF Publish, PublishReplace, PublishReplaced, Moves, Held, HeldBy, Pinned, Typed, Data
    <3> QED BY <3>1 DEF MyRootIs, MyRoot
  <2>4. CASE UndoCreate(p)
    BY <2>4 DEF UndoCreate, Moves, MyRootIs, MyRoot, Typed, Data
  <2>5. CASE UndoRename(p)
    BY <2>5 DEF UndoRename, MyRootIs, MyRoot, Typed, Data
  <2> QED BY <1>1, <2>1, <2>2, <2>3, <2>4, <2>5
<1> QED BY <1>2, <1>3, <1>4 DEF Shown, ShownTo

(* No directory is moved, rebound or removed by the program but as the user *)
(* was shown it, or by the process that has made it.                        *)
THEOREM OnlyWhatWasShown == Spec => TakesOnlyWhatWasShown
<1>1. Init => Shown
  BY IdleInit DEF Shown, ShownTo, Executing
<1>2. TakesShown => \A n \in Names : proc' # proc /\ root[n] # Absent /\ root'[n] # root[n] =>
       \E p \in Procs :
         /\ proc[p].pc \in Locked /\ proc[p].plan.dir = root[n].dir
         /\ \/ proc[p].plan.kind = "create"
            \/ /\ proc[p].claim.dir = root[n].dir
               /\ root[n].rec \in {proc[p].claim.rec, Missing}
  BY DEF TakesShown
<1> QED BY <1>1, <1>2, HeldInit, TypedInit, TypedKept, HeldKept, ShownKept, StepTakesShown, PTL
        DEF Spec, TakesOnlyWhatWasShown

(* A directory is still there after a step of the program, or was made by   *)
(* the resolution that removes it.                                          *)
Keeps ==
  \A n \in Names : proc' # proc /\ root[n] # Absent =>
    \/ \E m \in Names : root'[m] # Absent /\ root'[m].dir = root[n].dir
    \/ \E p \in Procs : /\ proc[p].plan.kind = "create" /\ proc[p].plan.dir = root[n].dir
                        /\ root[n].rec = Missing

LEMMA StepKeeps == Typed /\ [Next]_vars => Keeps
<1> SUFFICES ASSUME Typed, [Next]_vars, NEW n \in Names, proc' # proc, root[n] # Absent,
                    ~ \E m \in Names : root'[m] # Absent /\ root'[m].dir = root[n].dir
             PROVE  \E p \in Procs : /\ proc[p].plan.kind = "create"
                                     /\ proc[p].plan.dir = root[n].dir /\ root[n].rec = Missing
  BY DEF Keeps
<1>1. PICK p \in Procs : Create(p) \/ Rename(p) \/ Publish(p) \/ PublishReplace(p)
                          \/ PublishReplaced(p) \/ UndoCreate(p) \/ UndoRename(p)
  BY DEF Next, vars, Begin, Inspect, Approve, Conflict, Lock, Replan, Pin, Lease, Fail, End,
         Displace, Place
<1>2. ~ Create(p)
  BY DEF Create, Moves, MyRoot, Typed, Data
<1>3. ASSUME Rename(p) PROVE FALSE
  <2>1. /\ proc[p].plan.source \in Names /\ proc[p].entry.name \in Names
    BY <1>3 DEF Rename, Typed, Begun, Entries, Processes, Plans, Changes
  <2> QED BY <1>3, <2>1 DEF Rename, MyRoot, Typed, Data
<1>4. ASSUME Publish(p) \/ PublishReplace(p) \/ PublishReplaced(p) PROVE FALSE
  <2>1. PICK r \in Records : Moves(proc[p].entry.name, [MyRoot(p) EXCEPT !.rec = r])
    BY <1>4 DEF Publish, PublishReplace, PublishReplaced, Typed, Begun, Records
  <2>2. proc[p].entry.name \in Names /\ MyRoot(p) # Absent
    BY <1>4 DEF Publish, PublishReplace, PublishReplaced, Typed, Begun, Entries
  <2>3. root'[proc[p].entry.name] \in Roots /\ root'[proc[p].entry.name].dir = MyRoot(p).dir
    BY <2>1, <2>2 DEF Moves, MyRoot, Typed, Data, Roots
  <2>4. \A m \in Names \ {proc[p].entry.name} : root'[m] = root[m]
    BY <2>1 DEF Moves, Typed, Data
  <2> QED BY <2>2, <2>3, <2>4, ValueAssumption DEF MyRoot
<1>5. ASSUME UndoRename(p) PROVE FALSE
  <2>1. proc[p].plan.source \in Names /\ proc[p].entry.name \in Names
    BY <1>5 DEF UndoRename, Typed, Begun, Entries, Processes, Plans, Changes
  <2> QED BY <1>5, <2>1 DEF UndoRename, MyRootIs, MyRoot, Typed, Data
<1>6. UndoCreate(p)
  BY <1>1, <1>2, <1>3, <1>4, <1>5
<1> QED BY <1>6 DEF UndoCreate, MyRootIs, MyRoot, Moves, Typed, Data

(* The program removes no directory but the empty one that a resolution has *)
(* made itself before it failed.                                            *)
THEOREM NothingLost == Spec => NothingIsLost
<1>1. Keeps => \A n \in Names : proc' # proc /\ root[n] # Absent =>
       \/ \E m \in Names : root'[m] # Absent /\ root'[m].dir = root[n].dir
       \/ \E p \in Procs : /\ proc[p].plan.kind = "create" /\ proc[p].plan.dir = root[n].dir
                           /\ root[n].rec = Missing
  BY DEF Keeps
<1> QED BY <1>1, TypedInit, TypedKept, StepKeeps, PTL DEF Spec, NothingIsLost
=============================================================================
