---------------------------- MODULE ContextStore ----------------------------
(***************************************************************************)
(* The saved contexts of a DataRoot (context_store/mod.rs and storage.rs): *)
(* one directory for each context, with one document in it.  Commands of   *)
(* several consoles create, edit and delete contexts under the lock of the *)
(* DataRoot; each step of theirs is one call on the file system, between   *)
(* any two of which the process may be killed.                             *)
(***************************************************************************)
EXTENDS Naturals, FiniteSets

CONSTANTS Consoles,      \* processes, by process ID; IDs are used again
          Contexts,      \* Context IDs
          MaxNotes,      \* MAX_CONTEXT_NOTES
          MaxAccidents   \* bound on failed calls and killed processes

ASSUME ConsoleAssumption == "nobody" \notin Consoles
ASSUME ContextAssumption == MaxNotes \in Nat /\ MaxAccidents \in Nat

VARIABLES
  contexts,      \* the directory of each context: its document, and temporary files
  partials,      \* the processes that a directory _partial-<pid>-0 is left of
  contextLock,   \* DataRootLock
  console,       \* each process
  accidents

contextVars == <<contexts, partials, contextLock, console, accidents>>

-----------------------------------------------------------------------------
(* A record: whether it has the one command, how many notes, which prompt.  *)
Records  == [command : BOOLEAN, notes : 0 .. MaxNotes, prompt : {"", "text"}]
NoRecord == [command |-> FALSE, notes |-> 0, prompt |-> "none"]
Empty    == [command |-> FALSE, notes |-> 0, prompt |-> ""]   \* ContextRecord::empty

Updates    == {"add_commands", "remove_commands", "append_note", "set_prompt"}
Operations == Updates \cup {"create", "delete"}

ContextTypeOK ==
  /\ contexts \in [Contexts -> [directory : BOOLEAN, document : Records \cup {NoRecord},
                                temporaries : 0 .. MaxAccidents + 1]]
  /\ partials \subseteq Consoles
  /\ contextLock \in Consoles \cup {"nobody"}
  /\ console \in [Consoles -> [post : {"idle", "waiting", "looking", "staging new", "staging",
                                       "replacing", "removing"},
                               op : Operations \cup {"none"}, id : Contexts \cup {"none"}, draft : Records \cup {NoRecord}]]
  /\ accidents \in 0 .. MaxAccidents

Idle    == [post |-> "idle", op |-> "none", id |-> "none", draft |-> NoRecord]
Missing == [directory |-> FALSE, document |-> NoRecord, temporaries |-> 0]

ContextInit ==
  /\ contexts = [id \in Contexts |-> Missing]
  /\ partials = {} /\ contextLock = "nobody"
  /\ console = [p \in Consoles |-> Idle]
  /\ accidents = 0

-----------------------------------------------------------------------------
Busy(p, post) == console[p].post = post
Turn(p, post) == console' = [console EXCEPT ![p].post = post]
Accident      == accidents < MaxAccidents /\ accidents' = accidents + 1

(* A command ends, whatever its outcome, and drops the lock.                *)
Leave(p) ==
  /\ console' = [console EXCEPT ![p] = Idle]
  /\ contextLock' = IF contextLock = p THEN "nobody" ELSE contextLock

BeginCommand(p) ==
  /\ Busy(p, "idle")
  /\ \E op \in Operations, id \in Contexts :
       console' = [console EXCEPT ![p] = [post |-> "waiting", op |-> op, id |-> id, draft |-> NoRecord]]
  /\ UNCHANGED <<contexts, partials, contextLock, accidents>>

AcquireLock(p) ==
  /\ Busy(p, "waiting") /\ contextLock = "nobody"
  /\ contextLock' = p
  /\ Turn(p, "looking")
  /\ UNCHANGED <<contexts, partials, accidents>>

-----------------------------------------------------------------------------
(* publish_new_record: the new context is staged beside the others, under a *)
(* name that no list shows, and then renamed.                               *)
CreateContext(p) ==
  /\ Busy(p, "looking") /\ console[p].op = "create"
  /\ IF contexts[console[p].id].directory \/ p \in partials
     THEN Leave(p) /\ UNCHANGED partials
     ELSE partials' = partials \cup {p} /\ Turn(p, "staging new") /\ UNCHANGED contextLock
  /\ UNCHANGED <<contexts, accidents>>

PublishNewRecord(p) ==
  /\ Busy(p, "staging new")
  /\ \/ /\ contexts' = [contexts EXCEPT ![console[p].id] =
                          [directory |-> TRUE, document |-> Empty, temporaries |-> 0]]
        /\ partials' = partials \ {p}
        /\ UNCHANGED accidents
     \/ /\ Accident /\ UNCHANGED contexts
        /\ partials' \in {partials, partials \ {p}}
  /\ Leave(p)

-----------------------------------------------------------------------------
(* What an update makes of a record, if it does not refuse it; a record     *)
(* that is too long is refused when it is published.                        *)
Changed(op, record) ==
  CASE op = "add_commands"    -> {[record EXCEPT !.command = TRUE]}
    [] op = "remove_commands" -> IF record.command THEN {[record EXCEPT !.command = FALSE]} ELSE {}
    [] op = "append_note"     -> {r \in {[record EXCEPT !.notes = @ + 1]} : r.notes <= MaxNotes}
    [] op = "set_prompt"      -> {[record EXCEPT !.prompt = "text"]}

(* Mutant: the update does not take the lock. *)
UpdateUnlocked(p) ==
  /\ Busy(p, "waiting") /\ console[p].op \in Updates
  /\ LET record == contexts[console[p].id].document IN
     IF record = NoRecord \/ Changed(console[p].op, record) = {}
     THEN Leave(p)
     ELSE /\ \E changed \in Changed(console[p].op, record) :
               console' = [console EXCEPT ![p].draft = changed, ![p].post = "staging"]
          /\ UNCHANGED contextLock
  /\ UNCHANGED <<contexts, partials, accidents>>

(* update: read_record, and the change.                                     *)
UpdateRecord(p) ==
  /\ Busy(p, "looking") /\ console[p].op \in Updates
  /\ LET record == contexts[console[p].id].document IN
     IF record = NoRecord \/ Changed(console[p].op, record) = {}
     THEN Leave(p)
     ELSE /\ \E changed \in Changed(console[p].op, record) :
               console' = [console EXCEPT ![p].draft = changed, ![p].post = "staging"]
          /\ UNCHANGED contextLock
  /\ UNCHANGED <<contexts, partials, accidents>>

(* publish_record: a temporary file in the directory of the context, which  *)
(* then replaces the document.                                              *)
WriteTemporary(p) ==
  /\ Busy(p, "staging")
  /\ contexts' = [contexts EXCEPT ![console[p].id].temporaries = @ + 1]
  /\ Turn(p, "replacing")
  /\ UNCHANGED <<partials, contextLock, accidents>>

(* A replacement that fails keeps the temporary file, and may have taken    *)
(* the document away.                                                       *)
PublishRecord(p) ==
  /\ Busy(p, "replacing")
  /\ LET id == console[p].id IN
     \/ /\ contexts' = [contexts EXCEPT ![id].temporaries = @ - 1, ![id].document = console[p].draft]
        /\ UNCHANGED accidents
     \/ /\ Accident
        /\ contexts' \in {contexts, [contexts EXCEPT ![id].document = NoRecord]}
  /\ Leave(p)
  /\ UNCHANGED partials

-----------------------------------------------------------------------------
(* delete_record removes what it knows: the document, and the directory.    *)
DeleteRecord(p) ==
  /\ Busy(p, "looking") /\ console[p].op = "delete"
  /\ LET id == console[p].id IN
     IF contexts[id].document = NoRecord \/ contexts[id].temporaries # 0
     THEN Leave(p) /\ UNCHANGED contexts
     ELSE /\ contexts' = [contexts EXCEPT ![id].document = NoRecord]
          /\ Turn(p, "removing") /\ UNCHANGED contextLock
  /\ UNCHANGED <<partials, accidents>>

RemoveDirectory(p) ==
  /\ Busy(p, "removing")
  /\ \/ contexts' = [contexts EXCEPT ![console[p].id] = Missing] /\ UNCHANGED accidents
     \/ Accident /\ UNCHANGED contexts
  /\ Leave(p)
  /\ UNCHANGED partials

(* A call fails, the lock is not to be had, or the process is killed.       *)
CommandDies(p) ==
  /\ ~Busy(p, "idle") /\ Accident
  /\ Leave(p)
  /\ UNCHANGED <<contexts, partials>>

ContextStep(p) ==
  \/ BeginCommand(p) \/ AcquireLock(p) \/ CreateContext(p) \/ PublishNewRecord(p)
  \/ UpdateRecord(p) \/ WriteTemporary(p) \/ PublishRecord(p)
  \/ DeleteRecord(p) \/ RemoveDirectory(p) \/ CommandDies(p)

ContextNext == \E p \in Consoles : ContextStep(p)

ContextSpec == ContextInit /\ [][ContextNext]_contextVars

-----------------------------------------------------------------------------
(* A change of a saved context is one command's change of what the command   *)
(* before it has left: no edit of another console is undone by it, and one   *)
(* that was killed or failed has left all or nothing of its edit.            *)
CommittedStays ==
  [][\A id \in Contexts :
       LET old == contexts[id].document
           new == contexts'[id].document IN
       new \notin {old, NoRecord} =>
         IF old = NoRecord THEN new = Empty ELSE \E op \in Updates : new \in Changed(op, old)]_contextVars
=============================================================================
