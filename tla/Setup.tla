------------------------------- MODULE Setup -------------------------------
(***************************************************************************)
(* The Entry Profile, the provider state of .dev.setup and the commands    *)
(* that use the development environment (profile/mod.rs and                *)
(* provider_state.rs, development/setup/provider.rs, native.rs and         *)
(* environment.rs, command/development/mod.rs).  Three kinds of process    *)
(* share the files of one DataRoot: editors commit profiles, Setup         *)
(* installs what a profile declares and publishes it, and consumers        *)
(* resolve an environment from what is published.                          *)
(*                                                                         *)
(* A revision is a digest, which is as good as the content it is taken of. *)
(***************************************************************************)
EXTENDS Naturals, FiniteSets

CONSTANTS Actors,      \* processes; each acts as editor, Setup or consumer in turn
          Inputs,      \* what a profile may declare for the development environment
          MaxTokens,   \* bound on the publication tokens
          MaxHitches   \* bound on failed calls and killed processes

ASSUME ActorAssumption == "free" \notin Actors
ASSUME InputAssumption == {"missing", "broken"} \cap Inputs = {}
ASSUME TokenAssumption == MaxTokens \in Nat /\ MaxHitches \in Nat

VARIABLES
  profileFile,    \* _profile.json
  providerState,  \* _state.json of the provider
  exports,        \* the tokens that env.cmd and env.ps1 carry
  toolsFor,       \* whose inputs the directory of each tool was installed for
  rootLock, stateLock, setupLock,
  actor,          \* each process
  tokens,         \* how many tokens have been made
  hitches

setupVars == <<profileFile, providerState, exports, toolsFor, rootLock, stateLock, setupLock,
               actor, tokens, hitches>>

-----------------------------------------------------------------------------
(* A profile: its development inputs, and one field that is none of them.   *)
Profiles  == [inputs : Inputs, note : {0, 1}]
NoProfile == [inputs |-> "missing", note |-> 0]

States(tokensUsed) ==
  [status : {"unavailable", "ready"}, inputs : Inputs, token : tokensUsed]
NoState == [status |-> "missing", inputs |-> "missing", token |-> 0]

(* Setup installs the archive tools in this order.  Two declarations of one *)
(* version, with and without a digest, share the tool's directory.          *)
Tools == {"bun", "pwsh"}

Edits == {"none", "inputs", "note", "replace"}

Posts == {"resting", "viewing", "editing", "committing", "replacing", "restoring state",
          "queued", "starting", "announcing", "installing", "writing cmd", "writing ps1",
          "completing", "resolving first", "resolving bun", "resolving pwsh",
          "resolving last", "resolved"}

SetupTypeOK ==
  /\ profileFile \in Profiles \cup {NoProfile}
  /\ providerState \in States(1 .. MaxTokens) \cup {NoState}
  /\ exports \in [{"cmd", "ps1"} -> 0 .. MaxTokens]
  /\ toolsFor \in [Tools -> Inputs \cup {"broken"}]
  /\ rootLock \in Actors \cup {"free"}
  /\ stateLock \in Actors \cup {"free"}
  /\ setupLock \in Actors \cup {"free"}
  /\ actor \in [Actors -> [post : Posts, seen : Profiles \cup {NoProfile},
                           edit : Edits, checked : BOOLEAN, next : Profiles \cup {NoProfile},
                           previous : States(1 .. MaxTokens) \cup {NoState},
                           token : 0 .. MaxTokens]]
  /\ tokens \in 0 .. MaxTokens /\ hitches \in 0 .. MaxHitches

Resting == [post |-> "resting", seen |-> NoProfile, edit |-> "none", checked |-> FALSE,
            next |-> NoProfile, previous |-> NoState, token |-> 0]

SetupInit ==
  /\ profileFile \in [inputs : Inputs, note : {0}] \cup {NoProfile}
  /\ providerState = NoState
  /\ exports = [script \in {"cmd", "ps1"} |-> 0]
  /\ toolsFor = [t \in Tools |-> "broken"]
  /\ rootLock = "free" /\ stateLock = "free" /\ setupLock = "free"
  /\ actor = [a \in Actors |-> Resting]
  /\ tokens = 0 /\ hitches = 0

-----------------------------------------------------------------------------
Works(a, post)  == actor[a].post = post
Moves(a, post)  == actor' = [actor EXCEPT ![a].post = post]
Rests(a)        == actor' = [actor EXCEPT ![a] = Resting]
FreshToken      == tokens < MaxTokens /\ tokens' = tokens + 1
Hitch           == hitches < MaxHitches /\ hitches' = hitches + 1
Without(lock, a) == IF lock = a THEN "free" ELSE lock

(* What ends a process, or the call in it, closes the files it holds.       *)
Release(a) ==
  /\ rootLock' = Without(rootLock, a)
  /\ stateLock' = Without(stateLock, a)
  /\ setupLock' = Without(setupLock, a)

Unavailable(inputs, token) == [status |-> "unavailable", inputs |-> inputs, token |-> token]
Ready(inputs, token)       == [status |-> "ready", inputs |-> inputs, token |-> token]

-----------------------------------------------------------------------------
(* Editors.  A web page reads the document and sends its revision with the  *)
(* change; the command line changes a setting or replaces the profile.      *)

ViewProfile(a) ==
  /\ Works(a, "resting")
  /\ \E edit \in {"inputs", "note", "replace"}, checked \in BOOLEAN :
       /\ checked => edit # "replace"
       /\ actor' = [actor EXCEPT ![a] =
            [Resting EXCEPT !.post = "viewing", !.edit = edit, !.checked = checked,
                            !.seen = IF checked THEN profileFile ELSE NoProfile]]
  /\ UNCHANGED <<profileFile, providerState, exports, toolsFor, rootLock, stateLock, setupLock,
                 tokens, hitches>>

LockProfile(a) ==
  /\ Works(a, "viewing") /\ rootLock = "free"
  /\ rootLock' = a
  /\ Moves(a, "editing")
  /\ UNCHANGED <<profileFile, providerState, exports, toolsFor, stateLock, setupLock, tokens, hitches>>

(* record_for_setting_update: without a profile, the default one, whatever  *)
(* its inputs are.                                                          *)
Current == IF profileFile = NoProfile THEN [inputs : Inputs, note : {0}] ELSE {profileFile}

Edited(kind) ==
  CASE kind = "inputs"  -> [inputs : Inputs \ {profileFile.inputs}, note : {old.note : old \in Current}]
    [] kind = "note"    -> {[old EXCEPT !.note = 1 - @] : old \in Current}
    [] OTHER            -> [inputs : Inputs \ {profileFile.inputs}, note : {0}]

(* Mutant: the revision that the client names is not compared. *)
UpdateWhatever(a) ==
  /\ Works(a, "editing")
  /\ \E next \in Edited(actor[a].edit) :
       actor' = [actor EXCEPT ![a].next = next,
                   ![a].post = IF next.inputs = profileFile.inputs THEN "replacing" ELSE "committing"]
  /\ UNCHANGED <<profileFile, providerState, exports, toolsFor, rootLock, stateLock, setupLock,
                 tokens, hitches>>

(* update_setting_if_revision, update_setting and replace: the change is    *)
(* made to what the file holds under the lock, unless that is not what the  *)
(* client has seen.                                                         *)
UpdateSetting(a) ==
  /\ Works(a, "editing")
  /\ IF actor[a].checked /\ profileFile # actor[a].seen
     THEN Rests(a) /\ Release(a)
     ELSE /\ \E next \in Edited(actor[a].edit) :
               actor' = [actor EXCEPT ![a].next = next,
                           ![a].post = IF next.inputs = profileFile.inputs
                                       THEN "replacing" ELSE "committing"]
          /\ UNCHANGED <<rootLock, stateLock, setupLock>>
  /\ UNCHANGED <<profileFile, providerState, exports, toolsFor, tokens, hitches>>

(* begin_unavailable: new inputs make the published environment unavailable *)
(* before the profile that declares them is published.                      *)
BeginUnavailable(a) ==
  /\ Works(a, "committing") /\ stateLock = "free"
  /\ FreshToken
  /\ stateLock' = a
  /\ providerState' = Unavailable(actor[a].next.inputs, tokens')
  /\ actor' = [actor EXCEPT ![a].previous = providerState, ![a].token = tokens',
                            ![a].post = "replacing"]
  /\ UNCHANGED <<profileFile, exports, toolsFor, rootLock, setupLock, hitches>>

(* commit_locked                                                            *)
PublishProfile(a) ==
  /\ Works(a, "replacing")
  /\ profileFile' = actor[a].next
  /\ Rests(a) /\ Release(a)
  /\ UNCHANGED <<providerState, exports, toolsFor, tokens, hitches>>

(* A replacement that fails may have removed what it was to replace.        *)
PublicationFails(a) ==
  /\ Works(a, "replacing") /\ Hitch
  /\ profileFile' \in {profileFile, NoProfile}
  /\ IF actor[a].token # 0
     THEN Moves(a, "restoring state") /\ UNCHANGED <<rootLock, stateLock, setupLock>>
     ELSE Rests(a) /\ Release(a)
  /\ UNCHANGED <<providerState, exports, toolsFor, tokens>>

(* rollback; the destructor tries once more.                                *)
RestorePrevious(a) ==
  /\ Works(a, "restoring state")
  /\ \/ providerState' = actor[a].previous /\ UNCHANGED hitches
     \/ Hitch /\ UNCHANGED providerState
  /\ Rests(a) /\ Release(a)
  /\ UNCHANGED <<profileFile, exports, toolsFor, tokens>>

-----------------------------------------------------------------------------
(* Setup.  The command starts with the revisions of the profile it was      *)
(* launched for, which may have changed since.                              *)

LaunchSetup(a) ==
  /\ Works(a, "resting") /\ profileFile # NoProfile
  /\ actor' = [actor EXCEPT ![a] = [Resting EXCEPT !.post = "queued", !.seen = profileFile]]
  /\ UNCHANGED <<profileFile, providerState, exports, toolsFor, rootLock, stateLock, setupLock,
                 tokens, hitches>>

TakeSetupLock(a) ==
  /\ Works(a, "queued") /\ setupLock = "free"
  /\ setupLock' = a
  /\ Moves(a, "starting")
  /\ UNCHANGED <<profileFile, providerState, exports, toolsFor, rootLock, stateLock, tokens, hitches>>

(* Mutant: Setup goes on with the profile it was launched for. *)
RequireNothing(a) ==
  /\ Works(a, "starting") /\ stateLock = "free"
  /\ stateLock' = a /\ Moves(a, "announcing")
  /\ UNCHANGED <<profileFile, providerState, exports, toolsFor, rootLock, setupLock, tokens, hitches>>

RequireCurrentProfile(a) ==
  /\ Works(a, "starting") /\ stateLock = "free"
  /\ IF profileFile = actor[a].seen
     THEN stateLock' = a /\ Moves(a, "announcing") /\ UNCHANGED <<rootLock, setupLock>>
     ELSE Rests(a) /\ Release(a)
  /\ UNCHANGED <<profileFile, providerState, exports, toolsFor, tokens, hitches>>

StartPublication(a) ==
  /\ Works(a, "announcing")
  /\ FreshToken
  /\ providerState' = Unavailable(actor[a].seen.inputs, tokens')
  /\ actor' = [actor EXCEPT ![a].token = tokens', ![a].post = "installing"]
  /\ stateLock' = "free"
  /\ UNCHANGED <<profileFile, exports, toolsFor, rootLock, setupLock, hitches>>

(* setup_archive_tool: a directory that is not what the declaration asks    *)
(* for is removed, or replaced by what is.                                  *)
SetupTool(a) ==
  /\ Works(a, "installing")
  /\ LET inputs == actor[a].seen.inputs
         unfit == {t \in Tools : toolsFor[t] # inputs} IN
     /\ unfit # {}
     /\ LET t == IF "bun" \in unfit THEN "bun" ELSE "pwsh" IN
        toolsFor' = [toolsFor EXCEPT ![t] = IF @ = "broken" THEN inputs ELSE "broken"]
  /\ UNCHANGED <<profileFile, providerState, exports, rootLock, stateLock, setupLock, actor,
                 tokens, hitches>>

(* run_native: everything is installed, the environment is published and    *)
(* then the state.                                                          *)
RunNative(a) ==
  /\ Works(a, "installing")
  /\ \A t \in Tools : toolsFor[t] = actor[a].seen.inputs
  /\ Moves(a, "writing cmd")
  /\ UNCHANGED <<profileFile, providerState, exports, toolsFor, rootLock, stateLock, setupLock,
                 tokens, hitches>>

(* EnvironmentScripts::publish                                              *)
PublishScripts(a) ==
  /\ \/ /\ Works(a, "writing cmd")
        /\ exports' = [exports EXCEPT !["cmd"] = actor[a].token]
        /\ Moves(a, "writing ps1")
     \/ /\ Works(a, "writing ps1")
        /\ exports' = [exports EXCEPT !["ps1"] = actor[a].token]
        /\ Moves(a, "completing")
  /\ UNCHANGED <<profileFile, providerState, toolsFor, rootLock, stateLock, setupLock, tokens, hitches>>

(* complete: only what this Setup announced becomes ready.                  *)
Complete(a) ==
  /\ Works(a, "completing") /\ stateLock = "free"
  /\ providerState' = IF providerState = Unavailable(actor[a].seen.inputs, actor[a].token)
                      THEN Ready(actor[a].seen.inputs, actor[a].token) ELSE providerState
  /\ Rests(a) /\ Release(a)
  /\ UNCHANGED <<profileFile, exports, toolsFor, tokens, hitches>>

-----------------------------------------------------------------------------
(* Consumers: resolve_entry_development.  The state is read before and      *)
(* after the installations.                                                 *)

BeginResolution(a) ==
  /\ Works(a, "resting") /\ profileFile # NoProfile
  /\ actor' = [actor EXCEPT ![a] = [Resting EXCEPT !.post = "resolving first",
                                    !.seen = [profileFile EXCEPT !.note = 0]]]
  /\ UNCHANGED <<profileFile, providerState, exports, toolsFor, rootLock, stateLock, setupLock,
                 tokens, hitches>>

ReadReady(a) ==
  /\ Works(a, "resolving first")
  /\ IF providerState.status = "ready" /\ providerState.inputs = actor[a].seen.inputs
     THEN actor' = [actor EXCEPT ![a].token = providerState.token, ![a].post = "resolving bun"]
     ELSE Rests(a)
  /\ UNCHANGED <<profileFile, providerState, exports, toolsFor, rootLock, stateLock, setupLock,
                 tokens, hitches>>

ResolveTool(a) ==
  /\ \E t \in Tools :
       /\ Works(a, IF t = "bun" THEN "resolving bun" ELSE "resolving pwsh")
       /\ IF toolsFor[t] = actor[a].seen.inputs
          THEN Moves(a, IF t = "bun" THEN "resolving pwsh" ELSE "resolving last")
          ELSE Rests(a)
  /\ UNCHANGED <<profileFile, providerState, exports, toolsFor, rootLock, stateLock, setupLock,
                 tokens, hitches>>

(* Mutant: the state is read once. *)
AcceptUnread(a) ==
  /\ Works(a, "resolving last") /\ Moves(a, "resolved")
  /\ UNCHANGED <<profileFile, providerState, exports, toolsFor, rootLock, stateLock, setupLock,
                 tokens, hitches>>

ReadReadyAgain(a) ==
  /\ Works(a, "resolving last")
  /\ IF providerState = Ready(actor[a].seen.inputs, actor[a].token)
     THEN Moves(a, "resolved")
     ELSE Rests(a)
  /\ UNCHANGED <<profileFile, providerState, exports, toolsFor, rootLock, stateLock, setupLock,
                 tokens, hitches>>

UseEnvironment(a) ==
  /\ Works(a, "resolved") /\ Rests(a)
  /\ UNCHANGED <<profileFile, providerState, exports, toolsFor, rootLock, stateLock, setupLock,
                 tokens, hitches>>

-----------------------------------------------------------------------------
(* A call fails, a wait for a lock times out or the process is killed:      *)
(* either way its files are closed and what it wrote stays.                 *)
Ceases(a) ==
  /\ actor[a].post \notin {"resting", "viewing", "resolved", "restoring state"}
  /\ Hitch
  /\ Rests(a) /\ Release(a)
  /\ UNCHANGED <<profileFile, providerState, exports, toolsFor, tokens>>

SetupStep(a) ==
  \/ ViewProfile(a) \/ LockProfile(a) \/ UpdateSetting(a) \/ BeginUnavailable(a)
  \/ PublishProfile(a) \/ PublicationFails(a) \/ RestorePrevious(a)
  \/ LaunchSetup(a) \/ TakeSetupLock(a) \/ RequireCurrentProfile(a) \/ StartPublication(a)
  \/ SetupTool(a) \/ RunNative(a) \/ PublishScripts(a) \/ Complete(a)
  \/ BeginResolution(a) \/ ReadReady(a) \/ ResolveTool(a) \/ ReadReadyAgain(a) \/ UseEnvironment(a)
  \/ Ceases(a)

SetupNext == \E a \in Actors : SetupStep(a)

SetupSpec == SetupInit /\ [][SetupNext]_setupVars

-----------------------------------------------------------------------------

(* A state that says ready was published for the inputs that the profile     *)
(* declares, and both scripts carry its token: whichever editor and Setup    *)
(* ran meanwhile, failed or were killed.                                     *)
ReadyIsForTheProfile ==
  providerState.status = "ready" =>
    /\ profileFile # NoProfile => profileFile.inputs = providerState.inputs
    /\ \A script \in DOMAIN exports : exports[script] = providerState.token

(* An environment that a consumer has resolved is one publication: when it   *)
(* accepts it, the tools that it read one after the other are all those of   *)
(* its inputs, and the state is ready.                                       *)
ResolvedAsPublished ==
  [][\A a \in Actors : Works(a, "resolving last") /\ actor'[a].post = "resolved" =>
       /\ providerState.status = "ready"
       /\ \A t \in Tools : toolsFor[t] = actor[a].seen.inputs]_setupVars

(* A change of one setting leaves the others as another editor has committed *)
(* them, and one that names a revision replaces nothing but that revision.   *)
NoEditIsLost ==
  [][\A a \in Actors :
       Works(a, "replacing") /\ actor'[a].post # "replacing" /\ profileFile' \notin {profileFile, NoProfile}
         => /\ profileFile # NoProfile =>
                 /\ actor[a].edit = "inputs" => profileFile'.note = profileFile.note
                 /\ actor[a].edit = "note"   => profileFile'.inputs = profileFile.inputs
            /\ actor[a].checked => profileFile = actor[a].seen]_setupVars
=============================================================================
