---------------------------- MODULE SetupProofs ----------------------------
(***************************************************************************)
(* Proofs about Setup: the properties of the Profile and of what is        *)
(* published hold for any set of processes, inputs, tokens and failures.   *)
(* The invariant says which process holds which lock, that a token is given *)
(* out once, that what an editor is about to publish was made of the file   *)
(* and what a Setup is about to publish is installed, and that a state that *)
(* says ready, or will again if an edit is taken back, is as published.     *)
(***************************************************************************)
EXTENDS Setup, TLAPS

-----------------------------------------------------------------------------
(* The invariant *)

(* Where a process holds the lock of the profile and where that of Setup; an *)
(* editor that has made the state unavailable holds the lock of the state.   *)
Editing      == {"editing", "committing", "replacing", "restoring state"}
Publishing   == {"installing", "writing cmd", "writing ps1", "completing"}
SettingUp    == {"starting", "announcing"} \cup Publishing
Announces(a) == actor[a].post \in {"replacing", "restoring state"} /\ actor[a].token # 0

AnyState == [status : {"unavailable", "ready"}, inputs : Inputs, token : Nat] \cup {NoState}
Processes == [post : Posts, seen : Profiles \cup {NoProfile}, edit : Edits, checked : BOOLEAN,
              next : Profiles \cup {NoProfile}, previous : AnyState, token : Nat]

SetupTyped ==
  /\ profileFile \in Profiles \cup {NoProfile}
  /\ providerState \in AnyState
  /\ exports \in [{"cmd", "ps1"} -> Nat]
  /\ toolsFor \in [Tools -> Inputs \cup {"broken"}]
  /\ actor \in [Actors -> Processes]
  /\ tokens \in Nat

(* Each lock is held where the code holds it, and nowhere else.              *)
Locked(a) ==
  /\ actor[a].post \in Editing <=> rootLock = a
  /\ actor[a].post = "announcing" \/ Announces(a) <=> stateLock = a
  /\ actor[a].post \in SettingUp <=> setupLock = a

(* A token is given out once: to an editor that announces an edit, or to a   *)
(* Setup that publishes.                                                     *)
Numbered ==
  /\ providerState.token <= tokens
  /\ \A a \in Actors :
       /\ actor[a].token <= tokens /\ actor[a].previous.token <= tokens
       /\ actor[a].post \in Publishing => actor[a].token # 0
  /\ \A a, b \in Actors : actor[a].post \in Publishing /\ Announces(b) => actor[a].token # actor[b].token

(* What an editor is about to publish was made of what the file holds.       *)
EditFits(a) ==
  /\ actor[a].post \in {"committing", "replacing"} =>
       /\ actor[a].next \in Profiles
       /\ profileFile # NoProfile =>
            /\ actor[a].edit = "inputs" => actor[a].next.note = profileFile.note
            /\ actor[a].edit = "note"   => actor[a].next.inputs = profileFile.inputs
       /\ actor[a].checked => profileFile = actor[a].seen
  /\ actor[a].post = "replacing" /\ actor[a].token = 0 => actor[a].next.inputs = profileFile.inputs
  /\ actor[a].post \in {"viewing", "editing", "committing"} => actor[a].token = 0
  /\ actor[a].post = "restoring state" => actor[a].token # 0
  /\ Announces(a) => providerState = Unavailable(actor[a].next.inputs, actor[a].token)

Fits(inputs) == profileFile # NoProfile => profileFile.inputs = inputs

(* What a Setup is about to publish is installed and written.                *)
SetupFits(a) ==
  /\ actor[a].post \in {"queued"} \cup SettingUp => actor[a].seen \in Profiles
  /\ actor[a].post = "announcing" => Fits(actor[a].seen.inputs)
  /\ actor[a].post \in {"writing cmd", "writing ps1", "completing"} =>
       \A t \in Tools : toolsFor[t] = actor[a].seen.inputs
  /\ actor[a].post \in {"writing ps1", "completing"} => exports["cmd"] = actor[a].token
  /\ actor[a].post = "completing" => exports["ps1"] = actor[a].token

(* A state that says ready is what the profile declares, installed and       *)
(* written; one that a Setup has announced is for the profile it has seen.   *)
Published(state) ==
  /\ state.status = "ready" =>
       /\ Fits(state.inputs)
       /\ \A script \in {"cmd", "ps1"} : exports[script] = state.token
       /\ \A t \in Tools : toolsFor[t] = state.inputs
       /\ \A a \in Actors : actor[a].post \notin Publishing
  /\ \A a \in Actors : actor[a].post \in Publishing /\ state.token = actor[a].token =>
       Fits(actor[a].seen.inputs)

OwnInv(a) == Locked(a) /\ EditFits(a) /\ SetupFits(a)

SetupInv ==
  /\ SetupTyped /\ Numbered
  /\ Published(providerState) /\ \A a \in Actors : Announces(a) => Published(actor[a].previous)
  /\ \A a \in Actors : OwnInv(a)
-----------------------------------------------------------------------------
(* What a step of one process does to the others *)

(* A step of a changes nothing that another process relies on: it takes only *)
(* a free lock and gives up only its own, and it writes a file only under    *)
(* the lock, or in the stage, that excludes the others.                      *)
StepOf(a) ==
  /\ actor' \in [Actors -> Processes] /\ \A b \in Actors \ {a} : actor'[b] = actor[b]
  /\ rootLock' = rootLock \/ (rootLock \in {a, "free"} /\ rootLock' \in {a, "free"})
  /\ stateLock' = stateLock \/ (stateLock \in {a, "free"} /\ stateLock' \in {a, "free"})
  /\ setupLock' = setupLock \/ (setupLock \in {a, "free"} /\ setupLock' \in {a, "free"})
  /\ profileFile' = profileFile \/ rootLock = a
  /\ providerState' = providerState \/ stateLock \in {a, "free"}
  /\ (exports' = exports /\ toolsFor' = toolsFor) \/ actor[a].post \in Publishing

(* The files have their types, and no token is given out.                    *)
FilesTyped ==
  /\ profileFile' \in Profiles \cup {NoProfile} /\ providerState' \in AnyState
  /\ exports' \in [{"cmd", "ps1"} -> Nat] /\ toolsFor' \in [Tools -> Inputs \cup {"broken"}]
  /\ tokens' = tokens /\ providerState'.token <= tokens

(* The profile declares what it declared, or there is none any more.         *)
SameInputs == profileFile' # NoProfile => profileFile # NoProfile /\ profileFile'.inputs = profileFile.inputs

(* A step of a neither announces an edit nor begins a publication.           *)
KeepsRoleOf(a) ==
  actor'[a].post \in Publishing =>
    actor[a].post \in Publishing /\ actor'[a].token = actor[a].token /\ actor'[a].seen = actor[a].seen

KeepsRole(a) ==
  /\ KeepsRoleOf(a)
  /\ Announces(a)' =>
       Announces(a) /\ actor'[a].token = actor[a].token /\ actor'[a].previous = actor[a].previous
  /\ actor'[a].token <= tokens /\ actor'[a].previous.token <= tokens

(* What fits the profile fits one that declares the same inputs.             *)
LEMMA SameFits == ASSUME SameInputs, NEW inputs, Fits(inputs) PROVE profileFile' # NoProfile => profileFile'.inputs = inputs
BY DEF SameInputs, Fits

(* Two processes do not hold one lock.                                       *)
LEMMA Excluded ==
  ASSUME SetupInv, NEW a \in Actors, NEW b \in Actors \ {a}
  PROVE  /\ a # b /\ a # "free" /\ b # "free" /\ Locked(a) /\ Locked(b)
         /\ ~(actor[a].post \in Editing /\ actor[b].post \in Editing)
         /\ ~(actor[a].post \in SettingUp /\ actor[b].post \in SettingUp)
         /\ ~((actor[a].post = "announcing" \/ Announces(a)) /\ (actor[b].post = "announcing" \/ Announces(b)))
<1>1. Locked(a) /\ Locked(b) /\ a # "free" /\ b # "free"
  BY ActorAssumption DEF SetupInv, OwnInv
<1> QED
  BY <1>1 DEF Locked

(* What the other processes rely on stays.                                   *)
LEMMA OthersKept ==
  ASSUME SetupInv, NEW a \in Actors, StepOf(a), SameInputs \/ stateLock = a, NEW b \in Actors \ {a}
  PROVE  OwnInv(b)'
<1>1. /\ Locked(a) /\ Locked(b) /\ a # "free" /\ b # "free" /\ EditFits(b) /\ SetupFits(b)
      /\ ~(actor[a].post \in SettingUp /\ actor[b].post \in SettingUp)
  BY Excluded DEF SetupInv, OwnInv
<1>2. actor'[b] = actor[b]
  BY DEF StepOf
<1>3. Announces(b)' <=> Announces(b)
  BY <1>2 DEF Announces
<1>4. Locked(b)'
  BY <1>1, <1>2, <1>3 DEF Locked, StepOf
<1>5. actor[b].post \in Editing => profileFile' = profileFile
  BY <1>1 DEF Locked, StepOf
<1>6. actor[b].post = "announcing" \/ Announces(b) => stateLock = b /\ providerState' = providerState /\ SameInputs
  BY <1>1 DEF Locked, StepOf
<1>7. EditFits(b)'
  BY <1>1, <1>2, <1>3, <1>5, <1>6 DEF EditFits, Editing
<1>8. actor[b].post \in SettingUp => exports' = exports /\ toolsFor' = toolsFor
  BY <1>1 DEF StepOf, SettingUp
<1>9. actor[b].post = "announcing" => Fits(actor[b].seen.inputs)'
  BY <1>1, <1>2, <1>6, SameFits DEF SetupFits, Fits
<1>10. SetupFits(b)'
  BY <1>1, <1>2, <1>8, <1>9 DEF SetupFits, SettingUp, Publishing
<1> QED
  BY <1>4, <1>7, <1>10 DEF OwnInv

(* So does what holds of a state, as long as the profile declares the same.  *)
LEMMA StandKept ==
  ASSUME SetupInv, NEW a \in Actors, StepOf(a), SameInputs, KeepsRoleOf(a), NEW state, Published(state),
         NEW next, next = state
  PROVE  /\ next.status = "ready" =>
              /\ profileFile' # NoProfile => profileFile'.inputs = next.inputs
              /\ \A script \in {"cmd", "ps1"} : exports'[script] = next.token
              /\ \A t \in Tools : toolsFor'[t] = next.inputs
              /\ \A b \in Actors : actor'[b].post \notin Publishing
         /\ \A b \in Actors : actor'[b].post \in Publishing /\ next.token = actor'[b].token =>
              (profileFile' # NoProfile => profileFile'.inputs = actor'[b].seen.inputs)
<1>1. \A b \in Actors : actor'[b].post \in Publishing =>
        actor[b].post \in Publishing /\ actor'[b].token = actor[b].token /\ actor'[b].seen = actor[b].seen
  BY DEF StepOf, KeepsRoleOf
<1>2. CASE state.status = "ready"
  <2>1. /\ Fits(state.inputs) /\ exports' = exports /\ toolsFor' = toolsFor
        /\ \A b \in Actors : actor[b].post \notin Publishing
    BY <1>2 DEF Published, StepOf
  <2> QED
    BY <1>1, <1>2, <2>1, SameFits DEF Published
<1>3. CASE state.status # "ready"
  <2>1. ASSUME NEW b \in Actors, actor'[b].post \in Publishing, state.token = actor'[b].token,
               profileFile' # NoProfile
        PROVE  profileFile'.inputs = actor'[b].seen.inputs
    <3>1. Fits(actor[b].seen.inputs) /\ actor'[b].seen = actor[b].seen
      BY <1>1, <2>1 DEF Published
    <3> QED
      BY <2>1, <3>1, SameFits
  <2> QED
    BY <1>3, <2>1
<1> QED
  BY <1>2, <1>3

(* The state that is left alone stands.                                      *)
LEMMA StateKept ==
  ASSUME SetupInv, NEW a \in Actors, StepOf(a), SameInputs, KeepsRole(a), UNCHANGED providerState
  PROVE  Published(providerState)'
<1>1. Published(providerState)
  BY DEF SetupInv
<1> QED
  BY <1>1, StandKept DEF Published, Fits, KeepsRole

(* A step that gives out no token keeps the invariant if it leaves its own   *)
(* process and the state as they have to be.                                 *)
LEMMA StepKept ==
  ASSUME SetupInv, NEW a \in Actors, StepOf(a), FilesTyped, KeepsRole(a),
         SameInputs \/ (stateLock = a /\ ~Announces(a)'), OwnInv(a)', Published(providerState)'
  PROVE  SetupInv'
<1>1. SetupTyped'
  BY DEF SetupInv, SetupTyped, StepOf, FilesTyped
<1>2. \A b \in Actors : OwnInv(b)'
  BY OthersKept
<1>3. Numbered'
  <2>1. \A b \in Actors : /\ actor'[b].token <= tokens /\ actor'[b].previous.token <= tokens
                          /\ actor'[b].post \in Publishing => actor[b].post \in Publishing
                          /\ Announces(b)' => Announces(b)
                          /\ actor'[b].post \in Publishing \/ Announces(b)' => actor'[b].token = actor[b].token
    BY DEF SetupInv, Numbered, StepOf, KeepsRole, KeepsRoleOf, Announces
  <2> QED
    BY <2>1 DEF SetupInv, Numbered, FilesTyped
<1>4. ASSUME NEW b \in Actors, Announces(b)' PROVE Published(actor[b].previous)'
  <2>1. Announces(b) /\ actor'[b].previous = actor[b].previous
    BY <1>4 DEF StepOf, KeepsRole, KeepsRoleOf, Announces
  <2>2. SameInputs
    <3>1. CASE b = a
      BY <1>4, <3>1
    <3>2. CASE b # a
      BY <2>1, <3>2, Excluded DEF Locked
    <3> QED
      BY <3>1, <3>2
  <2>3. Published(actor[b].previous)
    BY <2>1 DEF SetupInv
  <2> QED
    BY <2>1, <2>2, <2>3, StandKept DEF Published, Fits, KeepsRole
<1> QED
  BY <1>1, <1>2, <1>3, <1>4 DEF SetupInv

-----------------------------------------------------------------------------
(* The steps *)

(* A process that goes on to another post keeps everything else.             *)
LEMMA Moved ==
  ASSUME actor \in [Actors -> Processes], NEW a \in Actors, NEW post \in Posts, Moves(a, post)
  PROVE  /\ actor' \in [Actors -> Processes] /\ \A b \in Actors \ {a} : actor'[b] = actor[b]
         /\ actor'[a].post = post /\ actor'[a].seen = actor[a].seen /\ actor'[a].edit = actor[a].edit
         /\ actor'[a].checked = actor[a].checked /\ actor'[a].next = actor[a].next
         /\ actor'[a].previous = actor[a].previous /\ actor'[a].token = actor[a].token
BY DEF Processes, Moves

(* A process that rests knows nothing.                                       *)
LEMMA RestingTyped ==
  /\ Resting \in Processes /\ Resting.post = "resting" /\ Resting.token = 0 /\ Resting.previous.token = 0
  /\ "resting" \notin Editing /\ "resting" \notin SettingUp /\ "resting" \notin Publishing
BY DEF Resting, Processes, Posts, Edits, NoState, AnyState, Editing, SettingUp, Publishing

(* What rests and closes its files relies on nothing, and the others may     *)
(* rely on what they did.                                                    *)
LEMMA Released ==
  ASSUME SetupInv, NEW a \in Actors, Rests(a), Release(a),
         profileFile' = profileFile \/ rootLock = a,
         providerState' = providerState \/ stateLock \in {a, "free"}, UNCHANGED <<exports, toolsFor>>
  PROVE  StepOf(a) /\ KeepsRole(a) /\ OwnInv(a)' /\ ~Announces(a)' /\ actor'[a] = Resting
<1>1. actor \in [Actors -> Processes] /\ tokens \in Nat
  BY DEF SetupInv, SetupTyped
<1>2. /\ actor' \in [Actors -> Processes] /\ \A b \in Actors \ {a} : actor'[b] = actor[b]
      /\ actor'[a] = Resting
  BY <1>1, RestingTyped DEF Rests
<1>3. a # "free"
  BY ActorAssumption
<1>4. StepOf(a)
  BY <1>2, <1>3 DEF StepOf, Release, Without
<1>5. 0 <= tokens
  BY <1>1
<1>6. KeepsRole(a) /\ ~Announces(a)'
  BY <1>2, <1>5, RestingTyped DEF KeepsRole, KeepsRoleOf, Announces
<1>7. rootLock' # a /\ stateLock' # a /\ setupLock' # a
  BY <1>3 DEF Release, Without
<1>8. OwnInv(a)'
  BY <1>2, <1>7, RestingTyped DEF OwnInv, Locked, EditFits, SetupFits, Announces, Editing, SettingUp, Publishing
<1> QED
  BY <1>2, <1>4, <1>6, <1>8

(* A process that holds no lock goes on without one.                         *)
LEMMA AsideKept ==
  ASSUME SetupInv, NEW a \in Actors, NEW p \in Processes, actor' = [actor EXCEPT ![a] = p],
         actor[a].post \notin Editing \cup SettingUp, p.post \notin Editing \cup SettingUp,
         p.post = "queued" => p.seen \in Profiles, p.post = "viewing" => p.token = 0,
         p.token <= tokens, p.previous.token <= tokens,
         UNCHANGED <<profileFile, providerState, exports, toolsFor, rootLock, stateLock, setupLock, tokens>>
  PROVE  SetupInv'
<1>1. actor \in [Actors -> Processes]
  BY DEF SetupInv, SetupTyped
<1>2. /\ actor' \in [Actors -> Processes] /\ \A b \in Actors \ {a} : actor'[b] = actor[b] /\ actor'[a] = p
  BY <1>1
<1>3. StepOf(a) /\ SameInputs
  BY <1>1, <1>2 DEF StepOf, SameInputs
<1>4. KeepsRole(a)
  BY <1>1, <1>2 DEF KeepsRole, KeepsRoleOf, Announces, Editing, SettingUp
<1>5. Locked(a) /\ actor[a].post # "announcing" /\ ~Announces(a)
  BY DEF SetupInv, OwnInv, Announces, SettingUp, Editing
<1>6. OwnInv(a)'
  BY <1>1, <1>2, <1>5 DEF OwnInv, Locked, EditFits, SetupFits, Announces, Editing, SettingUp, Publishing
<1>7. FilesTyped
  BY DEF FilesTyped, SetupInv, SetupTyped, Numbered
<1>8. Published(providerState)'
  BY <1>3, <1>4, StateKept
<1> QED
  BY <1>3, <1>4, <1>6, <1>7, <1>8, StepKept

(* The processes that hold no lock: who looks at the profile, who asks for   *)
(* Setup, who resolves an environment.                                       *)
LEMMA AsideSteps ==
  ASSUME SetupInv, NEW a \in Actors,
         \/ ViewProfile(a) \/ LaunchSetup(a) \/ BeginResolution(a) \/ ReadReady(a)
         \/ ResolveTool(a) \/ ReadReadyAgain(a) \/ UseEnvironment(a)
  PROVE  SetupInv'
<1>1. /\ actor[a] \in Processes /\ profileFile \in Profiles \cup {NoProfile} /\ tokens \in Nat
      /\ providerState \in AnyState /\ providerState.token <= tokens
      /\ actor[a].token <= tokens /\ actor[a].previous.token <= tokens
  BY DEF SetupInv, SetupTyped, Numbered
<1>2. /\ Resting \in Processes /\ Resting.token <= tokens /\ Resting.previous.token <= tokens
      /\ Resting.post \notin Editing \cup SettingUp /\ Resting.post \notin {"queued", "viewing"}
      /\ Resting.token = 0
  <2>1. 0 <= tokens
    BY <1>1
  <2> QED
    BY <2>1, RestingTyped DEF Resting
<1>3. \E p \in Processes :
        /\ actor' = [actor EXCEPT ![a] = p]
        /\ p.post \notin Editing \cup SettingUp
        /\ p.post = "queued" => p.seen \in Profiles
        /\ p.post = "viewing" => p.token = 0
        /\ p.token <= tokens /\ p.previous.token <= tokens
  <2>1. CASE ViewProfile(a)
    <3>1. PICK edit \in Edits, checked \in BOOLEAN, seen \in Profiles \cup {NoProfile} :
            actor' = [actor EXCEPT ![a] =
              [Resting EXCEPT !.post = "viewing", !.edit = edit, !.checked = checked, !.seen = seen]]
      <4>1. PICK edit \in {"inputs", "note", "replace"}, checked \in BOOLEAN :
              actor' = [actor EXCEPT ![a] =
                [Resting EXCEPT !.post = "viewing", !.edit = edit, !.checked = checked,
                                !.seen = IF checked THEN profileFile ELSE NoProfile]]
        BY <2>1 DEF ViewProfile
      <4>2. edit \in Edits /\ (IF checked THEN profileFile ELSE NoProfile) \in Profiles \cup {NoProfile}
        BY <1>1 DEF Edits
      <4> QED
        BY <4>1, <4>2
    <3> DEFINE p == [Resting EXCEPT !.post = "viewing", !.edit = edit, !.checked = checked, !.seen = seen]
    <3>2. p.post = "viewing" /\ p.token = Resting.token /\ p.previous = Resting.previous
      BY DEF Resting
    <3>3. p \in Processes
      BY <1>2, <3>1 DEF Processes, Posts
    <3> HIDE DEF p
    <3> QED
      BY <1>2, <3>1, <3>2, <3>3 DEF p, Editing, SettingUp, Publishing
  <2>2. CASE LaunchSetup(a) \/ BeginResolution(a)
    <3>1. PICK post \in {"queued", "resolving first"}, seen \in Profiles :
            actor' = [actor EXCEPT ![a] = [Resting EXCEPT !.post = post, !.seen = seen]]
      <4>1. profileFile # NoProfile
        BY <2>2 DEF LaunchSetup, BeginResolution
      <4>2. profileFile \in Profiles /\ [profileFile EXCEPT !.note = 0] \in Profiles
        BY <1>1, <4>1 DEF Profiles
      <4> QED
        BY <2>2, <4>2 DEF LaunchSetup, BeginResolution
    <3> DEFINE p == [Resting EXCEPT !.post = post, !.seen = seen]
    <3>2. /\ p \in Processes /\ p.post = post /\ p.token = Resting.token /\ p.seen = seen
          /\ p.previous = Resting.previous
      BY <1>1, <1>2 DEF Processes, Posts
    <3> HIDE DEF p
    <3> QED
      BY <1>2, <3>1, <3>2 DEF p, Editing, SettingUp, Publishing
  <2>3. CASE ReadReady(a)
    <3>1. CASE Rests(a)
      BY <1>2, <3>1 DEF Rests
    <3>2. CASE actor' = [actor EXCEPT ![a].token = providerState.token, ![a].post = "resolving bun"]
      <4> DEFINE p == [actor[a] EXCEPT !.token = providerState.token, !.post = "resolving bun"]
      <4>1. providerState.token \in Nat
        BY <1>1 DEF AnyState, NoState
      <4>2. /\ p \in Processes /\ p.post = "resolving bun" /\ p.token = providerState.token
            /\ p.previous = actor[a].previous
        BY <1>1, <4>1 DEF Processes, Posts
      <4>3. actor' = [actor EXCEPT ![a] = p]
        BY <3>2 DEF SetupInv, SetupTyped
      <4> HIDE DEF p
      <4> QED
        BY <1>1, <4>2, <4>3 DEF Editing, SettingUp, Publishing
    <3> QED
      BY <2>3, <3>1, <3>2 DEF ReadReady
  <2>4. CASE ResolveTool(a) \/ ReadReadyAgain(a) \/ UseEnvironment(a)
    <3>1. Rests(a) \/ \E post \in {"resolving pwsh", "resolving last", "resolved"} : Moves(a, post)
      BY <2>4 DEF ResolveTool, ReadReadyAgain, UseEnvironment
    <3>2. CASE Rests(a)
      BY <1>2, <3>2 DEF Rests
    <3>3. ASSUME NEW post \in {"resolving pwsh", "resolving last", "resolved"}, Moves(a, post)
          PROVE  \E p \in Processes :
                   /\ actor' = [actor EXCEPT ![a] = p]
                   /\ p.post \notin Editing \cup SettingUp
                   /\ p.post = "queued" => p.seen \in Profiles
                   /\ p.post = "viewing" => p.token = 0
                   /\ p.token <= tokens /\ p.previous.token <= tokens
      <4> DEFINE p == [actor[a] EXCEPT !.post = post]
      <4>1. p \in Processes /\ p.post = post /\ p.token = actor[a].token /\ p.previous = actor[a].previous
        BY <1>1, <3>3 DEF Processes, Posts
      <4>2. actor' = [actor EXCEPT ![a] = p]
        BY <3>3 DEF SetupInv, SetupTyped, Moves
      <4> HIDE DEF p
      <4> QED
        BY <1>1, <3>3, <4>1, <4>2 DEF Editing, SettingUp, Publishing
    <3> QED
      BY <3>1, <3>2, <3>3
  <2> QED
    BY <2>1, <2>2, <2>3, <2>4
<1>4. actor[a].post \notin Editing \cup SettingUp
  BY DEF ViewProfile, LaunchSetup, BeginResolution, ReadReady, ResolveTool, ReadReadyAgain, UseEnvironment,
         Works, Editing, SettingUp, Publishing
<1>5. UNCHANGED <<profileFile, providerState, exports, toolsFor, rootLock, stateLock, setupLock, tokens>>
  BY DEF ViewProfile, LaunchSetup, BeginResolution, ReadReady, ResolveTool, ReadReadyAgain, UseEnvironment
<1> QED
  BY <1>3, <1>4, <1>5, AsideKept

(* A process that ends its turn with the files as they are.                  *)
LEMMA EndsKept ==
  ASSUME SetupInv, NEW a \in Actors, Rests(a), Release(a),
         UNCHANGED <<profileFile, providerState, exports, toolsFor, tokens>>
  PROVE  SetupInv'
<1>1. StepOf(a) /\ KeepsRole(a) /\ OwnInv(a)'
  BY Released
<1>2. SameInputs /\ FilesTyped
  BY DEF SameInputs, FilesTyped, SetupInv, SetupTyped, Numbered
<1> QED
  BY <1>1, <1>2, StateKept, StepKept

(* LockProfile, TakeSetupLock, RequireCurrentProfile                         *)
LEMMA LockKept ==
  ASSUME SetupInv, NEW a \in Actors, LockProfile(a) \/ TakeSetupLock(a) \/ RequireCurrentProfile(a)
  PROVE  SetupInv'
<1>1. CASE Rests(a) /\ Release(a)
  BY <1>1, EndsKept DEF LockProfile, TakeSetupLock, RequireCurrentProfile
<1>2. ASSUME NEW post \in {"editing", "starting", "announcing"}, Moves(a, post),
             /\ post = "editing"  => /\ actor[a].post = "viewing" /\ rootLock = "free" /\ rootLock' = a
                                     /\ UNCHANGED <<stateLock, setupLock>>
             /\ post = "starting" => /\ actor[a].post = "queued" /\ setupLock = "free" /\ setupLock' = a
                                     /\ UNCHANGED <<rootLock, stateLock>>
             /\ post = "announcing" => /\ actor[a].post = "starting" /\ stateLock = "free" /\ stateLock' = a
                                       /\ profileFile = actor[a].seen /\ UNCHANGED <<rootLock, setupLock>>
      PROVE  SetupInv'
  <2>1. /\ UNCHANGED <<profileFile, providerState, exports, toolsFor, tokens>>
        /\ actor \in [Actors -> Processes]
    BY DEF LockProfile, TakeSetupLock, RequireCurrentProfile, SetupInv, SetupTyped
  <2>2. /\ actor' \in [Actors -> Processes] /\ \A b \in Actors \ {a} : actor'[b] = actor[b]
        /\ actor'[a].post = post /\ actor'[a].seen = actor[a].seen
        /\ actor'[a].previous = actor[a].previous /\ actor'[a].token = actor[a].token
    BY <1>2, <2>1, Moved DEF Posts
  <2>3. StepOf(a) /\ SameInputs /\ FilesTyped
    BY <1>2, <2>1, <2>2 DEF StepOf, SameInputs, FilesTyped, SetupInv, SetupTyped, Numbered
  <2>4. KeepsRole(a) /\ ~Announces(a)' /\ ~Announces(a)
    BY <1>2, <2>2 DEF KeepsRole, KeepsRoleOf, Announces, Publishing, SetupInv, Numbered
  <2>5. OwnInv(a) /\ a # "free"
    BY ActorAssumption DEF SetupInv
  <2>6. Locked(a)'
    BY <1>2, <2>2, <2>4, <2>5 DEF OwnInv, Locked, Editing, SettingUp, Publishing
  <2>7. EditFits(a)' /\ SetupFits(a)'
    BY <1>2, <2>1, <2>2, <2>4, <2>5 DEF OwnInv, EditFits, SetupFits, Fits, SettingUp, Publishing
  <2> QED
    BY <2>1, <2>3, <2>4, <2>6, <2>7, StateKept, StepKept DEF OwnInv
<1>3. \/ Rests(a) /\ Release(a)
      \/ /\ Moves(a, "editing") /\ actor[a].post = "viewing" /\ rootLock = "free" /\ rootLock' = a
         /\ UNCHANGED <<stateLock, setupLock>>
      \/ /\ Moves(a, "starting") /\ actor[a].post = "queued" /\ setupLock = "free" /\ setupLock' = a
         /\ UNCHANGED <<rootLock, stateLock>>
      \/ /\ Moves(a, "announcing") /\ actor[a].post = "starting" /\ stateLock = "free" /\ stateLock' = a
         /\ profileFile = actor[a].seen /\ UNCHANGED <<rootLock, setupLock>>
  BY DEF LockProfile, TakeSetupLock, RequireCurrentProfile, Works
<1> QED
  BY <1>1, <1>2, <1>3

(* What an edit makes is a profile, and keeps what the edit is not about.    *)
LEMMA EditedFits ==
  ASSUME profileFile \in Profiles \cup {NoProfile}, NEW kind \in Edits, NEW next \in Edited(kind)
  PROVE  /\ next \in Profiles /\ next.inputs \in Inputs
         /\ profileFile # NoProfile => /\ kind = "inputs" => next.note = profileFile.note
                                       /\ kind = "note"   => next.inputs = profileFile.inputs
<1>1. Current \subseteq Profiles /\ (profileFile # NoProfile => Current = {profileFile})
  BY DEF Current, Profiles
<1>2. CASE kind = "inputs"
  <2>1. next \in [inputs : Inputs \ {profileFile.inputs}, note : {old.note : old \in Current}]
    BY <1>2 DEF Edited
  <2>2. {old.note : old \in Current} \subseteq {0, 1}
    BY <1>1 DEF Profiles
  <2> QED
    BY <1>1, <1>2, <2>1, <2>2 DEF Profiles
<1>3. CASE kind = "note"
  <2>1. PICK old \in Current : next = [old EXCEPT !.note = 1 - old.note]
    BY <1>3 DEF Edited
  <2>2. old \in Profiles /\ (profileFile # NoProfile => old = profileFile)
    BY <1>1
  <2>3. 1 - old.note \in {0, 1}
    BY <2>2 DEF Profiles
  <2> QED
    BY <1>3, <2>1, <2>2, <2>3 DEF Profiles
<1>4. CASE kind \notin {"inputs", "note"}
  BY <1>4 DEF Edited, Profiles
<1> QED
  BY <1>2, <1>3, <1>4

(* UpdateSetting: what is kept is made of the file under its lock.           *)
LEMMA UpdateKept == ASSUME SetupInv, NEW a \in Actors, UpdateSetting(a) PROVE SetupInv'
<1>1. /\ actor[a].post = "editing" /\ actor[a] \in Processes /\ actor \in [Actors -> Processes]
      /\ profileFile \in Profiles \cup {NoProfile}
      /\ UNCHANGED <<profileFile, providerState, exports, toolsFor, tokens>>
  BY DEF UpdateSetting, Works, SetupInv, SetupTyped
<1>2. CASE Rests(a) /\ Release(a)
  BY <1>1, <1>2, EndsKept
<1>3. ASSUME ~(actor[a].checked /\ profileFile # actor[a].seen), NEW next \in Edited(actor[a].edit),
             actor' = [actor EXCEPT ![a].next = next,
                         ![a].post = IF next.inputs = profileFile.inputs THEN "replacing" ELSE "committing"],
             UNCHANGED <<rootLock, stateLock, setupLock>>
      PROVE  SetupInv'
  <2>1. /\ next \in Profiles
        /\ profileFile # NoProfile => /\ actor[a].edit = "inputs" => next.note = profileFile.note
                                      /\ actor[a].edit = "note"   => next.inputs = profileFile.inputs
    <3>1. actor[a].edit \in Edits
      BY <1>1 DEF Processes
    <3> QED
      BY <1>1, <1>3, <3>1, EditedFits
  <2>2. PICK post \in {"replacing", "committing"} :
          /\ actor' = [actor EXCEPT ![a].next = next, ![a].post = post]
          /\ post = "replacing" => next.inputs = profileFile.inputs
    BY <1>3
  <2>3. /\ actor' \in [Actors -> Processes] /\ \A b \in Actors \ {a} : actor'[b] = actor[b]
        /\ actor'[a].post = post /\ actor'[a].next = next
        /\ actor'[a].seen = actor[a].seen /\ actor'[a].edit = actor[a].edit
        /\ actor'[a].checked = actor[a].checked
        /\ actor'[a].previous = actor[a].previous /\ actor'[a].token = actor[a].token
    BY <1>1, <2>1, <2>2 DEF Processes, Posts
  <2>4. OwnInv(a) /\ actor[a].token = 0 /\ actor[a].token <= tokens /\ actor[a].previous.token <= tokens
    BY <1>1 DEF SetupInv, OwnInv, EditFits, Numbered
  <2>5. StepOf(a) /\ SameInputs /\ FilesTyped
    BY <1>1, <1>3, <2>3 DEF StepOf, SameInputs, FilesTyped, SetupInv, SetupTyped, Numbered
  <2>6. KeepsRole(a) /\ ~Announces(a)' /\ ~Announces(a)
    BY <2>3, <2>4 DEF KeepsRole, KeepsRoleOf, Announces, Publishing
  <2>7. Locked(a)'
    BY <1>1, <1>3, <2>3, <2>4, <2>6 DEF OwnInv, Locked, Editing, SettingUp, Publishing
  <2>8. EditFits(a)'
    BY <1>1, <1>3, <2>1, <2>2, <2>3, <2>4, <2>6 DEF EditFits
  <2>9. SetupFits(a)'
    BY <2>3 DEF SetupFits, SettingUp, Publishing
  <2> QED
    BY <1>1, <2>5, <2>6, <2>7, <2>8, <2>9, StateKept, StepKept DEF OwnInv
<1> QED
  BY <1>2, <1>3 DEF UpdateSetting

(* BeginUnavailable: the token is one that nobody has.                       *)
LEMMA BeginKept == ASSUME SetupInv, NEW a \in Actors, BeginUnavailable(a) PROVE SetupInv'
<1>1. /\ actor[a].post = "committing" /\ actor[a] \in Processes /\ actor \in [Actors -> Processes]
      /\ stateLock = "free" /\ stateLock' = a /\ tokens \in Nat /\ tokens' = tokens + 1
      /\ providerState \in AnyState /\ providerState.token <= tokens
      /\ providerState' = Unavailable(actor[a].next.inputs, tokens')
      /\ UNCHANGED <<profileFile, exports, toolsFor, rootLock, setupLock>>
  BY DEF BeginUnavailable, FreshToken, Works, SetupInv, SetupTyped, Numbered
<1>2. /\ OwnInv(a) /\ a # "free" /\ actor[a].next \in Profiles /\ Published(providerState)
      /\ \A b \in Actors : actor[b].token <= tokens /\ actor[b].previous.token <= tokens
  BY <1>1, ActorAssumption DEF SetupInv, OwnInv, EditFits, Numbered
<1>3. tokens' \in Nat /\ tokens' # 0 /\ (\A t : t <= tokens /\ t \in Nat => t <= tokens' /\ t # tokens') /\ tokens' <= tokens'
  BY <1>1
<1>4. /\ actor' \in [Actors -> Processes] /\ \A b \in Actors \ {a} : actor'[b] = actor[b]
      /\ actor'[a].post = "replacing" /\ actor'[a].next = actor[a].next
      /\ actor'[a].seen = actor[a].seen /\ actor'[a].edit = actor[a].edit
      /\ actor'[a].checked = actor[a].checked
      /\ actor'[a].previous = providerState /\ actor'[a].token = tokens'
  BY <1>1, <1>3 DEF BeginUnavailable, Processes, Posts
<1>5. /\ providerState' \in AnyState /\ providerState'.token = tokens' /\ providerState'.status # "ready"
  BY <1>1, <1>2, <1>3 DEF AnyState, Unavailable, Profiles
<1>6. SetupTyped'
  BY <1>1, <1>3, <1>4, <1>5 DEF SetupInv, SetupTyped
<1>7. StepOf(a) /\ SameInputs
  BY <1>1, <1>4 DEF StepOf, SameInputs
<1>8. /\ \A b \in Actors : actor'[b].post \in Publishing => actor[b].post \in Publishing /\ b # a
      /\ \A b \in Actors : Announces(b)' => b = a
  <2>1. ASSUME NEW b \in Actors \ {a} PROVE ~Announces(b)'
    <3>1. Locked(b) /\ b # "free"
      BY Excluded
    <3>2. ~Announces(b)
      BY <1>1, <3>1 DEF Locked
    <3> QED
      BY <1>4, <3>2 DEF Announces
  <2> QED
    BY <1>4, <2>1 DEF Publishing
<1>9. /\ \A b \in Actors \ {a} : actor'[b].token \in Nat /\ actor'[b].token <= tokens
      /\ \A b \in Actors \ {a} : actor'[b].previous.token \in Nat /\ actor'[b].previous.token <= tokens
  <2>1. \A s \in AnyState : s.token \in Nat
    BY DEF AnyState, NoState
  <2> QED
    BY <1>2, <1>4, <2>1 DEF Processes
<1>10. Numbered'
  <2>1. \A b \in Actors : actor'[b].token <= tokens' /\ actor'[b].previous.token <= tokens'
    <3>1. providerState.token \in Nat
      BY <1>1 DEF AnyState, NoState
    <3> QED
      BY <1>1, <1>3, <1>4, <1>9, <3>1
  <2>2. \A b \in Actors : actor'[b].post \in Publishing => actor'[b].token # 0 /\ actor'[b].token # tokens'
    BY <1>3, <1>4, <1>8, <1>9 DEF SetupInv, Numbered
  <2> QED
    BY <1>3, <1>4, <1>5, <1>8, <2>1, <2>2 DEF Numbered
<1>11. Published(providerState)'
  BY <1>3, <1>5, <1>8, <1>9 DEF Published
<1>12. Published(providerState) /\ KeepsRoleOf(a)
  BY <1>2, <1>4 DEF KeepsRoleOf, Publishing
<1>13. ASSUME NEW b \in Actors, Announces(b)' PROVE Published(actor[b].previous)'
  <2>1. actor'[b].previous = providerState
    BY <1>4, <1>8, <1>13
  <2> QED
    BY <1>7, <1>12, <2>1, StandKept DEF Published, Fits
<1>14. Locked(a)'
  BY <1>1, <1>2, <1>3, <1>4 DEF OwnInv, Locked, Announces, Editing, SettingUp, Publishing
<1>15. EditFits(a)' /\ SetupFits(a)'
  BY <1>1, <1>2, <1>3, <1>4 DEF OwnInv, EditFits, SetupFits, Announces, SettingUp, Publishing
<1> QED
  BY <1>6, <1>7, <1>10, <1>11, <1>13, <1>14, <1>15, OthersKept DEF SetupInv, OwnInv

(* PublishProfile: new inputs are published under the state that names them, *)
(* and nobody publishes under its token.                                     *)
LEMMA PublishKept == ASSUME SetupInv, NEW a \in Actors, PublishProfile(a) PROVE SetupInv'
<1>1. /\ actor[a].post = "replacing" /\ profileFile' = actor[a].next /\ Rests(a) /\ Release(a)
      /\ UNCHANGED <<providerState, exports, toolsFor, tokens>>
  BY DEF PublishProfile, Works
<1>2. /\ OwnInv(a) /\ rootLock = a /\ Numbered /\ SetupTyped
      /\ actor[a].next \in Profiles
  BY <1>1 DEF SetupInv, OwnInv, Locked, EditFits, Editing
<1>3. StepOf(a) /\ KeepsRole(a) /\ OwnInv(a)' /\ ~Announces(a)' /\ actor'[a] = Resting
  BY <1>1, <1>2, Released
<1>4. FilesTyped
  BY <1>1, <1>2 DEF FilesTyped, SetupTyped, Numbered
<1>5. CASE actor[a].token = 0
  <2>1. actor[a].next.inputs = profileFile.inputs
    BY <1>1, <1>2, <1>5 DEF OwnInv, EditFits
  <2>2. profileFile # NoProfile
    BY <1>2, <2>1, InputAssumption DEF Profiles, NoProfile
  <2>3. SameInputs
    BY <1>1, <2>1, <2>2 DEF SameInputs
  <2> QED
    BY <1>1, <1>3, <1>4, <2>3, StateKept, StepKept
<1>6. CASE actor[a].token # 0
  <2>1. Announces(a)
    BY <1>1, <1>6 DEF Announces
  <2>2. stateLock = a /\ providerState = Unavailable(actor[a].next.inputs, actor[a].token)
    BY <1>2, <2>1 DEF OwnInv, Locked, EditFits
  <2>3. \A b \in Actors : actor'[b].post \in Publishing => actor'[b].token # actor[a].token
    <3>1. \A b \in Actors : actor'[b].post \in Publishing =>
            actor[b].post \in Publishing /\ actor'[b].token = actor[b].token
      BY <1>3 DEF StepOf, KeepsRole, KeepsRoleOf
    <3> QED
      BY <1>2, <2>1, <3>1 DEF Numbered
  <2>4. Published(providerState)'
    BY <1>1, <2>2, <2>3 DEF Published, Unavailable
  <2> QED
    BY <1>3, <1>4, <2>2, <2>4, StepKept
<1> QED
  BY <1>5, <1>6

(* PublicationFails: the profile is what it was, or gone.                    *)
LEMMA FailsKept == ASSUME SetupInv, NEW a \in Actors, PublicationFails(a) PROVE SetupInv'
<1>1. /\ actor[a].post = "replacing" /\ profileFile' \in {profileFile, NoProfile}
      /\ UNCHANGED <<providerState, exports, toolsFor, tokens>>
  BY DEF PublicationFails, Works
<1>2. OwnInv(a) /\ rootLock = a /\ Numbered /\ SetupTyped
  BY <1>1 DEF SetupInv, OwnInv, Locked, Editing
<1>3. SameInputs /\ FilesTyped
  BY <1>1, <1>2 DEF SameInputs, FilesTyped, SetupTyped, Numbered
<1>4. CASE Rests(a) /\ Release(a)
  <2>1. StepOf(a) /\ KeepsRole(a) /\ OwnInv(a)'
    BY <1>1, <1>2, <1>4, Released
  <2> QED
    BY <1>1, <1>3, <2>1, StateKept, StepKept
<1>5. CASE actor[a].token # 0 /\ Moves(a, "restoring state") /\ UNCHANGED <<rootLock, stateLock, setupLock>>
  <2>1. /\ actor' \in [Actors -> Processes] /\ \A b \in Actors \ {a} : actor'[b] = actor[b]
        /\ actor'[a].post = "restoring state" /\ actor'[a].next = actor[a].next
        /\ actor'[a].previous = actor[a].previous /\ actor'[a].token = actor[a].token
    BY <1>2, <1>5, Moved DEF SetupTyped, Posts
  <2>2. StepOf(a)
    BY <1>1, <1>2, <1>5, <2>1 DEF StepOf
  <2>3. Announces(a) /\ Announces(a)'
    BY <1>1, <1>5, <2>1 DEF Announces
  <2>4. KeepsRole(a)
    BY <1>2, <2>1, <2>3 DEF KeepsRole, KeepsRoleOf, Publishing, Numbered
  <2>5. Locked(a)'
    BY <1>1, <1>2, <1>5, <2>1, <2>3 DEF OwnInv, Locked, Editing, SettingUp, Publishing
  <2>6. EditFits(a)' /\ SetupFits(a)'
    BY <1>1, <1>2, <1>5, <2>1, <2>3 DEF OwnInv, EditFits, SetupFits, SettingUp, Publishing
  <2> QED
    BY <1>1, <1>3, <2>2, <2>4, <2>5, <2>6, StateKept, StepKept DEF OwnInv
<1> QED
  BY <1>4, <1>5 DEF PublicationFails

(* RestorePrevious: the state that stood before the edit stands again, for   *)
(* the lock has been held since.                                             *)
LEMMA RestoreKept == ASSUME SetupInv, NEW a \in Actors, RestorePrevious(a) PROVE SetupInv'
<1>1. CASE UNCHANGED providerState
  BY <1>1, EndsKept DEF RestorePrevious
<1>2. CASE providerState' = actor[a].previous
  <2>1. /\ actor[a].post = "restoring state" /\ Rests(a) /\ Release(a)
        /\ UNCHANGED <<profileFile, exports, toolsFor, tokens>>
    BY DEF RestorePrevious, Works
  <2>2. OwnInv(a) /\ Numbered /\ SetupTyped
    BY DEF SetupInv
  <2>3. Announces(a)
    BY <2>1, <2>2 DEF OwnInv, EditFits, Announces
  <2>4. stateLock = a /\ Published(actor[a].previous)
    BY <2>2, <2>3 DEF SetupInv, OwnInv, Locked
  <2>5. StepOf(a) /\ KeepsRole(a) /\ OwnInv(a)'
    BY <2>1, <2>4, Released
  <2>6. SameInputs /\ FilesTyped
    BY <1>2, <2>1, <2>2 DEF SameInputs, FilesTyped, SetupTyped, Numbered, Processes
  <2>7. Published(providerState)'
    BY <1>2, <2>4, <2>5, <2>6, StandKept DEF Published, Fits, KeepsRole
  <2> QED
    BY <2>5, <2>6, <2>7, StepKept
<1> QED
  BY <1>1, <1>2 DEF RestorePrevious

(* StartPublication: the token is one that nobody has, and the inputs are    *)
(* those that the profile still declares.                                    *)
LEMMA StartKept == ASSUME SetupInv, NEW a \in Actors, StartPublication(a) PROVE SetupInv'
<1>1. /\ actor[a].post = "announcing" /\ actor[a] \in Processes /\ actor \in [Actors -> Processes]
      /\ stateLock' = "free" /\ tokens \in Nat /\ tokens' = tokens + 1
      /\ providerState' = Unavailable(actor[a].seen.inputs, tokens')
      /\ actor' = [actor EXCEPT ![a].token = tokens', ![a].post = "installing"]
      /\ UNCHANGED <<profileFile, exports, toolsFor, rootLock, setupLock>>
  BY DEF StartPublication, FreshToken, Works, SetupInv, SetupTyped
<1>2. /\ OwnInv(a) /\ a # "free" /\ stateLock = a /\ setupLock = a
      /\ actor[a].seen \in Profiles /\ Fits(actor[a].seen.inputs)
      /\ \A b \in Actors : actor[b].token <= tokens /\ actor[b].previous.token <= tokens
  BY <1>1, ActorAssumption DEF SetupInv, OwnInv, Locked, SetupFits, SettingUp, Numbered
<1>3. /\ tokens' \in Nat /\ tokens' # 0 /\ tokens' <= tokens'
      /\ (\A t : t <= tokens /\ t \in Nat => t <= tokens')
  BY <1>1
<1>4. /\ actor' \in [Actors -> Processes] /\ \A b \in Actors \ {a} : actor'[b] = actor[b]
      /\ actor'[a].post = "installing" /\ actor'[a].seen = actor[a].seen
      /\ actor'[a].previous = actor[a].previous /\ actor'[a].token = tokens'
  BY <1>1, <1>3 DEF Processes, Posts
<1>5. /\ providerState' \in AnyState /\ providerState'.token = tokens' /\ providerState'.status # "ready"
  BY <1>1, <1>2, <1>3 DEF AnyState, Unavailable, Profiles
<1>6. SetupTyped'
  BY <1>1, <1>3, <1>4, <1>5 DEF SetupInv, SetupTyped
<1>7. StepOf(a) /\ SameInputs
  BY <1>1, <1>2, <1>4 DEF StepOf, SameInputs
<1>8. ASSUME NEW b \in Actors PROVE ~Announces(b)' /\ (actor'[b].post \in Publishing => b = a)
  <2>1. CASE b = a
    BY <1>4, <2>1 DEF Announces
  <2>2. CASE b # a
    <3>1. ~Announces(b) /\ actor[b].post \notin SettingUp
      BY <1>1, <2>2, Excluded DEF SettingUp
    <3> QED
      BY <1>4, <2>2, <3>1 DEF Announces, SettingUp
  <2> QED
    BY <2>1, <2>2
<1>9. \A b \in Actors : actor'[b].token <= tokens' /\ actor'[b].previous.token <= tokens'
  <2>1. \A s \in AnyState : s.token \in Nat
    BY DEF AnyState, NoState
  <2>2. \A b \in Actors : actor[b].token \in Nat /\ actor[b].previous.token \in Nat
    BY <1>1, <2>1 DEF Processes
  <2> QED
    BY <1>2, <1>3, <1>4, <2>2
<1>10. Numbered'
  BY <1>3, <1>4, <1>5, <1>8, <1>9 DEF Numbered
<1>11. Published(providerState)'
  BY <1>1, <1>2, <1>4, <1>5, <1>8 DEF Published, Fits
<1>12. Locked(a)'
  BY <1>1, <1>2, <1>4, <1>8 DEF OwnInv, Locked, Editing, SettingUp, Publishing
<1>13. EditFits(a)' /\ SetupFits(a)'
  BY <1>1, <1>2, <1>4, <1>8 DEF EditFits, SetupFits, SettingUp, Publishing
<1> QED
  BY <1>6, <1>7, <1>8, <1>10, <1>11, <1>12, <1>13, OthersKept DEF SetupInv, OwnInv

(* SetupTool, RunNative, PublishScripts: while a Setup publishes, nothing is *)
(* ready, and no other Setup writes.                                         *)
LEMMA InstallKept ==
  ASSUME SetupInv, NEW a \in Actors, SetupTool(a) \/ RunNative(a) \/ PublishScripts(a)
  PROVE  SetupInv'
<1>1. /\ actor[a].post \in Publishing /\ UNCHANGED <<profileFile, providerState, rootLock, stateLock, setupLock, tokens>>
      /\ OwnInv(a) /\ Numbered /\ SetupTyped
  BY DEF SetupTool, RunNative, PublishScripts, Works, Publishing, SetupInv
<1>2. exports' \in [{"cmd", "ps1"} -> Nat] /\ toolsFor' \in [Tools -> Inputs \cup {"broken"}]
  <2>1. /\ actor[a].token \in Nat /\ exports \in [{"cmd", "ps1"} -> Nat]
        /\ toolsFor \in [Tools -> Inputs \cup {"broken"}]
        /\ actor[a].seen.inputs \in Inputs
    BY <1>1 DEF SetupTyped, Processes, OwnInv, SetupFits, SettingUp, Profiles
  <2> QED
    BY <2>1 DEF SetupTool, RunNative, PublishScripts
<1>3. PICK post \in Publishing :
        /\ actor' \in [Actors -> Processes] /\ \A b \in Actors \ {a} : actor'[b] = actor[b]
        /\ actor'[a].post = post /\ actor'[a].seen = actor[a].seen
        /\ actor'[a].previous = actor[a].previous /\ actor'[a].token = actor[a].token
        /\ post \in {"writing cmd", "writing ps1", "completing"} =>
             \A t \in Tools : toolsFor'[t] = actor[a].seen.inputs
        /\ post \in {"writing ps1", "completing"} => exports'["cmd"] = actor[a].token
        /\ post = "completing" => exports'["ps1"] = actor[a].token
  <2>1. CASE SetupTool(a)
    <3>1. actor[a].post = "installing" /\ actor' = actor
      BY <2>1 DEF SetupTool, Works
    <3> QED
      BY <1>1, <3>1 DEF SetupTyped, Publishing
  <2>2. CASE RunNative(a)
    <3>1. /\ Moves(a, "writing cmd") /\ UNCHANGED toolsFor
          /\ \A t \in Tools : toolsFor[t] = actor[a].seen.inputs
      BY <2>2 DEF RunNative
    <3> QED
      BY <1>1, <3>1, Moved DEF SetupTyped, Publishing, Posts
  <2>3. CASE PublishScripts(a)
    <3>1. /\ UNCHANGED toolsFor /\ exports \in [{"cmd", "ps1"} -> Nat]
          /\ \/ /\ actor[a].post = "writing cmd" /\ Moves(a, "writing ps1")
                /\ exports' = [exports EXCEPT !["cmd"] = actor[a].token]
             \/ /\ actor[a].post = "writing ps1" /\ Moves(a, "completing")
                /\ exports' = [exports EXCEPT !["ps1"] = actor[a].token]
      BY <1>1, <2>3 DEF PublishScripts, Works, SetupTyped
    <3>2. \A t \in Tools : toolsFor[t] = actor[a].seen.inputs
      BY <1>1, <3>1 DEF OwnInv, SetupFits
    <3>3. actor[a].post = "writing ps1" => exports["cmd"] = actor[a].token
      BY <1>1 DEF OwnInv, SetupFits
    <3> QED
      BY <1>1, <3>1, <3>2, <3>3, Moved DEF SetupTyped, Publishing, Posts
  <2> QED
    BY <2>1, <2>2, <2>3
<1>4. StepOf(a) /\ SameInputs
  BY <1>1, <1>3 DEF StepOf, SameInputs
<1>5. KeepsRole(a) /\ ~Announces(a) /\ ~Announces(a)'
  BY <1>1, <1>3 DEF KeepsRole, KeepsRoleOf, Announces, Publishing, Numbered
<1>6. FilesTyped
  BY <1>1, <1>2 DEF FilesTyped, SetupTyped, Numbered
<1>7. Locked(a)'
  BY <1>1, <1>3, <1>5 DEF OwnInv, Locked, Editing, SettingUp, Publishing
<1>8. EditFits(a)' /\ SetupFits(a)'
  BY <1>1, <1>3, <1>5 DEF OwnInv, EditFits, SetupFits, SettingUp, Publishing
<1> QED
  BY <1>1, <1>4, <1>5, <1>6, <1>7, <1>8, StateKept, StepKept DEF OwnInv

(* Complete: what is announced under the token of this Setup is for the      *)
(* profile as it is, and this Setup has installed and written it.            *)
LEMMA CompleteKept == ASSUME SetupInv, NEW a \in Actors, Complete(a) PROVE SetupInv'
<1>1. /\ actor[a].post = "completing" /\ stateLock = "free" /\ Rests(a) /\ Release(a)
      /\ UNCHANGED <<profileFile, exports, toolsFor, tokens>>
  BY DEF Complete, Works
<1>2. CASE UNCHANGED providerState
  BY <1>1, <1>2, EndsKept
<1>3. CASE /\ providerState = Unavailable(actor[a].seen.inputs, actor[a].token)
           /\ providerState' = Ready(actor[a].seen.inputs, actor[a].token)
  <2>1. OwnInv(a) /\ Numbered /\ SetupTyped /\ Published(providerState) /\ actor[a].seen \in Profiles
    BY <1>1 DEF SetupInv, OwnInv, SetupFits, SettingUp, Publishing
  <2>2. StepOf(a) /\ KeepsRole(a) /\ OwnInv(a)'
    BY <1>1, Released
  <2>3. SameInputs /\ FilesTyped
    BY <1>1, <1>3, <2>1 DEF SameInputs, FilesTyped, SetupTyped, Numbered, AnyState, Processes, Profiles, Ready, Unavailable
  <2>4. Fits(actor[a].seen.inputs)
    BY <1>1, <1>3, <2>1 DEF Published, Unavailable, Publishing
  <2>5. /\ \A t \in Tools : toolsFor[t] = actor[a].seen.inputs
        /\ \A script \in {"cmd", "ps1"} : exports[script] = actor[a].token
    BY <1>1, <2>1 DEF OwnInv, SetupFits
  <2>6. ASSUME NEW b \in Actors PROVE actor'[b].post \notin Publishing
    <3>1. CASE b = a
      BY <1>1, <2>1, <3>1, RestingTyped DEF Rests, SetupTyped
    <3>2. CASE b # a
      <4>1. actor[b].post \notin SettingUp
        BY <1>1, <3>2, Excluded DEF SettingUp, Publishing
      <4> QED
        BY <2>2, <3>2, <4>1 DEF StepOf, SettingUp
    <3> QED
      BY <3>1, <3>2
  <2>7. Published(providerState)'
    BY <1>1, <1>3, <2>4, <2>5, <2>6 DEF Published, Fits, Ready
  <2> QED
    BY <2>2, <2>3, <2>7, StepKept
<1> QED
  BY <1>2, <1>3 DEF Complete

(* Every step keeps the invariant.                                           *)
LEMMA SetupKept == SetupInv /\ [SetupNext]_setupVars => SetupInv'
<1> SUFFICES ASSUME SetupInv, [SetupNext]_setupVars PROVE SetupInv'
  OBVIOUS
<1>1. CASE UNCHANGED setupVars
  <2>1. SetupTyped' /\ Numbered'
    BY <1>1 DEF setupVars, SetupInv, SetupTyped, Numbered, Announces
  <2>2. Published(providerState)' /\ \A a \in Actors : Announces(a)' => Published(actor[a].previous)'
    BY <1>1 DEF setupVars, SetupInv, Published, Fits, Announces
  <2>3. \A a \in Actors : Locked(a)' /\ EditFits(a)'
    BY <1>1 DEF setupVars, SetupInv, OwnInv, Locked, EditFits, Announces
  <2>4. \A a \in Actors : SetupFits(a)'
    BY <1>1 DEF setupVars, SetupInv, OwnInv, SetupFits, Fits
  <2> QED
    BY <2>1, <2>2, <2>3, <2>4 DEF SetupInv, OwnInv
<1>2. ASSUME NEW a \in Actors, SetupStep(a) PROVE SetupInv'
  <2>1. Ceases(a) => SetupInv'
    BY EndsKept DEF Ceases
  <2> QED
    BY <1>2, <2>1, AsideSteps, LockKept, UpdateKept, BeginKept, PublishKept, FailsKept, RestoreKept,
       StartKept, InstallKept, CompleteKept DEF SetupStep
<1> QED
  BY <1>1, <1>2 DEF SetupNext

(* Nothing is published, and no process works.                               *)
LEMMA SetupStarts == SetupInit => SetupInv
<1> SUFFICES ASSUME SetupInit PROVE SetupInv
  OBVIOUS
<1>1. \A a \in Actors : actor[a] = Resting /\ a # "free"
  BY ActorAssumption DEF SetupInit
<1>2. NoState \in AnyState /\ NoState.token = 0 /\ NoState.status # "ready"
  BY DEF AnyState, NoState
<1>3. SetupTyped
  <2>1. profileFile \in Profiles \cup {NoProfile}
    BY DEF SetupInit, Profiles
  <2>2. toolsFor \in [Tools -> Inputs \cup {"broken"}] /\ exports \in [{"cmd", "ps1"} -> Nat]
    BY DEF SetupInit
  <2> QED
    BY <1>2, <2>1, <2>2, RestingTyped DEF SetupInit, SetupTyped
<1>4. Numbered
  <2>1. tokens = 0 /\ providerState.token = 0 /\ 0 <= 0
    BY <1>2 DEF SetupInit
  <2> QED
    BY <1>1, <2>1, RestingTyped DEF Numbered
<1>5. Published(providerState) /\ \A a \in Actors : ~Announces(a)
  BY <1>1, <1>2, RestingTyped DEF SetupInit, Published, Announces
<1>6. \A a \in Actors : OwnInv(a)
  BY <1>1, RestingTyped DEF SetupInit, OwnInv, Locked, EditFits, SetupFits, Announces, Editing, SettingUp, Publishing
<1> QED
  BY <1>3, <1>4, <1>5, <1>6 DEF SetupInv

-----------------------------------------------------------------------------
(* The theorems *)

(* The invariant holds of every behaviour.                                   *)
THEOREM SetupHolds == SetupSpec => []SetupInv
BY SetupStarts, SetupKept, PTL DEF SetupSpec

(* Whatever editors and Setups run, fail or are killed, a state that says    *)
(* ready is for the inputs of the profile and both scripts carry its token   *)
(* (profile/mod.rs, provider_state.rs, development/setup/provider.rs).       *)
THEOREM PublishedForTheProfile == SetupSpec => []ReadyIsForTheProfile
<1>1. SetupInv => ReadyIsForTheProfile
  <2>1. ASSUME SetupInv PROVE DOMAIN exports = {"cmd", "ps1"} /\ Published(providerState)
    BY <2>1 DEF SetupInv, SetupTyped
  <2> QED
    BY <2>1 DEF Published, Fits, ReadyIsForTheProfile
<1> QED
  BY <1>1, SetupHolds, PTL

(* Only the second read accepts, and only a publication changes the profile  *)
(* of an editor that is about to publish.                                    *)
LEMMA WhoMoves ==
  ASSUME SetupInv, NEW a \in Actors, SetupStep(a), NEW c \in Actors
  PROVE  /\ Works(c, "resolving last") /\ actor'[c].post = "resolved" => ReadReadyAgain(c)
         /\ Works(c, "replacing") /\ actor'[c].post # "replacing" /\ profileFile' \notin {profileFile, NoProfile}
              => PublishProfile(c)
<1>1. actor \in [Actors -> Processes]
  BY DEF SetupInv, SetupTyped
<1>2. CASE a # c
  <2>1. actor'[c] = actor[c]
    <3>1. CASE ViewProfile(a) \/ LockProfile(a) \/ UpdateSetting(a) \/ BeginUnavailable(a) \/ PublishProfile(a)
      BY <1>1, <1>2, <3>1 DEF ViewProfile, LockProfile, UpdateSetting, BeginUnavailable, PublishProfile, Moves, Rests
    <3>2. CASE PublicationFails(a) \/ RestorePrevious(a) \/ LaunchSetup(a) \/ TakeSetupLock(a) \/ Ceases(a)
      BY <1>1, <1>2, <3>2 DEF PublicationFails, RestorePrevious, LaunchSetup, TakeSetupLock, Ceases, Moves, Rests
    <3>3. CASE RequireCurrentProfile(a) \/ StartPublication(a) \/ SetupTool(a) \/ RunNative(a) \/ PublishScripts(a)
      BY <1>1, <1>2, <3>3 DEF RequireCurrentProfile, StartPublication, SetupTool, RunNative, PublishScripts, Moves, Rests
    <3>4. CASE Complete(a) \/ BeginResolution(a) \/ ReadReady(a) \/ ResolveTool(a) \/ ReadReadyAgain(a) \/ UseEnvironment(a)
      BY <1>1, <1>2, <3>4 DEF Complete, BeginResolution, ReadReady, ResolveTool, ReadReadyAgain, UseEnvironment, Moves, Rests
    <3> QED
      BY <3>1, <3>2, <3>3, <3>4 DEF SetupStep
  <2> QED
    BY <2>1 DEF Works
<1>3. CASE a = c
  <2>1. Works(c, "resolving last") => ReadReadyAgain(c) \/ Ceases(c)
    BY <1>3 DEF SetupStep, Works, ViewProfile, LockProfile, UpdateSetting, BeginUnavailable, PublishProfile,
       PublicationFails, RestorePrevious, LaunchSetup, TakeSetupLock, RequireCurrentProfile, StartPublication,
       SetupTool, RunNative, PublishScripts, Complete, BeginResolution, ReadReady, ResolveTool, UseEnvironment
  <2>2. Works(c, "replacing") => PublishProfile(c) \/ PublicationFails(c) \/ Ceases(c)
    BY <1>3 DEF SetupStep, Works, ViewProfile, LockProfile, UpdateSetting, BeginUnavailable,
       RestorePrevious, LaunchSetup, TakeSetupLock, RequireCurrentProfile, StartPublication,
       SetupTool, RunNative, PublishScripts, Complete, BeginResolution, ReadReady, ResolveTool,
       ReadReadyAgain, UseEnvironment
  <2>3. Ceases(c) => actor'[c].post = "resting" /\ profileFile' = profileFile
    BY <1>1, RestingTyped DEF Ceases, Rests
  <2>4. PublicationFails(c) => profileFile' \in {profileFile, NoProfile}
    BY DEF PublicationFails
  <2> QED
    BY <2>1, <2>2, <2>3, <2>4
<1> QED
  BY <1>2, <1>3

(* The environment that a consumer accepts is one publication: its tools are *)
(* those of its inputs when the second read says ready                       *)
(* (command/development/mod.rs).                                             *)
THEOREM ResolutionIsOnePublication == SetupSpec => ResolvedAsPublished
<1>1. ASSUME SetupInv, [SetupNext]_setupVars
      PROVE  [\A a \in Actors : Works(a, "resolving last") /\ actor'[a].post = "resolved" =>
                /\ providerState.status = "ready"
                /\ \A t \in Tools : toolsFor[t] = actor[a].seen.inputs]_setupVars
  <2>1. ASSUME NEW a \in Actors, SetupStep(a), NEW c \in Actors,
               Works(c, "resolving last"), actor'[c].post = "resolved"
        PROVE  providerState.status = "ready" /\ \A t \in Tools : toolsFor[t] = actor[c].seen.inputs
    <3>1. ReadReadyAgain(c) /\ actor \in [Actors -> Processes]
      BY <1>1, <2>1, WhoMoves DEF SetupInv, SetupTyped
    <3>2. providerState = Ready(actor[c].seen.inputs, actor[c].token)
      BY <2>1, <3>1, RestingTyped DEF ReadReadyAgain, Rests
    <3>3. Published(providerState)
      BY <1>1 DEF SetupInv
    <3> QED
      BY <3>2, <3>3 DEF Ready, Published
  <2> QED
    BY <1>1, <2>1 DEF SetupNext
<1> QED
  BY <1>1, SetupHolds, PTL DEF SetupSpec, ResolvedAsPublished

(* A change of one setting leaves what another editor has committed, and one *)
(* that names a revision replaces that revision alone (profile/mod.rs): what *)
(* is published was made of the file under the lock that is still held.      *)
THEOREM EditsAreMadeOfTheFile == SetupSpec => NoEditIsLost
<1>1. ASSUME SetupInv, [SetupNext]_setupVars
      PROVE  [\A a \in Actors :
                Works(a, "replacing") /\ actor'[a].post # "replacing" /\ profileFile' \notin {profileFile, NoProfile}
                  => /\ profileFile # NoProfile =>
                          /\ actor[a].edit = "inputs" => profileFile'.note = profileFile.note
                          /\ actor[a].edit = "note"   => profileFile'.inputs = profileFile.inputs
                     /\ actor[a].checked => profileFile = actor[a].seen]_setupVars
  <2>1. ASSUME NEW a \in Actors, SetupStep(a), NEW c \in Actors, Works(c, "replacing"),
               actor'[c].post # "replacing", profileFile' \notin {profileFile, NoProfile}
        PROVE  /\ profileFile # NoProfile =>
                    /\ actor[c].edit = "inputs" => profileFile'.note = profileFile.note
                    /\ actor[c].edit = "note"   => profileFile'.inputs = profileFile.inputs
               /\ actor[c].checked => profileFile = actor[c].seen
    <3>1. PublishProfile(c)
      BY <1>1, <2>1, WhoMoves
    <3>2. EditFits(c)
      BY <1>1 DEF SetupInv, OwnInv
    <3> QED
      BY <2>1, <3>1, <3>2 DEF PublishProfile, Works, EditFits
  <2> QED
    BY <1>1, <2>1 DEF SetupNext
<1> QED
  BY <1>1, SetupHolds, PTL DEF SetupSpec, NoEditIsLost
=============================================================================
