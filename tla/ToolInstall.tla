---------------------------- MODULE ToolInstall ----------------------------
(***************************************************************************)
(* Installation of the versions of one development tool into a DataRoot    *)
(* (archive_tool/install/mod.rs, transaction.rs, recovery.rs, removal.rs,  *)
(* stage.rs, recipe.rs, archive_tool/selection.rs; rust/install.rs and     *)
(* process.rs; msvc/install.rs and msi.rs).  A version is a directory.  It *)
(* is staged beside its target, validated, exchanged with what is there by *)
(* renames, and what a crash leaves is recovered by the next installer.    *)
(***************************************************************************)
EXTENDS Naturals, FiniteSets

CONSTANTS Installers,   \* processes that install the tool
          Versions,     \* its versions, toolchains or channels
          MaxMishaps,   \* bound on failed calls and deaths
          MaxMeddling,  \* bound on changes of a target from outside
          MaxBackup     \* the last backup that is made

ASSUME InstallerAssumption == "no one" \notin Installers
ASSUME VersionAssumption == Versions \cap {"none", "all"} = {}
ASSUME BackupAssumption == MaxBackup \in Nat /\ MaxBackup > 1
ASSUME MishapAssumption == MaxMishaps \in Nat /\ MaxMeddling \in Nat

VARIABLES
  tool,       \* "archive", "rust" or "msvc"
  target,     \* the directory of each version
  backups,    \* what was moved out of its way, by version and age
  staged,     \* the directory each installer prepares
  litter,     \* whether work of a dead installer remains
  orphan,     \* whether a Windows Installer outlives the process that started it
  holder,     \* who holds each installation lock
  selection,  \* the version that `latest` stands for in this DataRoot
  installer,  \* each process
  mishaps, meddling

installVars == <<tool, target, backups, staged, litter, orphan, holder, selection, installer,
                 mishaps, meddling>>

-----------------------------------------------------------------------------
(* An installed or staged directory: what its metadata say of its source,   *)
(* and whether every file they list is there with its length and digest.    *)
(* Without metadata its source is "unrecorded".                             *)

Trusts   == {"github", "unverified", "project", "official"}
Sources  == Trusts \cup {"absent", "unrecorded"}
Tree(source, intact) == [source |-> source, intact |-> intact]
NoTree   == Tree("absent", FALSE)
Trees    == [source : Sources, intact : BOOLEAN]

(* Backups 0 and 1 have the names of earlier versions, which do not tell    *)
(* when they were made; the others are numbered in the order of their stamp.*)
Slots     == 0 .. MaxBackup
Legacy    == {0, 1}
NoSlot    == MaxBackup + 1
Ambiguous == MaxBackup + 2

(* The request: an exact version, one whose archive has a digest of the     *)
(* project, `latest`; a Rust toolchain or Visual Studio channel.            *)
Requests == {"exact", "pinned", "latest", "declared"}

NoSelection == [version |-> "none", source |-> "none"]

Places == {"idle", "locking", "recovering", "removing", "restoring", "revalidating", "tidying",
           "missing", "resolving", "staging", "running", "probing", "recording", "publishing",
           "preserving", "moving", "validating", "undoing", "returning", "cleaning",
           "finishing", "selecting", "installed", "failed"}

InstallTypeOK ==
  /\ tool \in {"archive", "rust", "msvc"}
  /\ target \in [Versions -> Trees]
  /\ backups \in [Versions -> [Slots -> Trees]]
  /\ staged \in [Installers -> Trees]
  /\ litter \in BOOLEAN /\ orphan \in BOOLEAN
  /\ holder \in [Versions \cup {"all"} -> Installers \cup {"no one"}]
  /\ selection \in [version : Versions \cup {"none"}, source : Trusts \cup {"none"}]
  /\ installer \in [Installers -> [pc : Places, request : Requests, version : Versions \cup {"none"},
                                   source : Trusts, attempt : 0 .. 1,
                                   backup : Slots \cup {NoSlot, Ambiguous}, moved : BOOLEAN,
                                   seen : BOOLEAN]]
  /\ mishaps \in 0 .. MaxMishaps /\ meddling \in 0 .. MaxMeddling

NewInstaller == [pc |-> "idle", request |-> "declared", version |-> "none",
                 source |-> "official", attempt |-> 0, backup |-> NoSlot, moved |-> FALSE, seen |-> TRUE]

InstallInit ==
  /\ tool \in {"archive", "rust", "msvc"}
  /\ \E v \in Versions, s \in {"github", "project"}, old \in [Legacy -> BOOLEAN] :
       /\ target = [w \in Versions |-> NoTree]
       /\ backups = [w \in Versions |-> [b \in Slots |->
            IF tool = "archive" /\ w = v /\ b \in Legacy /\ old[b] THEN Tree(s, TRUE) ELSE NoTree]]
  /\ staged = [p \in Installers |-> NoTree]
  /\ litter = FALSE /\ orphan = FALSE
  /\ holder = [l \in Versions \cup {"all"} |-> "no one"]
  /\ selection = NoSelection
  /\ installer = [p \in Installers |-> NewInstaller]
  /\ mishaps = 0 /\ meddling = 0

-----------------------------------------------------------------------------
Stands(p, pc) == installer[p].pc = pc
Goes(p, pc)   == installer' = [installer EXCEPT ![p].pc = pc]
Looked(p, pc) == installer' = [installer EXCEPT ![p].pc = pc, ![p].seen = TRUE]
Version(p)    == installer[p].version
Here(p)       == target[Version(p)]

(* Mutant: every version has a lock of its own. *)
LockOfVersion(p) == Version(p)

(* The lock's name is the tool's: recovery removes the work directories of  *)
(* every version.                                                           *)
LockName(p) == "all"

(* archive_candidate, and candidate of Rust and MSVC: whether a directory   *)
(* is the installation that the request asks for.                           *)
ArchiveFits(p, tree) ==
  /\ tree.intact
  /\ CASE installer[p].request = "exact"  -> tree.source \in {"github", "unverified"}
       [] installer[p].request = "pinned" -> tree.source = "project"
       [] OTHER                           -> tree.source = installer[p].source

RustFits(tree) == tree.intact /\ tree.source = "official"
MsvcFits(tree) == tree.intact /\ tree.source = "official"

Fits(p, tree) == CASE tool = "archive" -> ArchiveFits(p, tree)
                   [] tool = "rust"    -> RustFits(tree)
                   [] OTHER            -> MsvcFits(tree)

(* What ends an installer frees its lock.                                   *)
Unlock(p) == holder' = [l \in DOMAIN holder |-> IF holder[l] = p THEN "no one" ELSE holder[l]]
Ends(p, pc) == installer' = [installer EXCEPT ![p] = [NewInstaller EXCEPT !.pc = pc]] /\ Unlock(p)

(* A removal that fails or is interrupted has removed some of the files.    *)
Remains(tree) == {tree, [tree EXCEPT !.intact = FALSE]}

Mishap == mishaps < MaxMishaps /\ mishaps' = mishaps + 1
Smooth == UNCHANGED mishaps

-----------------------------------------------------------------------------
(* ArchiveToolRequest::resolve and the callers: `latest` is what the        *)
(* selection names or, without one, what GitHub names now.                  *)
Request(p) ==
  /\ Stands(p, "idle")
  /\ \E v \in Versions, r \in Requests, s \in Trusts :
       /\ r = "declared" <=> tool # "archive"
       /\ s = "official" <=> r = "declared"
       /\ s = "project" <=> r = "pinned"
       /\ r = "exact" => s = "unverified"
       /\ r = "latest" /\ selection # NoSelection =>
            v = selection.version /\ s = selection.source
       /\ installer' = [installer EXCEPT ![p] =
            [NewInstaller EXCEPT !.pc = "locking", !.request = r, !.version = v, !.source = s]]
  /\ UNCHANGED <<tool, target, backups, staged, litter, orphan, holder, selection, mishaps, meddling>>

TakeLock(p) ==
  /\ Stands(p, "locking") /\ holder[LockName(p)] = "no one"
  /\ holder' = [holder EXCEPT ![LockName(p)] = p]
  /\ Goes(p, "recovering")
  /\ UNCHANGED <<tool, target, backups, staged, litter, orphan, selection, mishaps, meddling>>

(* Mutant: backups whose order is unknown count as none. *)
SelectKnownBackup(valid) ==
  IF valid \ Legacy # {} THEN CHOOSE b \in valid : \A c \in valid : c <= b
  ELSE IF Cardinality(valid) = 1 THEN CHOOSE b \in valid : TRUE ELSE NoSlot

(* select_backup: the newest stamp wins; without a stamp only one backup    *)
(* may be there.                                                            *)
SelectBackup(valid) ==
  IF valid \ Legacy # {} THEN CHOOSE b \in valid : \A c \in valid : c <= b
  ELSE CASE valid = {}               -> NoSlot
         [] Cardinality(valid) = 1   -> CHOOSE b \in valid : TRUE
         [] OTHER                    -> Ambiguous

(* recover_with: a target that fits is ready.  Otherwise a backup that fits *)
(* is chosen before the target is removed.                                  *)
Recover(p) ==
  /\ Stands(p, "recovering")
  /\ IF Fits(p, Here(p))
     THEN Looked(p, "tidying")
     ELSE installer' = [installer EXCEPT
            ![p].backup = SelectBackup({b \in Slots : Fits(p, backups[Version(p)][b])}),
            ![p].seen = TRUE,
            ![p].pc = IF Here(p) = NoTree THEN "restoring" ELSE "removing"]
  /\ UNCHANGED <<tool, target, backups, staged, litter, orphan, holder, selection, mishaps, meddling>>

RemoveInvalid(p) ==
  /\ Stands(p, "removing")
  /\ target' = [target EXCEPT ![Version(p)] = NoTree]
  /\ Goes(p, "restoring")
  /\ UNCHANGED <<tool, backups, staged, litter, orphan, holder, selection, mishaps, meddling>>

Restore(p) ==
  /\ Stands(p, "restoring")
  /\ LET b == installer[p].backup IN
     CASE b = NoSlot ->
            Goes(p, "missing") /\ UNCHANGED <<target, backups, holder>>
       [] b = Ambiguous \/ (b \in Slots /\ Here(p) # NoTree) ->
            Ends(p, "failed") /\ UNCHANGED <<target, backups>>
       [] OTHER ->
            /\ target' = [target EXCEPT ![Version(p)] = backups[Version(p)][b]]
            /\ backups' = [backups EXCEPT ![Version(p)][b] = NoTree]
            /\ Goes(p, "revalidating")
            /\ UNCHANGED holder
  /\ UNCHANGED <<tool, staged, litter, orphan, selection, mishaps, meddling>>

Revalidate(p) ==
  /\ Stands(p, "revalidating")
  /\ IF Fits(p, Here(p)) THEN Looked(p, "tidying") /\ UNCHANGED holder ELSE Ends(p, "failed")
  /\ UNCHANGED <<tool, target, backups, staged, litter, orphan, selection, mishaps, meddling>>

(* remove_residues over every backup of this version and the work           *)
(* directories of all versions.  What cannot be removed is a warning.       *)
TidyAll(p) ==
  /\ Stands(p, "tidying") \/ Stands(p, "missing")
  /\ \/ /\ backups' = [backups EXCEPT ![Version(p)] = [b \in Slots |-> NoTree]]
        /\ staged' = [q \in Installers |-> NoTree]
        /\ litter' = FALSE
        /\ Smooth
     \/ /\ Mishap
        /\ \E b \in Slots : \E left \in Remains(backups[Version(p)][b]) :
             backups' = [backups EXCEPT ![Version(p)] =
                           [c \in Slots |-> IF c = b THEN left ELSE NoTree]]
        /\ UNCHANGED <<staged, litter>>
  /\ Goes(p, IF Stands(p, "tidying") THEN "finishing" ELSE "resolving")
  /\ UNCHANGED <<tool, target, orphan, holder, selection, meddling>>

-----------------------------------------------------------------------------
(* Staging.  resolve_source asks GitHub about the archive; what it answers  *)
(* must be what the request was resolved to.                                *)
Resolve(p) ==
  /\ Stands(p, "resolving")
  /\ \E s \in Trusts :
       /\ CASE installer[p].request = "declared" -> s = "official"
            [] installer[p].request = "pinned"   -> s = "project"
            [] OTHER                             -> s \in {"github", "unverified"}
       /\ IF installer[p].request = "latest" /\ s # installer[p].source
          THEN Ends(p, "failed")
          ELSE /\ installer' = [installer EXCEPT ![p].pc = "staging", ![p].source = s]
               /\ UNCHANGED holder
  /\ UNCHANGED <<tool, target, backups, staged, litter, orphan, selection, mishaps, meddling>>

(* stage::payload: the archive is extracted into the work directory, its    *)
(* subdirectory is copied to the staged one, and Bun gets its shim.         *)
StageArchive(p) ==
  /\ tool = "archive" /\ Stands(p, "staging")
  /\ staged' = [staged EXCEPT ![p] = Tree("unrecorded", TRUE)]
  /\ Goes(p, "probing")
  /\ UNCHANGED <<tool, target, backups, litter, orphan, holder, selection, mishaps, meddling>>

(* run_installer: rustup-init is created suspended over two empty           *)
(* directories, with an environment without rustup's variables, and goes on *)
(* when it is in a job that dies with this process.                         *)
StartRustup(p) ==
  /\ tool = "rust" /\ Stands(p, "staging")
  /\ staged' = [staged EXCEPT ![p] = Tree("unrecorded", FALSE)]
  /\ Goes(p, "running")
  /\ UNCHANGED <<tool, target, backups, litter, orphan, holder, selection, mishaps, meddling>>

(* It ends by itself with code 0; every other answer is a failure, after    *)
(* which the job is terminated.                                             *)
RustupEnds(p) ==
  /\ tool = "rust" /\ Stands(p, "running")
  /\ staged' = [staged EXCEPT ![p].intact = TRUE]
  /\ Goes(p, "probing")
  /\ UNCHANGED <<tool, target, backups, litter, orphan, holder, selection, mishaps, meddling>>

(* The VSIX packages are expanded into the staged directory, the MSIs and   *)
(* the cabinets that they name are copied beside it.                        *)
StageMsvc(p) ==
  /\ tool = "msvc" /\ Stands(p, "staging")
  /\ staged' = [staged EXCEPT ![p] = Tree("unrecorded", FALSE)]
  /\ Goes(p, "running")
  /\ UNCHANGED <<tool, target, backups, litter, orphan, holder, selection, mishaps, meddling>>

(* msi::install for one MSI after the other, each of which ends with code 0:*)
(* msiexec is killed when it takes too long, but belongs to no job.         *)
MsiexecEnds(p) ==
  /\ tool = "msvc" /\ Stands(p, "running")
  /\ staged' = [staged EXCEPT ![p].intact = TRUE]
  /\ Goes(p, "probing")
  /\ UNCHANGED <<tool, target, backups, litter, orphan, holder, selection, mishaps, meddling>>

(* The staged executable, or the Rust proxies, are run and say that they    *)
(* are the version that was asked for.                                      *)
ProbeArchive(p) ==
  /\ tool = "archive" /\ Stands(p, "probing") /\ staged[p].intact
  /\ Goes(p, "recording")
  /\ UNCHANGED <<tool, target, backups, staged, litter, orphan, holder, selection, mishaps, meddling>>

ProbeRust(p) ==
  /\ tool = "rust" /\ Stands(p, "probing") /\ staged[p].intact
  /\ Goes(p, "recording")
  /\ UNCHANGED <<tool, target, backups, staged, litter, orphan, holder, selection, mishaps, meddling>>

(* assembly::complete: exactly one version of the tools and of the SDK, the *)
(* DIA runtime beside the compiler, what is not needed removed, the setup   *)
(* scripts written.                                                         *)
Assemble(p) ==
  /\ tool = "msvc" /\ Stands(p, "probing") /\ staged[p].intact
  /\ Goes(p, "recording")
  /\ UNCHANGED <<tool, target, backups, staged, litter, orphan, holder, selection, mishaps, meddling>>

(* The metadata are the last file that is written: the length and digest of *)
(* each required file; for Rust, of every file of the toolchain as well.    *)
Recorded(p) == staged' = [staged EXCEPT ![p].source = installer[p].source]

RecordArchive(p) ==
  /\ tool = "archive" /\ Stands(p, "recording")
  /\ Recorded(p) /\ Goes(p, "publishing")
  /\ UNCHANGED <<tool, target, backups, litter, orphan, holder, selection, mishaps, meddling>>

RecordRust(p) ==
  /\ tool = "rust" /\ Stands(p, "recording")
  /\ Recorded(p) /\ Goes(p, "publishing")
  /\ UNCHANGED <<tool, target, backups, litter, orphan, holder, selection, mishaps, meddling>>

RecordMsvc(p) ==
  /\ tool = "msvc" /\ Stands(p, "recording")
  /\ Recorded(p) /\ Goes(p, "publishing")
  /\ UNCHANGED <<tool, target, backups, litter, orphan, holder, selection, mishaps, meddling>>

Staging(p) == installer[p].pc \in {"staging", "running", "probing", "recording"}

(* A failed call, process or probe: what was staged is removed if it can    *)
(* be.  An archive is fetched and staged once more.                         *)
StageFails(p) ==
  /\ Staging(p) /\ Mishap
  /\ \/ staged' = [staged EXCEPT ![p] = NoTree] /\ UNCHANGED litter
     \/ staged[p] # NoTree /\ staged' = [staged EXCEPT ![p] = NoTree] /\ litter' = TRUE
  /\ IF tool = "archive" /\ installer[p].attempt = 0
     THEN /\ installer' = [installer EXCEPT ![p].attempt = 1, ![p].pc = "staging"]
          /\ UNCHANGED holder
     ELSE Ends(p, "failed")
  /\ UNCHANGED <<tool, target, backups, orphan, selection, meddling>>

-----------------------------------------------------------------------------
(* publish_inner: the previous target moves out of the way, the staged tree *)
(* takes its place and is validated there, and what fails is rolled back.   *)

Discarded(p) == staged' = [staged EXCEPT ![p] = NoTree]

Publish(p) ==
  /\ Stands(p, "publishing")
  /\ IF Fits(p, staged[p])
     THEN /\ installer' = [installer EXCEPT ![p].backup = NoSlot, ![p].moved = FALSE,
                                            ![p].seen = TRUE,
                                            ![p].pc = IF Here(p) = NoTree THEN "moving" ELSE "preserving"]
          /\ UNCHANGED <<staged, holder>>
     ELSE Discarded(p) /\ Ends(p, "failed")
  /\ UNCHANGED <<tool, target, backups, litter, orphan, selection, mishaps, meddling>>

NewSlots(v) == {b \in Slots \ Legacy : \A c \in Slots : c >= b => backups[v][c] = NoTree}

Preserve(p) ==
  /\ Stands(p, "preserving") /\ Here(p) # NoTree
  /\ \E b \in NewSlots(Version(p)) :
       /\ \A c \in NewSlots(Version(p)) : b <= c
       /\ backups' = [backups EXCEPT ![Version(p)][b] = Here(p)]
       /\ target' = [target EXCEPT ![Version(p)] = NoTree]
       /\ installer' = [installer EXCEPT ![p].pc = "moving", ![p].backup = b]
  /\ UNCHANGED <<tool, staged, litter, orphan, holder, selection, mishaps, meddling>>

MoveStaged(p) ==
  /\ Stands(p, "moving")
  /\ IF Here(p) = NoTree
     THEN /\ target' = [target EXCEPT ![Version(p)] = staged[p]]
          /\ Discarded(p)
          /\ installer' = [installer EXCEPT ![p].pc = "validating", ![p].moved = TRUE]
     ELSE Goes(p, "undoing") /\ UNCHANGED <<target, staged>>
  /\ UNCHANGED <<tool, backups, litter, orphan, holder, selection, mishaps, meddling>>

MoveFails(p) ==
  /\ Stands(p, "moving") /\ Mishap
  /\ Goes(p, "undoing")
  /\ UNCHANGED <<tool, target, backups, staged, litter, orphan, holder, selection, meddling>>

ValidateTarget(p) ==
  /\ Stands(p, "validating")
  /\ Looked(p, IF Fits(p, Here(p)) THEN "cleaning" ELSE "undoing")
  /\ UNCHANGED <<tool, target, backups, staged, litter, orphan, holder, selection, mishaps, meddling>>

(* rollback: only a target that this installer moved there is removed.      *)
Undo(p) ==
  /\ Stands(p, "undoing")
  /\ target' = IF installer[p].moved THEN [target EXCEPT ![Version(p)] = NoTree] ELSE target
  /\ Goes(p, "returning")
  /\ UNCHANGED <<tool, backups, staged, litter, orphan, holder, selection, mishaps, meddling>>

PutBack(p) ==
  /\ Stands(p, "returning")
  /\ LET b == installer[p].backup IN
     IF b \in Slots /\ Here(p) = NoTree
     THEN /\ target' = [target EXCEPT ![Version(p)] = backups[Version(p)][b]]
          /\ backups' = [backups EXCEPT ![Version(p)][b] = NoTree]
     ELSE UNCHANGED <<target, backups>>
  /\ Discarded(p) /\ Ends(p, "failed")
  /\ UNCHANGED <<tool, litter, orphan, selection, mishaps, meddling>>

CleanUp(p) ==
  /\ Stands(p, "cleaning")
  /\ LET b == installer[p].backup IN
     \/ Smooth /\ backups' = IF b \in Slots THEN [backups EXCEPT ![Version(p)][b] = NoTree] ELSE backups
     \/ /\ Mishap /\ b \in Slots
        /\ \E left \in Remains(backups[Version(p)][b]) :
             backups' = [backups EXCEPT ![Version(p)][b] = left]
  /\ Goes(p, "finishing")
  /\ UNCHANGED <<tool, target, staged, litter, orphan, holder, selection, meddling>>

-----------------------------------------------------------------------------
(* publish_latest_selection: the first successful installation of `latest`  *)
(* decides what it means.  The selection is read, and created by a rename   *)
(* that replaces nothing; whoever loses that race accepts the same value.   *)

Proposed(p) == [version |-> Version(p), source |-> Here(p).source]

(* Mutant: a selection that exists is not compared. *)
FinishAnyway(p) ==
  /\ Stands(p, "finishing")
  /\ IF installer[p].request = "latest" /\ selection = NoSelection
     THEN Goes(p, "selecting") /\ UNCHANGED holder
     ELSE Ends(p, "installed")
  /\ UNCHANGED <<tool, target, backups, staged, litter, orphan, selection, mishaps, meddling>>

Finish(p) ==
  /\ Stands(p, "finishing")
  /\ CASE installer[p].request # "latest" \/ selection = Proposed(p) -> Ends(p, "installed")
       [] installer[p].request = "latest" /\ selection = NoSelection ->
            Goes(p, "selecting") /\ UNCHANGED holder
       [] OTHER                                                      -> Ends(p, "failed")
  /\ UNCHANGED <<tool, target, backups, staged, litter, orphan, selection, mishaps, meddling>>

Select(p) ==
  /\ Stands(p, "selecting")
  /\ selection' = IF selection = NoSelection
                  THEN [version |-> Version(p), source |-> installer[p].source] ELSE selection
  /\ Ends(p, IF selection'.version = Version(p) /\ selection'.source = installer[p].source
             THEN "installed" ELSE "failed")
  /\ UNCHANGED <<tool, target, backups, staged, litter, orphan, mishaps, meddling>>

-----------------------------------------------------------------------------
(* A removal or a rename fails although it was tried five times: a process  *)
(* runs from the directory or has a file in it open.                        *)
PathFails(p) ==
  /\ installer[p].pc \in {"recovering", "removing", "restoring", "preserving", "undoing",
                          "returning", "finishing", "selecting"}
  /\ Mishap
  /\ IF Stands(p, "removing") \/ (Stands(p, "undoing") /\ installer[p].moved)
     THEN \E left \in Remains(Here(p)) : target' = [target EXCEPT ![Version(p)] = left]
     ELSE UNCHANGED target
  /\ IF installer[p].pc \in {"preserving", "undoing", "returning"}
     THEN Discarded(p) ELSE UNCHANGED staged
  /\ Ends(p, "failed")
  /\ UNCHANGED <<tool, backups, litter, orphan, selection, meddling>>

(* The process is killed.  Its lock is free at once, its staged directory   *)
(* is litter, and msiexec goes on alone.                                    *)
Killed(p) ==
  /\ installer[p].pc \notin {"idle", "installed", "failed"} /\ Mishap
  /\ IF Stands(p, "removing") \/ (Stands(p, "undoing") /\ installer[p].moved)
     THEN \E left \in Remains(Here(p)) : target' = [target EXCEPT ![Version(p)] = left]
     ELSE UNCHANGED target
  /\ staged' = [staged EXCEPT ![p] = NoTree]
  /\ litter' = (litter \/ staged[p] # NoTree)
  /\ orphan' = (orphan \/ (tool = "msvc" /\ Stands(p, "running")))
  /\ installer' = [installer EXCEPT ![p] = NewInstaller]
  /\ Unlock(p)
  /\ UNCHANGED <<tool, backups, selection, meddling>>

OrphanWrites ==
  /\ orphan
  /\ orphan' \in BOOLEAN /\ litter' = TRUE
  /\ UNCHANGED <<tool, target, backups, staged, holder, selection, installer, mishaps, meddling>>

(* A user copies a version here, or changes or removes one.                 *)
MeddleWithTarget ==
  /\ meddling < MaxMeddling /\ meddling' = meddling + 1
  /\ \E v \in Versions :
       \E tree \in {NoTree} \cup {Tree(s, TRUE) : s \in IF tool = "archive" THEN {"github", "project"}
                                                                            ELSE {"official"}}
                            \cup Remains(target[v]) :
         /\ target[v] # tree
         /\ target' = [target EXCEPT ![v] = tree]
         /\ installer' = [p \in Installers |->
              [installer[p] EXCEPT !.seen = @ /\ Version(p) # v]]
  /\ UNCHANGED <<tool, backups, staged, litter, orphan, holder, selection, mishaps>>

InstallStep(p) ==
  \/ Request(p) \/ TakeLock(p)
  \/ Recover(p) \/ RemoveInvalid(p) \/ Restore(p) \/ Revalidate(p) \/ TidyAll(p)
  \/ Resolve(p) \/ StageArchive(p) \/ StartRustup(p) \/ RustupEnds(p) \/ StageMsvc(p) \/ MsiexecEnds(p)
  \/ ProbeArchive(p) \/ ProbeRust(p) \/ Assemble(p)
  \/ RecordArchive(p) \/ RecordRust(p) \/ RecordMsvc(p) \/ StageFails(p)
  \/ Publish(p) \/ Preserve(p) \/ MoveStaged(p) \/ MoveFails(p) \/ ValidateTarget(p)
  \/ Undo(p) \/ PutBack(p) \/ CleanUp(p) \/ Finish(p) \/ Select(p)
  \/ PathFails(p) \/ Killed(p)

InstallNext == OrphanWrites \/ MeddleWithTarget \/ \E p \in Installers : InstallStep(p)

InstallSpec == InstallInit /\ [][InstallNext]_installVars

-----------------------------------------------------------------------------

(* What an installer stages stays there until it publishes or discards it:   *)
(* no other installer takes it for the work of a dead one.                   *)
WorkIsItsOwners ==
  \A p \in Installers :
    /\ installer[p].pc \in {"running", "probing", "recording", "publishing", "preserving", "moving"}
         => staged[p] # NoTree
    /\ installer[p].pc \in {"publishing", "preserving", "moving"}
         => staged[p].source = installer[p].source

(* Some tree that the installer would accept is the target or can still be   *)
(* recovered.                                                                *)
Recoverable(p) == \/ Fits(p, Here(p))
                  \/ \E b \in Slots : Fits(p, backups[Version(p)][b])

(* No step of an installer, whichever call fails in it and wherever it is    *)
(* killed, loses the last tree that its request accepts, unless somebody     *)
(* changed the target after it looked; and none touches another version.     *)
NothingValidIsLost ==
  [][meddling' = meddling =>
       \A p \in Installers : installer[p].pc \notin {"idle", "locking", "installed", "failed"} =>
         /\ Recoverable(p) /\ installer[p].seen => \/ Fits(p, target'[Version(p)])
                              \/ \E b \in Slots : Fits(p, backups'[Version(p)][b])
         /\ installer'[p] # installer[p] =>
              \A v \in Versions \ {Version(p)} : target'[v] = target[v] /\ backups'[v] = backups[v]
    ]_installVars

(* `latest` means one version in a DataRoot for good, and every installer    *)
(* that reports success for it has installed that version.                   *)
OneLatest ==
  [][/\ selection # NoSelection => selection' = selection
     /\ \A p \in Installers :
          installer'[p].pc = "installed" /\ installer[p].pc # "installed" /\ installer[p].request = "latest"
            => selection'.version = Version(p)]_installVars
=============================================================================
