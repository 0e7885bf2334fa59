--------------------------- MODULE ArtifactCache ---------------------------
(***************************************************************************)
(* The caches of downloaded artifacts that every DataRoot of a machine     *)
(* shares (archive_tool/install/cache.rs and transfer.rs, rust/source.rs,  *)
(* msvc/payload_cache.rs, msvc/source/resolver.rs): one entry of the cache *)
(* and the processes that fetch it, use it and may die at any step.        *)
(*                                                                         *)
(* Contents are numbers: 0 is no file, 1..MaxRelease what a source has     *)
(* published in that order, Torn what is no archive at all.  The cache is  *)
(* an ordinary directory: a user who cleans it up or another program may   *)
(* change a file in it whenever no guard handle forbids that.              *)
(***************************************************************************)
EXTENDS Naturals, FiniteSets

CONSTANTS Fetchers,      \* processes that install from the cache
          MaxRelease,    \* bound on the releases of the source
          MaxTrouble     \* bound on changes from outside and failed calls

ASSUME ReleaseAssumption == MaxRelease \in Nat \ {0} /\ MaxTrouble \in Nat
ASSUME FetcherAssumption == "nobody" \notin Fetchers

VARIABLES
  kind,       \* which cache this is
  server,     \* the release the source serves now
  artifact,   \* the cached file
  sidecar,    \* the digest file beside it: whose digest it holds
  legacy,     \* the file of the cache directory of earlier versions
  orphans,    \* whether a temporary file was left behind
  cacheLock,  \* who holds the entry's lock file
  guards,     \* who has the file open, denying writers and deleters
  fetcher,    \* each process: where it stands and what it remembers
  trouble     \* how often the world outside has interfered

cacheVars == <<kind, server, artifact, sidecar, legacy, orphans, cacheLock, guards, fetcher, trouble>>
outside   == <<kind, server, legacy, trouble>>

Absent   == 0
Torn     == MaxRelease + 1
Releases == 1 .. MaxRelease
Contents == 0 .. MaxRelease + 1

(* An archive whose project or publisher names its digest, and one without; *)
(* the rustup installer with its checksum file; an MSVC payload whose       *)
(* manifest names its digest; the Visual Studio manifest with a digest file *)
(* of its own; the Visual Studio channel, which is refreshed every time.    *)
Kinds   == {"pinned", "unpinned", "rustup", "payload", "manifest", "channel"}
Archive == kind \in {"pinned", "unpinned"}

Stages == {"idle", "cleaning", "legacy", "importing", "imported", "checksum", "look", "discard",
           "download", "receiving", "open", "hashing", "refresh", "recheck", "refuse",
           "record", "using", "clearing", "failed"}

CacheTypeOK ==
  /\ kind \in Kinds /\ server \in Releases
  /\ artifact \in Contents /\ sidecar \in Contents /\ legacy \in Contents
  /\ orphans \in BOOLEAN
  /\ cacheLock \in Fetchers \cup {"nobody"}
  /\ guards \subseteq Fetchers
  /\ fetcher \in [Fetchers -> [pc : Stages, expected : Contents, got : Contents,
                               import : BOOLEAN, attempt : 0 .. 1, clean : BOOLEAN]]
  /\ trouble \in 0 .. MaxTrouble

NewFetcher == [pc |-> "idle", expected |-> Absent, got |-> Absent,
               import |-> FALSE, attempt |-> 0, clean |-> TRUE]

CacheInit ==
  /\ kind \in Kinds /\ server = 1
  /\ artifact \in Contents /\ sidecar \in Contents
  /\ legacy \in IF kind = "pinned" THEN Contents ELSE {Absent}
  /\ orphans = FALSE /\ cacheLock = "nobody" /\ guards = {}
  /\ fetcher = [f \in Fetchers |-> NewFetcher]
  /\ trouble = 0

-----------------------------------------------------------------------------
(* Steps of one process.  At is its place; To the next one.                 *)

At(f, pc) == fetcher[f].pc = pc
To(f, pc) == fetcher' = [fetcher EXCEPT ![f].pc = pc]

(* What ends an attempt drops its handle and its lock.  An attempt is clean *)
(* as long as no call into the system fails, nobody changes the files, and  *)
(* no other process runs the very installer that it wants to replace.       *)
Fail(f, clean) ==
  /\ fetcher' = [fetcher EXCEPT ![f].pc = "failed", ![f].clean = @ /\ clean]
  /\ guards' = guards \ {f}
  /\ cacheLock' = IF cacheLock = f THEN "nobody" ELSE cacheLock

CallFails(f) == trouble < MaxTrouble /\ trouble' = trouble + 1 /\ Fail(f, FALSE)

(* A file is replaced or removed only when no other process has it open     *)
(* without sharing deletion.                                                *)
Removable(f) == guards \subseteq {f}

WellFormed(c) == c \in Releases

(* ArtifactLease::valid, and archive_matches for a legacy file.             *)
ValidArchive(f, c)   == WellFormed(c) /\ (kind = "pinned" => c = fetcher[f].expected)
ArchiveMatches(f, c) == c = fetcher[f].expected /\ WellFormed(c)

(* The lock of the entry.  A caller that waits in vain for it gives up and  *)
(* has changed nothing.  The digest of an archive or a payload comes with   *)
(* the request.                                                             *)
Acquire(f) ==
  /\ At(f, "idle") /\ cacheLock = "nobody"
  /\ cacheLock' = f
  /\ fetcher' = [fetcher EXCEPT ![f] =
       [NewFetcher EXCEPT !.pc = CASE Archive          -> "cleaning"
                                   [] kind = "rustup"  -> "checksum"
                                   [] OTHER            -> "look",
                          !.expected = IF kind \in {"pinned", "payload"} THEN 1 ELSE Absent,
                          !.attempt = fetcher[f].attempt]]
  /\ UNCHANGED <<outside, artifact, sidecar, orphans, guards>>

(* clean_orphaned_downloads; a missing archive may come from the directory  *)
(* of an earlier version, if its digest is known.                           *)
CleanOrphans(f) ==
  /\ At(f, "cleaning")
  /\ orphans' = FALSE
  /\ To(f, IF artifact = Absent /\ kind = "pinned" THEN "legacy" ELSE "look")
  /\ UNCHANGED <<outside, artifact, sidecar, cacheLock, guards>>

ImportLegacy(f) ==
  /\ At(f, "legacy")
  /\ To(f, IF ArchiveMatches(f, legacy) THEN "importing" ELSE "look")
  /\ UNCHANGED <<outside, artifact, sidecar, orphans, cacheLock, guards>>

(* copy_local: the legacy file as it is now, which is no longer guarded.    *)
CopyLocal(f) ==
  /\ At(f, "importing")
  /\ IF legacy = Absent
     THEN Fail(f, TRUE)
     ELSE /\ fetcher' = [fetcher EXCEPT ![f].pc = "receiving", ![f].got = legacy, ![f].import = TRUE]
          /\ UNCHANGED <<cacheLock, guards>>
  /\ UNCHANGED <<outside, artifact, sidecar, orphans>>

VerifyImport(f) ==
  /\ At(f, "imported")
  /\ IF ArchiveMatches(f, artifact)
     THEN To(f, "look") /\ UNCHANGED <<artifact, cacheLock, guards>>
     ELSE artifact' = Absent /\ Fail(f, TRUE)
  /\ UNCHANGED <<outside, sidecar, orphans>>

-----------------------------------------------------------------------------
(* What is cached already: ensure of an archive, open_verified of an        *)
(* installer or a payload, cached_manifest.  A verified installer, payload  *)
(* or manifest is used after the lock is gone.                              *)

LookAtArchive(f) ==
  /\ At(f, "look") /\ Archive
  /\ To(f, CASE artifact = Absent           -> "download"
             [] ValidArchive(f, artifact)   -> "open"
             [] OTHER                       -> "discard")
  /\ UNCHANGED <<outside, artifact, sidecar, orphans, cacheLock, guards>>

Verified(f) ==
  /\ guards' = guards \cup {f}
  /\ To(f, "using")
  /\ cacheLock' = "nobody"

OpenVerified(f, otherwise) ==
  IF artifact = fetcher[f].expected
  THEN Verified(f)
  ELSE To(f, otherwise) /\ UNCHANGED <<cacheLock, guards>>

LookAtInstaller(f) ==
  /\ At(f, "look") /\ kind \in {"rustup", "payload"}
  /\ OpenVerified(f, "discard")
  /\ UNCHANGED <<outside, artifact, sidecar, orphans>>

CachedManifest(f) ==
  /\ At(f, "look") /\ kind = "manifest"
  /\ IF WellFormed(artifact) /\ sidecar = artifact
     THEN /\ fetcher' = [fetcher EXCEPT ![f].pc = "using", ![f].got = artifact]
          /\ cacheLock' = "nobody"
     ELSE To(f, "download") /\ UNCHANGED cacheLock
  /\ UNCHANGED <<outside, artifact, sidecar, orphans, guards>>

RefreshChannel(f) ==
  /\ At(f, "look") /\ kind = "channel"
  /\ To(f, "download")
  /\ UNCHANGED <<outside, artifact, sidecar, orphans, cacheLock, guards>>

(* remove_controlled, remove_invalid, remove_invalid_entry.                 *)
Discard(f) ==
  /\ At(f, "discard")
  /\ IF artifact = Absent \/ Removable(f)
     THEN artifact' = Absent /\ To(f, "download") /\ UNCHANGED <<cacheLock, guards>>
     ELSE UNCHANGED artifact /\ Fail(f, FALSE)
  /\ UNCHANGED <<outside, sidecar, orphans>>

-----------------------------------------------------------------------------
(* transfer_bounded: the source's answer goes to a temporary file, which is *)
(* flushed and renamed.  Lengths are compared, so that what is cut short is *)
(* not renamed; three attempts over HTTP are one here.                      *)

Download(f) ==
  /\ At(f, "download")
  /\ IF artifact # Absent /\ kind \notin {"manifest", "channel"}
     THEN Fail(f, TRUE)
     ELSE /\ fetcher' = [fetcher EXCEPT ![f].pc = "receiving", ![f].got = server,
                                        ![f].import = FALSE]
          /\ UNCHANGED <<cacheLock, guards>>
  /\ UNCHANGED <<outside, artifact, sidecar, orphans>>

PublishStream(f) ==
  /\ At(f, "receiving")
  /\ IF artifact = Absent \/ Removable(f)
     THEN /\ artifact' = fetcher[f].got
          /\ To(f, CASE fetcher[f].import  -> "imported"
                     [] kind = "manifest"  -> "record"
                     [] kind = "channel"   -> "using"
                     [] OTHER              -> "open")
          /\ UNCHANGED <<cacheLock, guards>>
     ELSE UNCHANGED artifact /\ Fail(f, FALSE)
  /\ UNCHANGED <<outside, sidecar, orphans>>

(* The digest of a manifest is a file of its own, written after it.         *)
RecordDigest(f) ==
  /\ At(f, "record")
  /\ sidecar' = fetcher[f].got
  /\ To(f, "using")
  /\ cacheLock' = "nobody"
  /\ UNCHANGED <<outside, artifact, orphans, guards>>

(* A channel that cannot be refreshed is read from the cache.               *)
ChannelFallback(f) ==
  /\ fetcher[f].pc \in {"download", "receiving"} /\ kind = "channel"
  /\ trouble < MaxTrouble /\ trouble' = trouble + 1
  /\ IF WellFormed(artifact)
     THEN /\ fetcher' = [fetcher EXCEPT ![f].pc = "using", ![f].got = artifact]
          /\ UNCHANGED <<cacheLock, guards>>
     ELSE Fail(f, FALSE)
  /\ UNCHANGED <<kind, server, legacy, artifact, sidecar, orphans>>

(* Mutant: the archive is hashed and extracted without a guard. *)
OpenUnguarded(f) ==
  /\ At(f, "open") /\ Archive
  /\ IF artifact = Absent THEN Fail(f, TRUE) ELSE To(f, "hashing") /\ UNCHANGED <<guards, cacheLock>>
  /\ UNCHANGED <<outside, artifact, sidecar, orphans>>

(* The guard is opened before the archive is hashed and kept until it has   *)
(* been extracted.                                                          *)
OpenGuard(f) ==
  /\ At(f, "open") /\ Archive
  /\ IF artifact = Absent
     THEN Fail(f, TRUE)
     ELSE guards' = guards \cup {f} /\ To(f, "hashing") /\ UNCHANGED cacheLock
  /\ UNCHANGED <<outside, artifact, sidecar, orphans>>

GuardedDigest(f) ==
  /\ At(f, "hashing")
  /\ IF ValidArchive(f, artifact)
     THEN To(f, "using") /\ UNCHANGED guards
     ELSE To(f, "refuse") /\ guards' = guards \ {f}
  /\ UNCHANGED <<outside, artifact, sidecar, orphans, cacheLock>>

(* Mutant: a fresh installer is compared with the cached checksum only. *)
OpenWithoutRefresh(f) ==
  /\ At(f, "open") /\ kind \in {"rustup", "payload"}
  /\ OpenVerified(f, "refuse")
  /\ UNCHANGED <<outside, artifact, sidecar, orphans>>

OpenDownloaded(f) ==
  /\ At(f, "open") /\ kind \in {"rustup", "payload"}
  /\ OpenVerified(f, IF kind = "rustup" THEN "refresh" ELSE "refuse")
  /\ UNCHANGED <<outside, artifact, sidecar, orphans>>

(* What does not verify is removed, so that the next attempt downloads.     *)
Refuse(f) ==
  /\ At(f, "refuse")
  /\ artifact' = IF Removable(f) THEN Absent ELSE artifact
  /\ Fail(f, TRUE)
  /\ UNCHANGED <<outside, sidecar, orphans>>

-----------------------------------------------------------------------------
(* The checksum of the rustup installer: the cached one first, and a fresh  *)
(* one when none is cached or a fresh installer does not match it.          *)

ReadChecksum(f) ==
  /\ At(f, "checksum")
  /\ IF WellFormed(sidecar)
     THEN fetcher' = [fetcher EXCEPT ![f].pc = "look", ![f].expected = sidecar]
     ELSE fetcher' = [fetcher EXCEPT ![f].pc = "refresh"]
  /\ UNCHANGED <<outside, artifact, sidecar, orphans, cacheLock, guards>>

RefreshChecksum(f) ==
  /\ At(f, "refresh")
  /\ sidecar' = server
  /\ fetcher' = [fetcher EXCEPT ![f].expected = server,
                                ![f].pc = IF fetcher[f].got = Absent THEN "look" ELSE "recheck"]
  /\ UNCHANGED <<outside, artifact, orphans, cacheLock, guards>>

Recheck(f) ==
  /\ At(f, "recheck")
  /\ OpenVerified(f, "refuse")
  /\ UNCHANGED <<outside, artifact, sidecar, orphans>>

-----------------------------------------------------------------------------
(* The caller extracts the archive, runs the installer or reads the         *)
(* manifest.  An archive's lock is held until it is staged; staging that    *)
(* fails once clears the entry and starts over.                             *)

Done(f) ==
  /\ At(f, "using")
  /\ fetcher' = [fetcher EXCEPT ![f] = NewFetcher]
  /\ guards' = guards \ {f}
  /\ cacheLock' = IF cacheLock = f THEN "nobody" ELSE cacheLock
  /\ UNCHANGED <<outside, artifact, sidecar, orphans>>

StagingFails(f) ==
  /\ At(f, "using") /\ Archive
  /\ IF fetcher[f].attempt = 0
     THEN To(f, "clearing") /\ guards' = guards \ {f} /\ UNCHANGED cacheLock
     ELSE Fail(f, FALSE)
  /\ UNCHANGED <<outside, artifact, sidecar, orphans>>

Clear(f) ==
  /\ At(f, "clearing")
  /\ artifact' = Absent /\ orphans' = FALSE
  /\ fetcher' = [fetcher EXCEPT ![f] = [NewFetcher EXCEPT !.attempt = 1]]
  /\ cacheLock' = "nobody"
  /\ UNCHANGED <<outside, sidecar, guards>>

(* A failed process has told its user, who tries again.                     *)
TryAgain(f) ==
  /\ At(f, "failed")
  /\ fetcher' = [fetcher EXCEPT ![f] = NewFetcher]
  /\ UNCHANGED <<outside, artifact, sidecar, orphans, cacheLock, guards>>

-----------------------------------------------------------------------------
(* What may happen at any time: a call fails, a process dies, the source    *)
(* publishes a release, and somebody changes a file that is not guarded.    *)

AnyCallFails(f) ==
  /\ fetcher[f].pc \notin {"idle", "failed"}
  /\ kind = "channel" => fetcher[f].pc \notin {"download", "receiving"}
  /\ CallFails(f)
  /\ orphans' \in IF At(f, "receiving") THEN {orphans, TRUE} ELSE {orphans}
  /\ sidecar' \in IF At(f, "refresh") THEN {sidecar, Absent} ELSE {sidecar}
  /\ UNCHANGED <<kind, server, legacy, artifact>>

Dies(f) ==
  /\ fetcher[f].pc \notin {"idle", "failed"}
  /\ trouble < MaxTrouble /\ trouble' = trouble + 1
  /\ fetcher' = [fetcher EXCEPT ![f] = NewFetcher]
  /\ guards' = guards \ {f}
  /\ cacheLock' = IF cacheLock = f THEN "nobody" ELSE cacheLock
  /\ orphans' = (orphans \/ At(f, "receiving"))
  /\ UNCHANGED <<kind, server, legacy, artifact, sidecar>>

Disturbed == fetcher' = [f \in Fetchers |-> [fetcher[f] EXCEPT !.clean = FALSE]]

NewRelease ==
  /\ trouble < MaxTrouble /\ trouble' = trouble + 1
  /\ server < MaxRelease /\ server' = server + 1
  /\ Disturbed
  /\ UNCHANGED <<kind, legacy, artifact, sidecar, orphans, cacheLock, guards>>

Meddle ==
  /\ trouble < MaxTrouble /\ trouble' = trouble + 1
  /\ \/ guards = {} /\ artifact' \in Contents \ {artifact} /\ UNCHANGED <<sidecar, legacy>>
     \/ sidecar' \in Contents \ {sidecar} /\ UNCHANGED <<artifact, legacy>>
     \/ legacy' \in Contents \ {legacy} /\ UNCHANGED <<artifact, sidecar>>
  /\ Disturbed
  /\ UNCHANGED <<kind, server, orphans, cacheLock, guards>>

CacheStep(f) ==
  \/ Acquire(f) \/ CleanOrphans(f) \/ ImportLegacy(f) \/ CopyLocal(f) \/ VerifyImport(f)
  \/ LookAtArchive(f) \/ LookAtInstaller(f) \/ CachedManifest(f) \/ RefreshChannel(f)
  \/ Discard(f) \/ Download(f) \/ PublishStream(f) \/ RecordDigest(f) \/ ChannelFallback(f)
  \/ OpenGuard(f) \/ GuardedDigest(f) \/ OpenDownloaded(f) \/ Refuse(f)
  \/ ReadChecksum(f) \/ RefreshChecksum(f) \/ Recheck(f)
  \/ Done(f) \/ StagingFails(f) \/ Clear(f) \/ TryAgain(f)
  \/ AnyCallFails(f) \/ Dies(f)

CacheNext == NewRelease \/ Meddle \/ \E f \in Fetchers : CacheStep(f)

CacheSpec == CacheInit /\ [][CacheNext]_cacheVars

-----------------------------------------------------------------------------

(* What is extracted, run or parsed has been verified, and is at this moment *)
(* still what was verified, whoever changes the cache: an archive by the     *)
(* guard its staging holds, an installer and a payload by theirs although    *)
(* the lock is gone, a manifest because it was read whole.                   *)
UsesOnlyVerified ==
  \A f \in Fetchers : At(f, "using") =>
    CASE Archive                      -> cacheLock = f /\ f \in guards /\ ValidArchive(f, artifact)
      [] kind \in {"rustup", "payload"} -> f \in guards /\ artifact = fetcher[f].expected
                                                      /\ WellFormed(artifact)
      [] OTHER                        -> WellFormed(fetcher[f].got)

(* No cache entry is ever in the way of an installation: an attempt that     *)
(* nothing disturbs succeeds, whatever files earlier attempts, deaths,       *)
(* releases and users left behind, unless the source serves other bytes than *)
(* those the request names.                                                  *)
NothingCachedIsInTheWay ==
  \A f \in Fetchers : At(f, "failed") /\ fetcher[f].clean =>
    kind \in {"pinned", "payload"} /\ server # fetcher[f].expected
=============================================================================
