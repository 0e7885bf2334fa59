-------------------------- MODULE ToolchainProofs --------------------------
(***************************************************************************)
(* What holds of the shared caches and of the installation of tools for    *)
(* any number of processes, releases, versions and failures.               *)
(*                                                                         *)
(* In both, one process at a time works under a lock; the lock is free at  *)
(* once when its holder ends.  So what an attempt has found out stays true *)
(* until it acts on it (Undisturbed, Knowing), unless somebody outside     *)
(* changed it since, which the models record (clean, seen); and what is    *)
(* used without the lock is protected by an open handle (Holds).           *)
(***************************************************************************)
EXTENDS ArtifactCache, ToolInstall, FiniteSetTheorems, TLAPS

-----------------------------------------------------------------------------
(* The cache *)

Attempts == [pc : Stages, expected : Contents, got : Contents, import : BOOLEAN,
             attempt : 0 .. 1, clean : BOOLEAN]

(* Where an attempt i at a cache of kind k holds the lock of the entry.      *)
Locks(k, i) == \/ i.pc \notin {"idle", "failed", "using"}
               \/ i.pc = "using" /\ k \in {"pinned", "unpinned", "channel"}

(* Which attempts go where, and what they remember there.                    *)
Placed(k, i) ==
  /\ i.pc \in {"cleaning", "hashing", "clearing"} => k \in {"pinned", "unpinned"}
  /\ i.pc \in {"legacy", "importing", "imported"} \/ (i.pc = "receiving" /\ i.import) => k = "pinned"
  /\ i.pc \in {"checksum", "refresh", "recheck"} => k = "rustup"
  /\ i.pc = "checksum" => i.got = Absent
  /\ i.pc = "record" => k = "manifest"
  /\ i.pc \in {"discard", "open", "refuse"} => k \notin {"manifest", "channel"}
  /\ k \in {"rustup", "payload"} /\ i.pc \notin {"idle", "checksum", "refresh", "failed"} => i.expected \in Releases
  /\ k \in {"manifest", "channel"} /\ i.pc \in {"receiving", "record", "using"} => i.got \in Releases

(* What an attempt uses: `open` says whether it has the artifact open.       *)
Holds(k, i, cached, open) ==
  /\ i.pc = "hashing" => open
  /\ i.pc = "using" /\ k \in {"pinned", "unpinned"} =>
       open /\ cached \in Releases /\ (k = "pinned" => cached = i.expected)
  /\ i.pc = "using" /\ k \in {"rustup", "payload"} => open /\ cached = i.expected

(* What an attempt that nothing disturbs knows.                              *)
Undisturbed(k, i, served, old, cached) ==
  i.clean =>
    /\ i.pc = "importing" => old = i.expected /\ old \in Releases
    /\ i.pc = "receiving" => IF i.import THEN i.got = i.expected /\ i.got \in Releases ELSE i.got = served
    /\ i.pc = "imported" => cached = i.expected /\ cached \in Releases
    /\ i.pc = "download" => cached = Absent \/ k \in {"manifest", "channel"}
    /\ i.pc \in {"open", "hashing"} => /\ cached \in Releases
                                       /\ k = "pinned" => cached \in {i.expected, served}
                                       /\ k \in {"rustup", "payload"} => cached = served
    /\ i.pc = "refresh" /\ i.got # Absent => cached = served
    /\ i.pc = "recheck" => cached = i.expected
    /\ i.pc \in {"refuse", "failed"} => k \in {"pinned", "payload"} /\ served # i.expected

(* One attempt at most works on the entry, and what it knows of it is true.  *)
CacheInv ==
  /\ CacheTypeOK
  /\ \A f \in Fetchers :
       /\ Locks(kind, fetcher[f]) <=> cacheLock = f
       /\ Placed(kind, fetcher[f])
       /\ Holds(kind, fetcher[f], artifact, f \in guards)
       /\ Undisturbed(kind, fetcher[f], server, legacy, artifact)

-----------------------------------------------------------------------------
(* One attempt at the cache *)

(* What the invariant says of the attempt of f.                              *)
LEMMA Attempting ==
  ASSUME CacheInv, NEW f \in Fetchers
  PROVE  /\ fetcher \in [Fetchers -> Attempts] /\ fetcher[f] \in Attempts
         /\ kind \in Kinds /\ server \in Releases
         /\ artifact \in Contents /\ sidecar \in Contents /\ legacy \in Contents /\ orphans \in BOOLEAN
         /\ cacheLock \in Fetchers \cup {"nobody"} /\ guards \subseteq Fetchers /\ trouble \in 0 .. MaxTrouble
         /\ Locks(kind, fetcher[f]) <=> cacheLock = f
         /\ Placed(kind, fetcher[f]) /\ Holds(kind, fetcher[f], artifact, f \in guards)
         /\ Undisturbed(kind, fetcher[f], server, legacy, artifact)
BY DEF CacheInv, CacheTypeOK, Attempts

(* The numbers of the contents.                                              *)
LEMMA CacheContents ==
  /\ Absent \in Contents /\ 1 \in Releases /\ Releases \subseteq Contents /\ Absent \notin Releases
  /\ \A c \in Contents : WellFormed(c) <=> c \in Releases
BY ReleaseAssumption DEF Absent, Contents, Releases, WellFormed

(* A step of the attempt of f, which replaces the artifact only under the    *)
(* lock and, where others use it without the lock, only if nobody else has   *)
(* it open.                                                                  *)
LEMMA CacheMoves ==
  ASSUME CacheInv, NEW f \in Fetchers, NEW next \in Attempts, fetcher' = [fetcher EXCEPT ![f] = next],
         UNCHANGED <<kind, server, legacy>>, artifact' \in Contents, sidecar' \in Contents,
         orphans' \in BOOLEAN, trouble' \in 0 .. MaxTrouble,
         cacheLock' \in Fetchers \cup {"nobody"}, Locks(kind, next) <=> cacheLock' = f,
         \A g \in Fetchers \ {f} : cacheLock' = g <=> cacheLock = g,
         guards' \subseteq Fetchers, \A g \in Fetchers \ {f} : g \in guards' <=> g \in guards,
         \/ artifact' = artifact
         \/ cacheLock = f /\ (kind \notin {"rustup", "payload"} \/ artifact = Absent \/ guards \subseteq {f}),
         Placed(kind, next), Holds(kind, next, artifact', f \in guards'),
         Undisturbed(kind, next, server, legacy, artifact')
  PROVE  CacheInv'
<1>1. /\ fetcher \in [Fetchers -> Attempts] /\ kind \in Kinds /\ server \in Releases /\ legacy \in Contents
  BY DEF CacheInv, CacheTypeOK, Attempts
<1>2. /\ fetcher' \in [Fetchers -> Attempts]
      /\ \A g \in Fetchers : fetcher'[g] = IF g = f THEN next ELSE fetcher[g]
  BY <1>1
<1>3. CacheTypeOK'
  BY <1>1, <1>2 DEF CacheTypeOK, Attempts
<1>4. ASSUME NEW g \in Fetchers
      PROVE  /\ Locks(kind', fetcher'[g]) <=> cacheLock' = g
             /\ Placed(kind', fetcher'[g])
             /\ Holds(kind', fetcher'[g], artifact', g \in guards')
             /\ Undisturbed(kind', fetcher'[g], server', legacy', artifact')
  <2>1. CASE g = f
    BY <1>2, <2>1
  <2>2. CASE g # f
    <3>1. /\ fetcher'[g] = fetcher[g] /\ kind' = kind /\ server' = server /\ legacy' = legacy
          /\ g \in guards' <=> g \in guards
      BY <1>2, <2>2
    <3>2. /\ Locks(kind, fetcher[g]) <=> cacheLock = g
          /\ Placed(kind, fetcher[g]) /\ Holds(kind, fetcher[g], artifact, g \in guards)
          /\ Undisturbed(kind, fetcher[g], server, legacy, artifact)
      BY DEF CacheInv
    <3>3. Locks(kind', fetcher'[g]) <=> cacheLock' = g
      BY <2>2, <3>1, <3>2
    <3>4. CASE artifact' = artifact
      BY <3>1, <3>2, <3>3, <3>4
    <3>5. CASE artifact' # artifact
      <4>1. /\ fetcher[g].pc \in {"idle", "failed", "using"}
            /\ fetcher[g].pc = "using" => kind \notin {"pinned", "unpinned", "channel"}
        BY <2>2, <3>2, <3>5 DEF Locks
      <4>2. ~(fetcher[g].pc = "using" /\ kind \in {"rustup", "payload"})
        <5> SUFFICES ASSUME fetcher[g].pc = "using", kind \in {"rustup", "payload"} PROVE FALSE
          OBVIOUS
        <5>1. g \in guards /\ artifact = fetcher[g].expected
          BY <3>2 DEF Holds
        <5>2. fetcher[g].expected \in Releases
          BY <3>2 DEF Placed
        <5> QED
          BY <2>2, <3>5, <5>1, <5>2, CacheContents
      <4>3. Holds(kind, fetcher[g], artifact', g \in guards)
        BY <4>1, <4>2 DEF Holds
      <4>4. Undisturbed(kind, fetcher[g], server, legacy, artifact')
        BY <3>2, <4>1 DEF Undisturbed
      <4> QED
        BY <3>1, <3>2, <3>3, <4>3, <4>4
    <3> QED
      BY <3>4, <3>5
  <2> QED
    BY <2>1, <2>2
<1> QED
  BY <1>3, <1>4 DEF CacheInv

(* A step under the lock, which it keeps.                                    *)
LEMMA CacheGoesOn ==
  ASSUME CacheInv, NEW f \in Fetchers, NEW next \in Attempts, fetcher' = [fetcher EXCEPT ![f] = next],
         Locks(kind, fetcher[f]), Locks(kind, next),
         UNCHANGED <<kind, server, legacy, cacheLock>>, artifact' \in Contents, sidecar' \in Contents,
         orphans' \in BOOLEAN, trouble' \in 0 .. MaxTrouble, guards' \in {guards, guards \cup {f}, guards \ {f}},
         \/ artifact' = artifact
         \/ kind \notin {"rustup", "payload"} \/ artifact = Absent \/ guards \subseteq {f},
         Placed(kind, next), Holds(kind, next, artifact', f \in guards'),
         Undisturbed(kind, next, server, legacy, artifact')
  PROVE  CacheInv'
<1>1. cacheLock = f /\ guards \subseteq Fetchers
  BY Attempting
<1>2. guards' \subseteq Fetchers /\ \A g \in Fetchers \ {f} : g \in guards' <=> g \in guards
  BY <1>1
<1>3. \A g \in Fetchers \ {f} : cacheLock' = g <=> cacheLock = g
  BY <1>1
<1> QED
  BY <1>1, <1>2, <1>3, CacheMoves

(* A step to a place where nothing is held.                                  *)
LEMMA CacheLeaves ==
  ASSUME CacheInv, NEW f \in Fetchers, NEW next \in Attempts, fetcher' = [fetcher EXCEPT ![f] = next],
         next.pc \in {"idle", "failed"},
         next.pc = "failed" /\ next.clean => kind \in {"pinned", "payload"} /\ server # next.expected,
         UNCHANGED <<kind, server, legacy>>, artifact' \in Contents, sidecar' \in Contents,
         orphans' \in BOOLEAN, trouble' \in 0 .. MaxTrouble, guards' \in {guards, guards \ {f}},
         cacheLock' = IF cacheLock = f THEN "nobody" ELSE cacheLock,
         \/ artifact' = artifact
         \/ cacheLock = f /\ (kind \notin {"rustup", "payload"} \/ artifact = Absent \/ guards \subseteq {f})
  PROVE  CacheInv'
<1>1. cacheLock \in Fetchers \cup {"nobody"} /\ guards \subseteq Fetchers
  BY Attempting
<1>2. guards' \subseteq Fetchers /\ \A g \in Fetchers \ {f} : g \in guards' <=> g \in guards
  BY <1>1
<1>3. /\ cacheLock' \in Fetchers \cup {"nobody"} /\ cacheLock' # f
      /\ \A g \in Fetchers \ {f} : cacheLock' = g <=> cacheLock = g
  BY <1>1, FetcherAssumption
<1>4. ~Locks(kind, next)
  BY DEF Locks
<1>5. Placed(kind, next) /\ Holds(kind, next, artifact', f \in guards')
  BY DEF Placed, Holds
<1>6. Undisturbed(kind, next, server, legacy, artifact')
  BY DEF Undisturbed
<1> QED
  BY <1>2, <1>3, <1>4, <1>5, <1>6, CacheMoves

(* An attempt at another place.                                              *)
LEMMA ToPlace ==
  ASSUME fetcher \in [Fetchers -> Attempts], NEW f \in Fetchers, NEW pc \in Stages
  PROVE  LET next == [fetcher[f] EXCEPT !.pc = pc] IN
         /\ next \in Attempts /\ next.pc = pc /\ next.expected = fetcher[f].expected
         /\ next.got = fetcher[f].got /\ (next.import <=> fetcher[f].import)
         /\ next.attempt = fetcher[f].attempt /\ (next.clean <=> fetcher[f].clean)
         /\ To(f, pc) => fetcher' = [fetcher EXCEPT ![f] = next]
BY DEF Attempts, To

(* The end of an attempt.                                                    *)
LEMMA FailStep ==
  ASSUME CacheInv, NEW f \in Fetchers, NEW clean \in BOOLEAN, Fail(f, clean),
         clean /\ fetcher[f].clean => kind \in {"pinned", "payload"} /\ server # fetcher[f].expected,
         UNCHANGED <<kind, server, legacy>>, artifact' \in Contents, sidecar' \in Contents,
         orphans' \in BOOLEAN, trouble' \in 0 .. MaxTrouble,
         \/ artifact' = artifact
         \/ cacheLock = f /\ (kind \notin {"rustup", "payload"} \/ artifact = Absent \/ guards \subseteq {f})
  PROVE  CacheInv'
<1> DEFINE next == [fetcher[f] EXCEPT !.pc = "failed", !.clean = fetcher[f].clean /\ clean]
<1>1. fetcher \in [Fetchers -> Attempts] /\ fetcher[f] \in Attempts
  BY Attempting
<1>2. /\ next \in Attempts /\ next.pc = "failed" /\ next.expected = fetcher[f].expected
      /\ next.clean <=> fetcher[f].clean /\ clean
  BY <1>1 DEF Attempts, Stages
<1>3. fetcher' = [fetcher EXCEPT ![f] = next]
  BY <1>1 DEF Fail, Attempts
<1>4. guards' = guards \ {f} /\ cacheLock' = IF cacheLock = f THEN "nobody" ELSE cacheLock
  BY DEF Fail
<1> HIDE DEF next
<1> QED
  BY <1>2, <1>3, <1>4, CacheLeaves

(* A new attempt.                                                            *)
LEMMA NewAttempt ==
  ASSUME NEW n \in 0 .. 1
  PROVE  /\ [NewFetcher EXCEPT !.attempt = n] \in Attempts /\ [NewFetcher EXCEPT !.attempt = n].pc = "idle"
         /\ NewFetcher \in Attempts /\ NewFetcher.pc = "idle"
<1>1. Absent \in Contents
  BY CacheContents
<1>2. 0 \in 0 .. 1 /\ "idle" \in Stages
  BY DEF Stages
<1>3. NewFetcher \in Attempts /\ NewFetcher.pc = "idle"
  BY <1>1, <1>2 DEF NewFetcher, Attempts
<1>4. [NewFetcher EXCEPT !.attempt = n] \in Attempts /\ [NewFetcher EXCEPT !.attempt = n].pc = "idle"
  BY <1>3 DEF Attempts
<1> QED
  BY <1>3, <1>4

-----------------------------------------------------------------------------
(* The steps *)

(* The lock is taken.                                                        *)
LEMMA AcquireStep ==
  ASSUME CacheInv, NEW f \in Fetchers, Acquire(f) PROVE CacheInv'
<1>1. PICK pc \in {"cleaning", "checksum", "look"}, expected \in {1, Absent} :
        /\ pc = "cleaning" => kind \in {"pinned", "unpinned"}
        /\ pc = "checksum" => kind = "rustup"
        /\ pc = "look" => kind \notin {"pinned", "unpinned", "rustup"}
        /\ kind = "payload" => expected = 1
        /\ fetcher' = [fetcher EXCEPT ![f] = [NewFetcher EXCEPT !.pc = pc, !.expected = expected,
                                                !.attempt = fetcher[f].attempt]]
  <2> DEFINE to == CASE Archive -> "cleaning" [] kind = "rustup" -> "checksum" [] OTHER -> "look"
             exp == IF kind \in {"pinned", "payload"} THEN 1 ELSE Absent
  <2>1. fetcher' = [fetcher EXCEPT ![f] = [NewFetcher EXCEPT !.pc = to, !.expected = exp,
                                             !.attempt = fetcher[f].attempt]]
    BY DEF Acquire
  <2>2. /\ to \in {"cleaning", "checksum", "look"}
        /\ to = "cleaning" => kind \in {"pinned", "unpinned"}
        /\ to = "checksum" => kind = "rustup"
        /\ to = "look" => kind \notin {"pinned", "unpinned", "rustup"}
    BY DEF Archive
  <2>3. exp \in {1, Absent} /\ (kind = "payload" => exp = 1)
    OBVIOUS
  <2> HIDE DEF to, exp
  <2> QED
    BY <2>1, <2>2, <2>3
<1> DEFINE next == [NewFetcher EXCEPT !.pc = pc, !.expected = expected, !.attempt = fetcher[f].attempt]
<1>2. /\ next \in Attempts /\ next.pc = pc /\ next.expected = expected /\ next.got = Absent
  <2>1. NewFetcher \in Attempts /\ fetcher[f] \in Attempts
    BY NewAttempt, Attempting
  <2>2. expected \in Contents /\ pc \in Stages
    BY CacheContents DEF Stages
  <2>3. NewFetcher.got = Absent
    BY DEF NewFetcher
  <2> QED
    BY <2>1, <2>2, <2>3 DEF Attempts
<1>3. fetcher' = [fetcher EXCEPT ![f] = next]
  BY <1>1
<1> HIDE DEF next
<1>4. /\ cacheLock = "nobody" /\ cacheLock' = f
      /\ UNCHANGED <<kind, server, legacy, trouble, artifact, sidecar, orphans, guards>>
  BY DEF Acquire, outside
<1>5. cacheLock' \in Fetchers \cup {"nobody"} /\ \A g \in Fetchers \ {f} : cacheLock' = g <=> cacheLock = g
  BY <1>4, FetcherAssumption
<1>6. Locks(kind, next) /\ Holds(kind, next, artifact', f \in guards')
  BY <1>2 DEF Locks, Holds
<1>7. Placed(kind, next)
  BY <1>1, <1>2, CacheContents DEF Placed
<1>8. Undisturbed(kind, next, server, legacy, artifact')
  BY <1>2 DEF Undisturbed
<1> QED
  BY <1>2, <1>3, <1>4, <1>5, <1>6, <1>7, <1>8, Attempting, CacheMoves

(* From one place to another, with nothing but what is known then.           *)
LEMMA CacheLooks ==
  ASSUME CacheInv, NEW f \in Fetchers, NEW pc \in Stages \ {"idle", "failed", "using"}, To(f, pc),
         fetcher[f].pc \notin {"idle", "failed"}, Locks(kind, fetcher[f]),
         UNCHANGED <<kind, server, legacy, trouble, sidecar, cacheLock>>, orphans' \in BOOLEAN,
         artifact' \in Contents,
         \/ artifact' = artifact
         \/ kind \notin {"rustup", "payload"} \/ artifact = Absent \/ guards \subseteq {f},
         guards' \in {guards, guards \cup {f}, guards \ {f}}, pc = "hashing" => f \in guards',
         Placed(kind, [fetcher[f] EXCEPT !.pc = pc]),
         Undisturbed(kind, [fetcher[f] EXCEPT !.pc = pc], server, legacy, artifact')
  PROVE  CacheInv'
<1> DEFINE next == [fetcher[f] EXCEPT !.pc = pc]
<1>1. next \in Attempts /\ next.pc = pc /\ fetcher' = [fetcher EXCEPT ![f] = next]
  BY Attempting, ToPlace
<1> HIDE DEF next
<1>2. Locks(kind, next) /\ Holds(kind, next, artifact', f \in guards')
  BY <1>1 DEF Locks, Holds
<1>3. Placed(kind, next) /\ Undisturbed(kind, next, server, legacy, artifact')
  BY DEF next
<1>4. sidecar' \in Contents /\ trouble' \in 0 .. MaxTrouble
  BY Attempting
<1> QED
  BY <1>1, <1>2, <1>3, <1>4, CacheGoesOn

(* The cleanup of what died, and the import of a legacy file.                *)
LEMMA CleaningSteps ==
  ASSUME CacheInv, NEW f \in Fetchers, CleanOrphans(f) \/ ImportLegacy(f) PROVE CacheInv'
<1>1. PICK pc \in {"legacy", "look", "importing"} :
        /\ To(f, pc) /\ fetcher[f].pc \in {"cleaning", "legacy"}
        /\ pc \in {"legacy", "importing"} => kind = "pinned"
        /\ pc = "importing" => legacy = fetcher[f].expected /\ legacy \in Releases
        /\ UNCHANGED <<kind, server, legacy, trouble, artifact, sidecar, cacheLock, guards>>
        /\ orphans' \in BOOLEAN
  <2>1. CASE CleanOrphans(f)
    BY <2>1 DEF CleanOrphans, At, outside
  <2>2. CASE ImportLegacy(f)
    <3>1. fetcher[f].pc = "legacy" /\ Placed(kind, fetcher[f]) /\ legacy \in Contents /\ orphans \in BOOLEAN
      BY <2>2, Attempting DEF ImportLegacy, At
    <3>2. kind = "pinned"
      BY <3>1 DEF Placed
    <3>3. UNCHANGED <<kind, server, legacy, trouble, artifact, sidecar, cacheLock, guards, orphans>>
      BY <2>2 DEF ImportLegacy, outside
    <3>4. CASE ArchiveMatches(f, legacy)
      <4>1. To(f, "importing") /\ legacy = fetcher[f].expected /\ legacy \in Releases
        BY <2>2, <3>4 DEF ImportLegacy, ArchiveMatches, WellFormed
      <4> QED
        BY <3>1, <3>2, <3>3, <4>1
    <3>5. CASE ~ArchiveMatches(f, legacy)
      BY <2>2, <3>1, <3>3, <3>5 DEF ImportLegacy
    <3> QED
      BY <3>4, <3>5
  <2> QED
    BY <2>1, <2>2
<1> DEFINE next == [fetcher[f] EXCEPT !.pc = pc]
<1>2. next.pc = pc /\ next.expected = fetcher[f].expected /\ pc \in Stages \ {"idle", "failed", "using"}
  BY Attempting, ToPlace DEF Stages
<1> HIDE DEF next
<1>3. Placed(kind, fetcher[f]) /\ Locks(kind, fetcher[f]) /\ kind \in {"pinned", "unpinned"} /\ artifact' \in Contents
  BY <1>1, Attempting DEF Placed, Locks
<1>4. Placed(kind, next)
  BY <1>1, <1>2, <1>3 DEF Placed
<1>5. Undisturbed(kind, next, server, legacy, artifact')
  BY <1>1, <1>2 DEF Undisturbed
<1> QED
  BY <1>1, <1>2, <1>3, <1>4, <1>5, CacheLooks DEF next

(* The copy of a legacy file.                                                *)
LEMMA CopyLocalStep ==
  ASSUME CacheInv, NEW f \in Fetchers, CopyLocal(f) PROVE CacheInv'
<1>1. /\ UNCHANGED <<kind, server, legacy, trouble, artifact, sidecar, orphans>> /\ fetcher[f].pc = "importing"
  BY DEF CopyLocal, At, outside
<1>2. /\ Placed(kind, fetcher[f]) /\ Locks(kind, fetcher[f]) /\ Undisturbed(kind, fetcher[f], server, legacy, artifact)
      /\ fetcher \in [Fetchers -> Attempts] /\ fetcher[f] \in Attempts /\ legacy \in Contents
  BY <1>1, Attempting DEF Locks
<1>3. artifact' \in Contents /\ sidecar' \in Contents /\ orphans' \in BOOLEAN /\ trouble' \in 0 .. MaxTrouble
  BY <1>1, Attempting
<1>4. CASE legacy = Absent
  <2>1. Fail(f, TRUE)
    BY <1>4 DEF CopyLocal
  <2>2. ~fetcher[f].clean
    BY <1>1, <1>2, <1>4, CacheContents DEF Undisturbed
  <2> QED
    BY <1>1, <1>3, <2>1, <2>2, FailStep
<1>5. CASE legacy # Absent
  <2> DEFINE next == [fetcher[f] EXCEPT !.pc = "receiving", !.got = legacy, !.import = TRUE]
  <2>1. /\ next \in Attempts /\ next.pc = "receiving" /\ next.got = legacy /\ next.import
        /\ next.expected = fetcher[f].expected /\ (next.clean <=> fetcher[f].clean)
    BY <1>2 DEF Attempts, Stages
  <2>2. fetcher' = [fetcher EXCEPT ![f] = next] /\ UNCHANGED <<cacheLock, guards>>
    BY <1>2, <1>5 DEF CopyLocal
  <2> HIDE DEF next
  <2>3. kind = "pinned"
    BY <1>1, <1>2 DEF Placed
  <2>4. Locks(kind, next) /\ Placed(kind, next) /\ Holds(kind, next, artifact', f \in guards')
    BY <2>1, <2>3 DEF Locks, Placed, Holds
  <2>5. Undisturbed(kind, next, server, legacy, artifact')
    BY <1>1, <1>2, <2>1 DEF Undisturbed
  <2> QED
    BY <1>1, <1>2, <1>3, <2>1, <2>2, <2>4, <2>5, CacheGoesOn
<1> QED
  BY <1>4, <1>5

(* The imported file is verified.                                            *)
LEMMA VerifyImportStep ==
  ASSUME CacheInv, NEW f \in Fetchers, VerifyImport(f) PROVE CacheInv'
<1>1. UNCHANGED <<kind, server, legacy, trouble, sidecar, orphans>> /\ fetcher[f].pc = "imported"
  BY DEF VerifyImport, At, outside
<1>2. /\ Placed(kind, fetcher[f]) /\ Locks(kind, fetcher[f]) /\ Undisturbed(kind, fetcher[f], server, legacy, artifact)
      /\ cacheLock = f /\ artifact \in Contents
      /\ sidecar' \in Contents /\ orphans' \in BOOLEAN /\ trouble' \in 0 .. MaxTrouble
  BY <1>1, Attempting DEF Locks
<1>3. kind = "pinned"
  BY <1>1, <1>2 DEF Placed
<1>4. CASE ArchiveMatches(f, artifact)
  <2>1. To(f, "look") /\ UNCHANGED <<artifact, cacheLock, guards>>
    BY <1>4 DEF VerifyImport
  <2> DEFINE next == [fetcher[f] EXCEPT !.pc = "look"]
  <2>2. next.pc = "look" /\ "look" \in Stages \ {"idle", "failed", "using"}
    BY Attempting, ToPlace DEF Stages
  <2> HIDE DEF next
  <2>3. Placed(kind, next) /\ Undisturbed(kind, next, server, legacy, artifact')
    BY <1>3, <2>2 DEF Placed, Undisturbed
  <2> QED
    BY <1>1, <1>2, <2>1, <2>2, <2>3, CacheLooks DEF next
<1>5. CASE ~ArchiveMatches(f, artifact)
  <2>1. artifact' = Absent /\ Fail(f, TRUE)
    BY <1>5 DEF VerifyImport
  <2>2. ~fetcher[f].clean
    BY <1>1, <1>2, <1>5 DEF Undisturbed, ArchiveMatches, WellFormed
  <2>3. artifact' \in Contents
    BY <2>1, CacheContents
  <2> QED
    BY <1>1, <1>2, <1>3, <2>1, <2>2, <2>3, FailStep
<1> QED
  BY <1>4, <1>5

(* A look at a cached archive.                                               *)
LEMMA LookAtArchiveStep ==
  ASSUME CacheInv, NEW f \in Fetchers, LookAtArchive(f) PROVE CacheInv'
<1>1. /\ UNCHANGED <<kind, server, legacy, trouble, artifact, sidecar, orphans, cacheLock, guards>>
      /\ fetcher[f].pc = "look" /\ kind \in {"pinned", "unpinned"}
  BY DEF LookAtArchive, At, outside, Archive
<1>2. Locks(kind, fetcher[f]) /\ artifact' \in Contents /\ orphans' \in BOOLEAN
  BY <1>1, Attempting DEF Locks
<1>3. PICK pc \in {"download", "open", "discard"} :
        /\ To(f, pc)
        /\ pc = "download" => artifact = Absent
        /\ pc = "open" => artifact \in Releases /\ (kind = "pinned" => artifact = fetcher[f].expected)
  <2>1. CASE artifact = Absent
    <3>1. ~ValidArchive(f, artifact)
      BY <2>1, CacheContents DEF ValidArchive, WellFormed
    <3> QED
      BY <2>1, <3>1 DEF LookAtArchive
  <2>2. CASE artifact # Absent /\ ValidArchive(f, artifact)
    BY <2>2 DEF LookAtArchive, ValidArchive, WellFormed
  <2>3. CASE artifact # Absent /\ ~ValidArchive(f, artifact)
    BY <2>3 DEF LookAtArchive
  <2> QED
    BY <2>1, <2>2, <2>3
<1> DEFINE next == [fetcher[f] EXCEPT !.pc = pc]
<1>4. /\ next.pc = pc /\ next.expected = fetcher[f].expected /\ pc \in Stages \ {"idle", "failed", "using"}
  BY Attempting, ToPlace DEF Stages
<1> HIDE DEF next
<1>5. Placed(kind, next)
  BY <1>1, <1>4 DEF Placed
<1>6. Undisturbed(kind, next, server, legacy, artifact')
  BY <1>1, <1>3, <1>4 DEF Undisturbed
<1> QED
  BY <1>1, <1>2, <1>3, <1>4, <1>5, <1>6, CacheLooks DEF next

(* An installer or a payload that is verified, and its lock given up.        *)
LEMMA OpenVerifiedStep ==
  ASSUME CacheInv, NEW f \in Fetchers, fetcher[f].pc \in {"look", "open", "recheck"},
         kind \in {"rustup", "payload"}, UNCHANGED <<kind, server, legacy, trouble, artifact, sidecar, orphans>>,
         NEW pc \in {"discard", "refresh", "refuse"}, OpenVerified(f, pc),
         artifact # fetcher[f].expected =>
           /\ pc = "refresh" => kind = "rustup" /\ (fetcher[f].clean => artifact = server)
           /\ pc = "refuse" /\ fetcher[f].clean => kind = "payload" /\ server # fetcher[f].expected
  PROVE  CacheInv'
<1>1. /\ Placed(kind, fetcher[f]) /\ Locks(kind, fetcher[f]) /\ cacheLock = f
      /\ fetcher \in [Fetchers -> Attempts] /\ fetcher[f] \in Attempts
      /\ artifact' \in Contents /\ sidecar' \in Contents /\ orphans' \in BOOLEAN /\ trouble' \in 0 .. MaxTrouble
      /\ guards \subseteq Fetchers
  BY Attempting DEF Locks
<1>2. fetcher[f].expected \in Releases
  BY <1>1 DEF Placed
<1>3. CASE artifact = fetcher[f].expected
  <2> DEFINE next == [fetcher[f] EXCEPT !.pc = "using"]
  <2>1. guards' = guards \cup {f} /\ To(f, "using") /\ cacheLock' = "nobody"
    BY <1>3 DEF OpenVerified, Verified
  <2>2. /\ next \in Attempts /\ next.pc = "using" /\ next.expected = fetcher[f].expected
        /\ fetcher' = [fetcher EXCEPT ![f] = next]
    BY <1>1, <2>1, ToPlace DEF Stages
  <2> HIDE DEF next
  <2>3. ~Locks(kind, next) /\ cacheLock' # f
    BY <2>1, <2>2, FetcherAssumption DEF Locks
  <2>4. Placed(kind, next) /\ Undisturbed(kind, next, server, legacy, artifact')
    BY <1>2, <2>2 DEF Placed, Undisturbed
  <2>5. Holds(kind, next, artifact', f \in guards')
    BY <1>3, <2>1, <2>2 DEF Holds
  <2>6. /\ cacheLock' \in Fetchers \cup {"nobody"} /\ \A g \in Fetchers \ {f} : cacheLock' = g <=> cacheLock = g
        /\ guards' \subseteq Fetchers /\ \A g \in Fetchers \ {f} : g \in guards' <=> g \in guards
    BY <1>1, <2>1, FetcherAssumption
  <2> QED
    BY <1>1, <2>2, <2>3, <2>4, <2>5, <2>6, CacheMoves
<1>4. CASE artifact # fetcher[f].expected
  <2>1. To(f, pc) /\ UNCHANGED <<cacheLock, guards>>
    BY <1>4 DEF OpenVerified
  <2> DEFINE next == [fetcher[f] EXCEPT !.pc = pc]
  <2>2. /\ next.pc = pc /\ next.expected = fetcher[f].expected /\ (next.clean <=> fetcher[f].clean)
        /\ pc \in Stages \ {"idle", "failed", "using"}
    BY <1>1, ToPlace DEF Stages
  <2> HIDE DEF next
  <2>3. Placed(kind, next)
    BY <1>2, <1>4, <2>2 DEF Placed
  <2>4. Undisturbed(kind, next, server, legacy, artifact')
    BY <1>4, <2>2 DEF Undisturbed
  <2> QED
    BY <1>1, <2>1, <2>2, <2>3, <2>4, CacheLooks DEF next
<1> QED
  BY <1>3, <1>4

(* Where an installer or a payload is opened.                                *)
LEMMA InstallerSteps ==
  ASSUME CacheInv, NEW f \in Fetchers, LookAtInstaller(f) \/ OpenDownloaded(f) \/ Recheck(f) PROVE CacheInv'
<1>1. /\ Placed(kind, fetcher[f]) /\ Undisturbed(kind, fetcher[f], server, legacy, artifact)
  BY Attempting
<1>2. CASE LookAtInstaller(f)
  BY <1>2, OpenVerifiedStep DEF LookAtInstaller, At, outside
<1>3. CASE OpenDownloaded(f)
  <2>1. /\ fetcher[f].pc = "open" /\ kind \in {"rustup", "payload"}
        /\ UNCHANGED <<kind, server, legacy, trouble, artifact, sidecar, orphans>>
        /\ OpenVerified(f, IF kind = "rustup" THEN "refresh" ELSE "refuse")
    BY <1>3 DEF OpenDownloaded, At, outside
  <2>2. fetcher[f].clean => artifact = server
    BY <1>1, <2>1 DEF Undisturbed
  <2>3. CASE kind = "rustup"
    <3>1. OpenVerified(f, "refresh")
      BY <2>1, <2>3
    <3> QED
      BY <2>1, <2>2, <2>3, <3>1, OpenVerifiedStep
  <2>4. CASE kind = "payload"
    <3>1. OpenVerified(f, "refuse")
      BY <2>1, <2>4
    <3> QED
      BY <2>1, <2>2, <2>4, <3>1, OpenVerifiedStep
  <2> QED
    BY <2>1, <2>3, <2>4
<1>4. CASE Recheck(f)
  <2>1. /\ fetcher[f].pc = "recheck" /\ OpenVerified(f, "refuse")
        /\ UNCHANGED <<kind, server, legacy, trouble, artifact, sidecar, orphans>>
    BY <1>4 DEF Recheck, At, outside
  <2>2. kind = "rustup" /\ (fetcher[f].clean => artifact = fetcher[f].expected)
    BY <1>1, <2>1 DEF Placed, Undisturbed
  <2> QED
    BY <2>1, <2>2, OpenVerifiedStep
<1> QED
  BY <1>2, <1>3, <1>4

(* The cached manifest, and the channel.                                     *)
LEMMA CachedManifestStep ==
  ASSUME CacheInv, NEW f \in Fetchers, CachedManifest(f) \/ RefreshChannel(f) PROVE CacheInv'
<1>1. /\ UNCHANGED <<kind, server, legacy, trouble, artifact, sidecar, orphans, guards>>
      /\ fetcher[f].pc = "look" /\ kind \in {"manifest", "channel"}
  BY DEF CachedManifest, RefreshChannel, At, outside
<1>2. /\ Locks(kind, fetcher[f]) /\ cacheLock = f /\ fetcher \in [Fetchers -> Attempts] /\ fetcher[f] \in Attempts
      /\ artifact \in Contents /\ artifact' \in Contents /\ sidecar' \in Contents /\ orphans' \in BOOLEAN
      /\ trouble' \in 0 .. MaxTrouble /\ guards' \subseteq Fetchers
  BY <1>1, Attempting DEF Locks
<1>3. CASE CachedManifest(f) /\ WellFormed(artifact) /\ sidecar = artifact
  <2> DEFINE next == [fetcher[f] EXCEPT !.pc = "using", !.got = artifact]
  <2>1. fetcher' = [fetcher EXCEPT ![f] = next] /\ cacheLock' = "nobody" /\ kind = "manifest"
    BY <1>2, <1>3 DEF CachedManifest
  <2>2. next \in Attempts /\ next.pc = "using" /\ next.got = artifact
    BY <1>2 DEF Attempts, Stages
  <2> HIDE DEF next
  <2>3. ~Locks(kind, next) /\ cacheLock' # f
    BY <2>1, <2>2, FetcherAssumption DEF Locks
  <2>4. Placed(kind, next) /\ Undisturbed(kind, next, server, legacy, artifact') /\ Holds(kind, next, artifact', f \in guards')
    BY <1>3, <2>1, <2>2 DEF Placed, Undisturbed, Holds, WellFormed
  <2>5. cacheLock' \in Fetchers \cup {"nobody"} /\ \A g \in Fetchers \ {f} : cacheLock' = g <=> cacheLock = g
    BY <1>2, <2>1, FetcherAssumption
  <2> QED
    BY <1>1, <1>2, <2>1, <2>2, <2>3, <2>4, <2>5, CacheMoves
<1>4. CASE ~(CachedManifest(f) /\ WellFormed(artifact) /\ sidecar = artifact)
  <2>1. To(f, "download") /\ UNCHANGED cacheLock
    BY <1>4 DEF CachedManifest, RefreshChannel
  <2> DEFINE next == [fetcher[f] EXCEPT !.pc = "download"]
  <2>2. next.pc = "download" /\ "download" \in Stages \ {"idle", "failed", "using"}
    BY <1>2, ToPlace DEF Stages
  <2> HIDE DEF next
  <2>3. Placed(kind, next) /\ Undisturbed(kind, next, server, legacy, artifact')
    BY <1>1, <2>2 DEF Placed, Undisturbed
  <2> QED
    BY <1>1, <1>2, <2>1, <2>2, <2>3, CacheLooks DEF next
<1> QED
  BY <1>3, <1>4

(* What does not verify is removed before the download.                      *)
LEMMA DiscardStep ==
  ASSUME CacheInv, NEW f \in Fetchers, Discard(f) PROVE CacheInv'
<1>1. UNCHANGED <<kind, server, legacy, trouble, sidecar, orphans>> /\ fetcher[f].pc = "discard"
  BY DEF Discard, At, outside
<1>2. /\ Placed(kind, fetcher[f]) /\ Locks(kind, fetcher[f]) /\ cacheLock = f
      /\ fetcher \in [Fetchers -> Attempts] /\ fetcher[f] \in Attempts /\ artifact \in Contents
      /\ sidecar' \in Contents /\ orphans' \in BOOLEAN /\ trouble' \in 0 .. MaxTrouble
  BY <1>1, Attempting DEF Locks
<1>3. CASE artifact = Absent \/ Removable(f)
  <2>1. artifact' = Absent /\ To(f, "download") /\ UNCHANGED <<cacheLock, guards>>
    BY <1>3 DEF Discard
  <2> DEFINE next == [fetcher[f] EXCEPT !.pc = "download"]
  <2>2. /\ next.pc = "download" /\ next.expected = fetcher[f].expected
        /\ "download" \in Stages \ {"idle", "failed", "using"}
    BY <1>2, ToPlace DEF Stages
  <2> HIDE DEF next
  <2>3. Placed(kind, next) /\ Undisturbed(kind, next, server, legacy, artifact')
    BY <1>1, <1>2, <2>1, <2>2 DEF Placed, Undisturbed
  <2>4. artifact' \in Contents /\ (artifact = Absent \/ guards \subseteq {f})
    BY <1>3, <2>1, CacheContents DEF Removable
  <2> QED
    BY <1>1, <1>2, <2>1, <2>2, <2>3, <2>4, CacheLooks DEF next
<1>4. CASE ~(artifact = Absent \/ Removable(f))
  <2>1. artifact' = artifact /\ Fail(f, FALSE)
    BY <1>4 DEF Discard
  <2> QED
    BY <1>1, <1>2, <2>1, FailStep
<1> QED
  BY <1>3, <1>4

(* The source answers.                                                       *)
LEMMA DownloadStep ==
  ASSUME CacheInv, NEW f \in Fetchers, Download(f) PROVE CacheInv'
<1>1. UNCHANGED <<kind, server, legacy, trouble, artifact, sidecar, orphans>> /\ fetcher[f].pc = "download"
  BY DEF Download, At, outside
<1>2. /\ Placed(kind, fetcher[f]) /\ Locks(kind, fetcher[f]) /\ Undisturbed(kind, fetcher[f], server, legacy, artifact)
      /\ fetcher \in [Fetchers -> Attempts] /\ fetcher[f] \in Attempts /\ server \in Releases
      /\ artifact' \in Contents /\ sidecar' \in Contents /\ orphans' \in BOOLEAN /\ trouble' \in 0 .. MaxTrouble
  BY <1>1, Attempting DEF Locks
<1>3. CASE artifact # Absent /\ kind \notin {"manifest", "channel"}
  <2>1. Fail(f, TRUE) /\ ~fetcher[f].clean
    BY <1>1, <1>2, <1>3 DEF Download, Undisturbed
  <2> QED
    BY <1>1, <1>2, <2>1, FailStep
<1>4. CASE ~(artifact # Absent /\ kind \notin {"manifest", "channel"})
  <2> DEFINE next == [fetcher[f] EXCEPT !.pc = "receiving", !.got = server, !.import = FALSE]
  <2>1. /\ next \in Attempts /\ next.pc = "receiving" /\ next.got = server /\ ~next.import
        /\ next.expected = fetcher[f].expected
    BY <1>2, CacheContents DEF Attempts, Stages
  <2>2. fetcher' = [fetcher EXCEPT ![f] = next] /\ UNCHANGED <<cacheLock, guards>>
    BY <1>2, <1>4 DEF Download
  <2> HIDE DEF next
  <2>3. Locks(kind, next) /\ Holds(kind, next, artifact', f \in guards')
    BY <2>1 DEF Locks, Holds
  <2>4. Placed(kind, next)
    BY <1>1, <1>2, <2>1 DEF Placed
  <2>5. Undisturbed(kind, next, server, legacy, artifact')
    BY <2>1 DEF Undisturbed
  <2> QED
    BY <1>1, <1>2, <2>1, <2>2, <2>3, <2>4, <2>5, CacheGoesOn
<1> QED
  BY <1>3, <1>4

(* What was received is renamed to the artifact.                             *)
LEMMA PublishStreamStep ==
  ASSUME CacheInv, NEW f \in Fetchers, PublishStream(f) PROVE CacheInv'
<1>1. UNCHANGED <<kind, server, legacy, trouble, sidecar, orphans>> /\ fetcher[f].pc = "receiving"
  BY DEF PublishStream, At, outside
<1>2. /\ Placed(kind, fetcher[f]) /\ Locks(kind, fetcher[f]) /\ Undisturbed(kind, fetcher[f], server, legacy, artifact)
      /\ cacheLock = f /\ fetcher \in [Fetchers -> Attempts] /\ fetcher[f] \in Attempts /\ server \in Releases
      /\ kind \in Kinds /\ artifact \in Contents
      /\ sidecar' \in Contents /\ orphans' \in BOOLEAN /\ trouble' \in 0 .. MaxTrouble
  BY <1>1, Attempting DEF Locks
<1>3. CASE artifact = Absent \/ Removable(f)
  <2>1. PICK pc \in {"imported", "record", "using", "open"} :
          /\ To(f, pc)
          /\ pc = "imported" <=> fetcher[f].import
          /\ pc = "record" => kind = "manifest"
          /\ pc = "using" => kind = "channel"
          /\ pc = "open" => kind \notin {"manifest", "channel"}
    <3>1. fetcher[f].import => kind = "pinned"
      BY <1>1, <1>2 DEF Placed
    <3>2. CASE fetcher[f].import
      <4>1. To(f, "imported")
        BY <1>3, <3>1, <3>2 DEF PublishStream
      <4> QED
        BY <3>2, <4>1
    <3>3. CASE ~fetcher[f].import /\ kind = "manifest"
      BY <1>3, <3>3 DEF PublishStream
    <3>4. CASE ~fetcher[f].import /\ kind = "channel"
      BY <1>3, <3>4 DEF PublishStream
    <3>5. CASE ~fetcher[f].import /\ kind \notin {"manifest", "channel"}
      BY <1>3, <3>5 DEF PublishStream
    <3> QED
      BY <3>2, <3>3, <3>4, <3>5
  <2>2. artifact' = fetcher[f].got /\ UNCHANGED <<cacheLock, guards>>
    BY <1>3 DEF PublishStream
  <2> DEFINE next == [fetcher[f] EXCEPT !.pc = pc]
  <2>3. /\ next \in Attempts /\ next.pc = pc /\ next.expected = fetcher[f].expected /\ next.got = fetcher[f].got
        /\ next.clean <=> fetcher[f].clean
        /\ fetcher' = [fetcher EXCEPT ![f] = next]
    <3>1. pc \in Stages
      BY <2>1 DEF Stages
    <3>2. To(f, pc)
      BY <2>1
    <3> QED
      BY <1>2, <3>1, <3>2, ToPlace
  <2> HIDE DEF next
  <2>4. artifact' \in Contents /\ (artifact = Absent \/ guards \subseteq {f})
    BY <1>2, <1>3, <2>2 DEF Removable, Attempts
  <2>5. Locks(kind, next) /\ Holds(kind, next, artifact', f \in guards')
    BY <2>1, <2>3 DEF Locks, Holds
  <2>6. Placed(kind, next)
    BY <1>1, <1>2, <2>1, <2>3 DEF Placed
  <2>7. Undisturbed(kind, next, server, legacy, artifact')
    BY <1>1, <1>2, <2>1, <2>2, <2>3 DEF Undisturbed
  <2> QED
    BY <1>1, <1>2, <2>2, <2>3, <2>4, <2>5, <2>6, <2>7, CacheGoesOn
<1>4. CASE ~(artifact = Absent \/ Removable(f))
  <2>1. artifact' = artifact /\ Fail(f, FALSE)
    BY <1>4 DEF PublishStream
  <2> QED
    BY <1>1, <1>2, <2>1, FailStep
<1> QED
  BY <1>3, <1>4

(* The digest of a manifest.                                                 *)
LEMMA RecordDigestStep ==
  ASSUME CacheInv, NEW f \in Fetchers, RecordDigest(f) PROVE CacheInv'
<1>1. /\ UNCHANGED <<kind, server, legacy, trouble, artifact, orphans, guards>> /\ fetcher[f].pc = "record"
      /\ sidecar' = fetcher[f].got /\ To(f, "using") /\ cacheLock' = "nobody"
  BY DEF RecordDigest, At, outside
<1>2. /\ Placed(kind, fetcher[f]) /\ Locks(kind, fetcher[f]) /\ cacheLock = f
      /\ fetcher \in [Fetchers -> Attempts] /\ fetcher[f] \in Attempts
      /\ artifact' \in Contents /\ orphans' \in BOOLEAN /\ trouble' \in 0 .. MaxTrouble
      /\ cacheLock \in Fetchers \cup {"nobody"} /\ guards' \subseteq Fetchers
  BY <1>1, Attempting DEF Locks
<1>3. kind = "manifest" /\ fetcher[f].got \in Releases /\ sidecar' \in Contents
  BY <1>1, <1>2 DEF Placed, Attempts
<1> DEFINE next == [fetcher[f] EXCEPT !.pc = "using"]
<1>4. /\ next \in Attempts /\ next.pc = "using" /\ next.got = fetcher[f].got
      /\ fetcher' = [fetcher EXCEPT ![f] = next]
  BY <1>1, <1>2, ToPlace DEF Stages
<1> HIDE DEF next
<1>5. ~Locks(kind, next) /\ cacheLock' # f
  BY <1>1, <1>3, <1>4, FetcherAssumption DEF Locks
<1>6. Placed(kind, next) /\ Holds(kind, next, artifact', f \in guards') /\ Undisturbed(kind, next, server, legacy, artifact')
  BY <1>3, <1>4 DEF Placed, Holds, Undisturbed
<1>7. cacheLock' \in Fetchers \cup {"nobody"} /\ \A g \in Fetchers \ {f} : cacheLock' = g <=> cacheLock = g
  BY <1>1, <1>2, FetcherAssumption
<1> QED
  BY <1>1, <1>2, <1>3, <1>4, <1>5, <1>6, <1>7, CacheMoves

(* A step that fails a call or dies counts as trouble.                       *)
LEMMA Troubles ==
  ASSUME trouble \in 0 .. MaxTrouble, trouble < MaxTrouble, trouble' = trouble + 1
  PROVE  trouble' \in 0 .. MaxTrouble
BY ReleaseAssumption

(* A channel that cannot be refreshed.                                       *)
LEMMA ChannelFallbackStep ==
  ASSUME CacheInv, NEW f \in Fetchers, ChannelFallback(f) PROVE CacheInv'
<1>1. /\ UNCHANGED <<kind, server, legacy, artifact, sidecar, orphans>> /\ kind = "channel"
      /\ fetcher[f].pc \in {"download", "receiving"}
  BY DEF ChannelFallback
<1>2. /\ Locks(kind, fetcher[f]) /\ fetcher \in [Fetchers -> Attempts] /\ fetcher[f] \in Attempts
      /\ artifact' \in Contents /\ artifact \in Contents /\ sidecar' \in Contents /\ orphans' \in BOOLEAN
  BY <1>1, Attempting DEF Locks
<1>3. trouble' \in 0 .. MaxTrouble
  BY Attempting, Troubles DEF ChannelFallback
<1>4. CASE WellFormed(artifact)
  <2> DEFINE next == [fetcher[f] EXCEPT !.pc = "using", !.got = artifact]
  <2>1. next \in Attempts /\ next.pc = "using" /\ next.got = artifact
    BY <1>2 DEF Attempts, Stages
  <2>2. fetcher' = [fetcher EXCEPT ![f] = next] /\ UNCHANGED <<cacheLock, guards>>
    BY <1>2, <1>4 DEF ChannelFallback
  <2> HIDE DEF next
  <2>3. /\ Locks(kind, next) /\ Placed(kind, next) /\ Holds(kind, next, artifact', f \in guards')
        /\ Undisturbed(kind, next, server, legacy, artifact')
    BY <1>1, <1>4, <2>1 DEF Locks, Placed, Holds, Undisturbed, WellFormed
  <2> QED
    BY <1>1, <1>2, <1>3, <2>1, <2>2, <2>3, CacheGoesOn
<1>5. CASE ~WellFormed(artifact)
  <2>1. Fail(f, FALSE)
    BY <1>5 DEF ChannelFallback
  <2> QED
    BY <1>1, <1>2, <1>3, <2>1, FailStep
<1> QED
  BY <1>4, <1>5

(* The guard of an archive.                                                  *)
LEMMA OpenGuardStep ==
  ASSUME CacheInv, NEW f \in Fetchers, OpenGuard(f) PROVE CacheInv'
<1>1. /\ UNCHANGED <<kind, server, legacy, trouble, artifact, sidecar, orphans>> /\ fetcher[f].pc = "open"
      /\ kind \in {"pinned", "unpinned"}
  BY DEF OpenGuard, At, outside, Archive
<1>2. /\ Placed(kind, fetcher[f]) /\ Locks(kind, fetcher[f]) /\ Undisturbed(kind, fetcher[f], server, legacy, artifact)
      /\ fetcher \in [Fetchers -> Attempts] /\ fetcher[f] \in Attempts
      /\ artifact' \in Contents /\ sidecar' \in Contents /\ orphans' \in BOOLEAN /\ trouble' \in 0 .. MaxTrouble
  BY <1>1, Attempting DEF Locks
<1>3. CASE artifact = Absent
  <2>1. Fail(f, TRUE) /\ ~fetcher[f].clean
    BY <1>1, <1>2, <1>3, CacheContents DEF OpenGuard, Undisturbed
  <2> QED
    BY <1>1, <1>2, <2>1, FailStep
<1>4. CASE artifact # Absent
  <2>1. guards' = guards \cup {f} /\ To(f, "hashing") /\ UNCHANGED cacheLock
    BY <1>4 DEF OpenGuard
  <2> DEFINE next == [fetcher[f] EXCEPT !.pc = "hashing"]
  <2>2. /\ next.pc = "hashing" /\ next.expected = fetcher[f].expected /\ (next.clean <=> fetcher[f].clean)
        /\ "hashing" \in Stages \ {"idle", "failed", "using"}
    BY <1>2, ToPlace DEF Stages
  <2> HIDE DEF next
  <2>3. Placed(kind, next)
    BY <1>1, <2>2 DEF Placed
  <2>4. Undisturbed(kind, next, server, legacy, artifact')
    BY <1>1, <1>2, <2>2 DEF Undisturbed
  <2> QED
    BY <1>1, <1>2, <2>1, <2>2, <2>3, <2>4, CacheLooks DEF next
<1> QED
  BY <1>3, <1>4

(* The archive is hashed under its guard.                                    *)
LEMMA GuardedDigestStep ==
  ASSUME CacheInv, NEW f \in Fetchers, GuardedDigest(f) PROVE CacheInv'
<1>1. UNCHANGED <<kind, server, legacy, trouble, artifact, sidecar, orphans, cacheLock>> /\ fetcher[f].pc = "hashing"
  BY DEF GuardedDigest, At, outside
<1>2. /\ Placed(kind, fetcher[f]) /\ Locks(kind, fetcher[f]) /\ Undisturbed(kind, fetcher[f], server, legacy, artifact)
      /\ Holds(kind, fetcher[f], artifact, f \in guards)
      /\ fetcher \in [Fetchers -> Attempts] /\ fetcher[f] \in Attempts
      /\ artifact' \in Contents /\ sidecar' \in Contents /\ orphans' \in BOOLEAN /\ trouble' \in 0 .. MaxTrouble
  BY <1>1, Attempting DEF Locks
<1>3. kind \in {"pinned", "unpinned"} /\ f \in guards
  BY <1>1, <1>2 DEF Placed, Holds
<1>4. CASE ValidArchive(f, artifact)
  <2>1. To(f, "using") /\ UNCHANGED guards
    BY <1>4 DEF GuardedDigest
  <2> DEFINE next == [fetcher[f] EXCEPT !.pc = "using"]
  <2>2. /\ next \in Attempts /\ next.pc = "using" /\ next.expected = fetcher[f].expected
        /\ fetcher' = [fetcher EXCEPT ![f] = next]
    BY <1>2, <2>1, ToPlace DEF Stages
  <2> HIDE DEF next
  <2>3. Locks(kind, next) /\ Placed(kind, next) /\ Undisturbed(kind, next, server, legacy, artifact')
    BY <1>3, <2>2 DEF Locks, Placed, Undisturbed
  <2>4. Holds(kind, next, artifact', f \in guards')
    BY <1>1, <1>3, <1>4, <2>1, <2>2 DEF Holds, ValidArchive, WellFormed
  <2> QED
    BY <1>1, <1>2, <2>1, <2>2, <2>3, <2>4, CacheGoesOn
<1>5. CASE ~ValidArchive(f, artifact)
  <2>1. To(f, "refuse") /\ guards' = guards \ {f}
    BY <1>5 DEF GuardedDigest
  <2> DEFINE next == [fetcher[f] EXCEPT !.pc = "refuse"]
  <2>2. /\ next.pc = "refuse" /\ next.expected = fetcher[f].expected /\ (next.clean <=> fetcher[f].clean)
        /\ "refuse" \in Stages \ {"idle", "failed", "using"}
    BY <1>2, ToPlace DEF Stages
  <2> HIDE DEF next
  <2>3. Placed(kind, next)
    BY <1>3, <2>2 DEF Placed
  <2>4. fetcher[f].clean => kind = "pinned" /\ server # fetcher[f].expected
    BY <1>1, <1>2, <1>3, <1>5 DEF Undisturbed, ValidArchive, WellFormed
  <2>5. Undisturbed(kind, next, server, legacy, artifact')
    BY <2>2, <2>4 DEF Undisturbed
  <2> QED
    BY <1>1, <1>2, <2>1, <2>2, <2>3, <2>5, CacheLooks DEF next
<1> QED
  BY <1>4, <1>5

(* What does not verify is removed.                                          *)
LEMMA RefuseStep ==
  ASSUME CacheInv, NEW f \in Fetchers, Refuse(f) PROVE CacheInv'
<1>1. /\ UNCHANGED <<kind, server, legacy, trouble, sidecar, orphans>> /\ fetcher[f].pc = "refuse" /\ Fail(f, TRUE)
      /\ artifact' = IF Removable(f) THEN Absent ELSE artifact
  BY DEF Refuse, At, outside
<1>2. /\ Undisturbed(kind, fetcher[f], server, legacy, artifact) /\ cacheLock = f /\ artifact \in Contents
      /\ sidecar' \in Contents /\ orphans' \in BOOLEAN /\ trouble' \in 0 .. MaxTrouble
  BY <1>1, Attempting DEF Locks
<1>3. fetcher[f].clean => kind \in {"pinned", "payload"} /\ server # fetcher[f].expected
  BY <1>1, <1>2 DEF Undisturbed
<1>4. artifact' \in Contents /\ (artifact' = artifact \/ guards \subseteq {f})
  BY <1>1, <1>2, CacheContents DEF Removable
<1> QED
  BY <1>1, <1>2, <1>3, <1>4, FailStep

(* The cached checksum of the rustup installer, and a fresh one.             *)
LEMMA ChecksumSteps ==
  ASSUME CacheInv, NEW f \in Fetchers, ReadChecksum(f) \/ RefreshChecksum(f) PROVE CacheInv'
<1>1. UNCHANGED <<kind, server, legacy, trouble, artifact, orphans, cacheLock, guards>>
  BY DEF ReadChecksum, RefreshChecksum, outside
<1>2. /\ Placed(kind, fetcher[f]) /\ Undisturbed(kind, fetcher[f], server, legacy, artifact)
      /\ fetcher \in [Fetchers -> Attempts] /\ fetcher[f] \in Attempts
      /\ fetcher[f].pc \in {"checksum", "refresh"} => Locks(kind, fetcher[f])
      /\ server \in Releases /\ sidecar \in Contents
      /\ artifact' \in Contents /\ orphans' \in BOOLEAN /\ trouble' \in 0 .. MaxTrouble
  BY <1>1, Attempting DEF Locks
<1>3. CASE ReadChecksum(f)
  <2>1. fetcher[f].pc = "checksum" /\ sidecar' = sidecar /\ kind = "rustup" /\ fetcher[f].got = Absent
    BY <1>2, <1>3 DEF ReadChecksum, At, Placed
  <2>2. CASE WellFormed(sidecar)
    <3> DEFINE next == [fetcher[f] EXCEPT !.pc = "look", !.expected = sidecar]
    <3>1. next \in Attempts /\ next.pc = "look" /\ next.expected = sidecar
      BY <1>2 DEF Attempts, Stages
    <3>2. fetcher' = [fetcher EXCEPT ![f] = next]
      BY <1>2, <1>3, <2>2 DEF ReadChecksum
    <3> HIDE DEF next
    <3>3. /\ Locks(kind, next) /\ Placed(kind, next) /\ Holds(kind, next, artifact', f \in guards')
          /\ Undisturbed(kind, next, server, legacy, artifact')
      BY <2>1, <2>2, <3>1 DEF Locks, Placed, Holds, Undisturbed, WellFormed
    <3> QED
      BY <1>1, <1>2, <2>1, <3>1, <3>2, <3>3, CacheGoesOn
  <2>3. CASE ~WellFormed(sidecar)
    <3>1. To(f, "refresh")
      BY <1>3, <2>3 DEF ReadChecksum, To
    <3> DEFINE next == [fetcher[f] EXCEPT !.pc = "refresh"]
    <3>2. next \in Attempts /\ next.pc = "refresh" /\ next.got = Absent /\ fetcher' = [fetcher EXCEPT ![f] = next]
      <4>1. "refresh" \in Stages
        BY DEF Stages
      <4> QED
        BY <1>2, <2>1, <3>1, <4>1, ToPlace
    <3> HIDE DEF next
    <3>3. /\ Locks(kind, next) /\ Placed(kind, next) /\ Holds(kind, next, artifact', f \in guards')
          /\ Undisturbed(kind, next, server, legacy, artifact')
      BY <2>1, <3>2 DEF Locks, Placed, Holds, Undisturbed
    <3> QED
      BY <1>1, <1>2, <2>1, <3>2, <3>3, CacheGoesOn
  <2> QED
    BY <2>2, <2>3
<1>4. CASE RefreshChecksum(f)
  <2>1. fetcher[f].pc = "refresh" /\ sidecar' = server /\ kind = "rustup"
    BY <1>2, <1>4 DEF RefreshChecksum, At, Placed
  <2> DEFINE pc == IF fetcher[f].got = Absent THEN "look" ELSE "recheck"
             next == [fetcher[f] EXCEPT !.expected = server, !.pc = pc]
  <2>2. /\ next \in Attempts /\ next.pc = pc /\ next.expected = server /\ (next.clean <=> fetcher[f].clean)
    BY <1>2, CacheContents DEF Attempts, Stages
  <2>3. fetcher' = [fetcher EXCEPT ![f] = next]
    BY <1>2, <1>4 DEF RefreshChecksum
  <2>4. pc \in {"look", "recheck"} /\ (pc = "recheck" => fetcher[f].got # Absent)
    OBVIOUS
  <2> HIDE DEF next, pc
  <2>5. Locks(kind, next) /\ Placed(kind, next) /\ Holds(kind, next, artifact', f \in guards')
    BY <1>2, <2>1, <2>2, <2>4 DEF Locks, Placed, Holds
  <2>6. Undisturbed(kind, next, server, legacy, artifact')
    BY <1>1, <1>2, <2>1, <2>2, <2>4 DEF Undisturbed
  <2>7. sidecar' \in Contents
    BY <1>2, <2>1, CacheContents
  <2> QED
    BY <1>1, <1>2, <2>1, <2>2, <2>3, <2>5, <2>6, <2>7, CacheGoesOn
<1> QED
  BY <1>3, <1>4

(* The end of a use, of an attempt and of a process.                         *)
LEMMA DoneStep ==
  ASSUME CacheInv, NEW f \in Fetchers, Done(f) \/ TryAgain(f) \/ Dies(f) PROVE CacheInv'
<1>1. /\ UNCHANGED <<kind, server, legacy, artifact, sidecar>> /\ fetcher' = [fetcher EXCEPT ![f] = NewFetcher]
  BY DEF Done, TryAgain, Dies, outside
<1>2. /\ artifact' \in Contents /\ sidecar' \in Contents /\ orphans \in BOOLEAN /\ trouble \in 0 .. MaxTrouble
      /\ Locks(kind, fetcher[f]) <=> cacheLock = f
  BY <1>1, Attempting
<1>3. NewFetcher \in Attempts /\ NewFetcher.pc = "idle"
  BY NewAttempt
<1>4. orphans' \in BOOLEAN
  BY <1>2 DEF Done, TryAgain, Dies
<1>5. trouble' \in 0 .. MaxTrouble
  BY <1>2, Troubles DEF Done, TryAgain, Dies, outside
<1>6. guards' \in {guards, guards \ {f}} /\ cacheLock' = IF cacheLock = f THEN "nobody" ELSE cacheLock
  <2>1. CASE Done(f) \/ Dies(f)
    BY <2>1 DEF Done, Dies
  <2>2. CASE TryAgain(f)
    BY <1>2, <2>2 DEF TryAgain, At, Locks
  <2> QED
    BY <2>1, <2>2
<1> QED
  BY <1>1, <1>2, <1>3, <1>4, <1>5, <1>6, CacheLeaves

(* Staging that fails, and the entry that is cleared then.                   *)
LEMMA StagingFailsStep ==
  ASSUME CacheInv, NEW f \in Fetchers, StagingFails(f) PROVE CacheInv'
<1>1. /\ UNCHANGED <<kind, server, legacy, trouble, artifact, sidecar, orphans>> /\ fetcher[f].pc = "using"
      /\ kind \in {"pinned", "unpinned"}
  BY DEF StagingFails, At, outside, Archive
<1>2. /\ Locks(kind, fetcher[f])
      /\ artifact' \in Contents /\ sidecar' \in Contents /\ orphans' \in BOOLEAN /\ trouble' \in 0 .. MaxTrouble
  BY <1>1, Attempting DEF Locks
<1>3. CASE fetcher[f].attempt = 0
  <2>1. To(f, "clearing") /\ guards' = guards \ {f} /\ UNCHANGED cacheLock
    BY <1>3 DEF StagingFails
  <2> DEFINE next == [fetcher[f] EXCEPT !.pc = "clearing"]
  <2>2. next.pc = "clearing" /\ "clearing" \in Stages \ {"idle", "failed", "using"}
    BY Attempting, ToPlace DEF Stages
  <2> HIDE DEF next
  <2>3. Placed(kind, next) /\ Undisturbed(kind, next, server, legacy, artifact')
    BY <1>1, <2>2 DEF Placed, Undisturbed
  <2> QED
    BY <1>1, <1>2, <2>1, <2>2, <2>3, CacheLooks DEF next
<1>4. CASE fetcher[f].attempt # 0
  <2>1. Fail(f, FALSE)
    BY <1>4 DEF StagingFails
  <2> QED
    BY <1>1, <1>2, <2>1, FailStep
<1> QED
  BY <1>3, <1>4

(* The entry of an archive is cleared.                                       *)
LEMMA ClearStep ==
  ASSUME CacheInv, NEW f \in Fetchers, Clear(f) PROVE CacheInv'
<1>1. /\ UNCHANGED <<kind, server, legacy, trouble, sidecar, guards>> /\ fetcher[f].pc = "clearing"
      /\ artifact' = Absent /\ orphans' = FALSE /\ cacheLock' = "nobody"
      /\ fetcher' = [fetcher EXCEPT ![f] = [NewFetcher EXCEPT !.attempt = 1]]
  BY DEF Clear, At, outside
<1>2. /\ Placed(kind, fetcher[f]) /\ cacheLock = f /\ sidecar' \in Contents /\ trouble' \in 0 .. MaxTrouble
      /\ artifact' \in Contents
  BY <1>1, Attempting, CacheContents DEF Locks
<1>3. kind \in {"pinned", "unpinned"}
  BY <1>1, <1>2 DEF Placed
<1>4. [NewFetcher EXCEPT !.attempt = 1] \in Attempts /\ [NewFetcher EXCEPT !.attempt = 1].pc = "idle"
  BY NewAttempt
<1> QED
  BY <1>1, <1>2, <1>3, <1>4, CacheLeaves

(* A call that fails.                                                        *)
LEMMA AnyCallFailsStep ==
  ASSUME CacheInv, NEW f \in Fetchers, AnyCallFails(f) PROVE CacheInv'
<1>1. UNCHANGED <<kind, server, legacy, artifact>> /\ CallFails(f)
  BY DEF AnyCallFails
<1>2. artifact' \in Contents /\ sidecar \in Contents /\ orphans \in BOOLEAN
  BY <1>1, Attempting
<1>3. sidecar' \in Contents /\ orphans' \in BOOLEAN
  BY <1>2, CacheContents DEF AnyCallFails
<1>4. trouble' \in 0 .. MaxTrouble /\ Fail(f, FALSE)
  BY <1>1, Attempting, Troubles DEF CallFails
<1> QED
  BY <1>1, <1>2, <1>3, <1>4, FailStep

(* A release, or a change of a file from outside, disturbs every attempt.    *)
LEMMA DisturbedStep ==
  ASSUME CacheInv, NewRelease \/ Meddle PROVE CacheInv'
<1>1. UNCHANGED <<kind, orphans, cacheLock, guards>> /\ Disturbed
  BY DEF NewRelease, Meddle
<1>2. /\ fetcher \in [Fetchers -> Attempts] /\ kind \in Kinds /\ server \in Releases
      /\ artifact \in Contents /\ sidecar \in Contents /\ legacy \in Contents /\ orphans \in BOOLEAN
      /\ cacheLock \in Fetchers \cup {"nobody"} /\ guards \subseteq Fetchers /\ trouble \in 0 .. MaxTrouble
  BY DEF CacheInv, CacheTypeOK, Attempts
<1>3. artifact' \in Contents /\ sidecar' \in Contents /\ legacy' \in Contents
  BY <1>2 DEF NewRelease, Meddle
<1>4. trouble' \in 0 .. MaxTrouble
  BY <1>2, Troubles DEF NewRelease, Meddle
<1>5. server' \in Releases
  <2>1. CASE NewRelease
    <3>1. server < MaxRelease /\ server' = server + 1
      BY <2>1 DEF NewRelease
    <3> QED
      BY <1>2, <3>1, ReleaseAssumption DEF Releases
  <2>2. CASE Meddle
    BY <1>2, <2>2 DEF Meddle
  <2> QED
    BY <2>1, <2>2
<1>6. artifact' = artifact \/ guards = {}
  BY DEF NewRelease, Meddle
<1>7. ASSUME NEW f \in Fetchers
      PROVE  /\ fetcher'[f] \in Attempts /\ ~fetcher'[f].clean /\ fetcher'[f].pc = fetcher[f].pc
             /\ fetcher'[f].expected = fetcher[f].expected /\ fetcher'[f].got = fetcher[f].got
             /\ fetcher'[f].import <=> fetcher[f].import
  <2>1. fetcher'[f] = [fetcher[f] EXCEPT !.clean = FALSE]
    BY <1>1 DEF Disturbed
  <2>2. fetcher[f] \in Attempts
    BY <1>2
  <2> QED
    BY <2>1, <2>2 DEF Attempts
<1>8. fetcher' \in [Fetchers -> Attempts]
  BY <1>1, <1>7 DEF Disturbed
<1>9. CacheTypeOK'
  BY <1>1, <1>2, <1>3, <1>4, <1>5, <1>8 DEF CacheTypeOK, Attempts
<1>10. ASSUME NEW f \in Fetchers
       PROVE  /\ Locks(kind', fetcher'[f]) <=> cacheLock' = f
              /\ Placed(kind', fetcher'[f])
              /\ Holds(kind', fetcher'[f], artifact', f \in guards')
              /\ Undisturbed(kind', fetcher'[f], server', legacy', artifact')
  <2> DEFINE i == fetcher[f]
             j == fetcher'[f]
  <2>1. /\ ~j.clean /\ j.pc = i.pc /\ j.expected = i.expected /\ j.got = i.got /\ (j.import <=> i.import)
        /\ kind' = kind /\ cacheLock' = cacheLock /\ guards' = guards
    BY <1>1, <1>7
  <2>2. (Locks(kind, i) <=> cacheLock = f) /\ Placed(kind, i) /\ Holds(kind, i, artifact, f \in guards)
    BY DEF CacheInv
  <2> HIDE DEF i, j
  <2>3. Locks(kind, j) <=> cacheLock = f
    BY <2>1, <2>2 DEF Locks
  <2>4. Placed(kind, j)
    BY <2>1, <2>2 DEF Placed
  <2>5. Holds(kind, j, artifact', f \in guards)
    <3>1. CASE artifact' = artifact
      BY <2>1, <2>2, <3>1 DEF Holds
    <3>2. CASE guards = {}
      BY <2>1, <2>2, <3>2 DEF Holds
    <3> QED
      BY <1>6, <3>1, <3>2
  <2>6. Undisturbed(kind, j, server', legacy', artifact')
    BY <2>1 DEF Undisturbed
  <2> QED
    BY <2>1, <2>3, <2>4, <2>5, <2>6 DEF j
<1> QED
  BY <1>9, <1>10 DEF CacheInv

(* The invariant of the cache.                                               *)
LEMMA CacheInvariant == CacheSpec => []CacheInv
<1>1. CacheInit => CacheInv
  <2> SUFFICES ASSUME CacheInit PROVE CacheInv
    OBVIOUS
  <2>1. NewFetcher \in Attempts /\ NewFetcher.pc = "idle"
    BY NewAttempt
  <2>2. /\ fetcher \in [Fetchers -> Attempts] /\ cacheLock = "nobody" /\ guards = {}
        /\ \A f \in Fetchers : fetcher[f] = NewFetcher
    BY <2>1 DEF CacheInit
  <2>3. kind \in Kinds /\ artifact \in Contents /\ sidecar \in Contents /\ orphans \in BOOLEAN /\ server \in Releases
    BY CacheContents DEF CacheInit
  <2>4. legacy \in Contents
    BY CacheContents DEF CacheInit
  <2>5. trouble \in 0 .. MaxTrouble
    BY ReleaseAssumption DEF CacheInit
  <2>6. CacheTypeOK
    BY <2>2, <2>3, <2>4, <2>5 DEF CacheTypeOK, Attempts
  <2>7. \A f \in Fetchers : fetcher[f].pc = "idle" /\ cacheLock # f
    BY <2>1, <2>2, FetcherAssumption
  <2> QED
    BY <2>6, <2>7 DEF CacheInv, Locks, Placed, Holds, Undisturbed
<1>2. CacheInv /\ [CacheNext]_cacheVars => CacheInv'
  <2> SUFFICES ASSUME CacheInv, [CacheNext]_cacheVars PROVE CacheInv'
    OBVIOUS
  <2>1. CASE UNCHANGED cacheVars
    BY <2>1 DEF cacheVars, CacheInv, CacheTypeOK
  <2>2. CASE NewRelease \/ Meddle
    BY <2>2, DisturbedStep
  <2>3. ASSUME NEW f \in Fetchers, CacheStep(f) PROVE CacheInv'
    <3>1. CASE Acquire(f)
      BY <3>1, AcquireStep
    <3>2. CASE CleanOrphans(f) \/ ImportLegacy(f)
      BY <3>2, CleaningSteps
    <3>3. CASE CopyLocal(f)
      BY <3>3, CopyLocalStep
    <3>4. CASE VerifyImport(f)
      BY <3>4, VerifyImportStep
    <3>5. CASE LookAtArchive(f)
      BY <3>5, LookAtArchiveStep
    <3>6. CASE LookAtInstaller(f) \/ OpenDownloaded(f) \/ Recheck(f)
      BY <3>6, InstallerSteps
    <3>7. CASE CachedManifest(f) \/ RefreshChannel(f)
      BY <3>7, CachedManifestStep
    <3>8. CASE Discard(f)
      BY <3>8, DiscardStep
    <3>9. CASE Download(f)
      BY <3>9, DownloadStep
    <3>10. CASE PublishStream(f)
      BY <3>10, PublishStreamStep
    <3>11. CASE RecordDigest(f)
      BY <3>11, RecordDigestStep
    <3>12. CASE ChannelFallback(f)
      BY <3>12, ChannelFallbackStep
    <3>13. CASE OpenGuard(f)
      BY <3>13, OpenGuardStep
    <3>14. CASE GuardedDigest(f)
      BY <3>14, GuardedDigestStep
    <3>15. CASE Refuse(f)
      BY <3>15, RefuseStep
    <3>16. CASE ReadChecksum(f) \/ RefreshChecksum(f)
      BY <3>16, ChecksumSteps
    <3>17. CASE Done(f) \/ TryAgain(f) \/ Dies(f)
      BY <3>17, DoneStep
    <3>18. CASE StagingFails(f)
      BY <3>18, StagingFailsStep
    <3>19. CASE Clear(f)
      BY <3>19, ClearStep
    <3>20. CASE AnyCallFails(f)
      BY <3>20, AnyCallFailsStep
    <3> QED
      BY <2>3, <3>1, <3>2, <3>3, <3>4, <3>5, <3>6, <3>7, <3>8, <3>9, <3>10, <3>11, <3>12, <3>13, <3>14, <3>15,
         <3>16, <3>17, <3>18, <3>19, <3>20 DEF CacheStep
  <2> QED
    BY <2>1, <2>2, <2>3 DEF CacheNext
<1> QED
  BY <1>1, <1>2, PTL DEF CacheSpec

(* For any number of processes and releases: the files of the entry, its     *)
(* lock and the attempts have their types.                                   *)
THEOREM CacheTypeCorrect == CacheSpec => []CacheTypeOK
<1>1. CacheInv => CacheTypeOK
  BY DEF CacheInv
<1> QED
  BY <1>1, CacheInvariant, PTL

(* What is extracted, run or parsed has been verified and is still what was  *)
(* verified (archive_tool/install/cache.rs, rust/source.rs,                  *)
(* msvc/payload_cache.rs: the guard, or the bytes that were read).           *)
THEOREM OnlyVerifiedIsUsed == CacheSpec => []UsesOnlyVerified
<1>1. CacheInv => UsesOnlyVerified
  <2> SUFFICES ASSUME CacheInv, NEW f \in Fetchers, fetcher[f].pc = "using"
               PROVE  CASE Archive -> cacheLock = f /\ f \in guards /\ ValidArchive(f, artifact)
                        [] kind \in {"rustup", "payload"} -> f \in guards /\ artifact = fetcher[f].expected
                                                                        /\ WellFormed(artifact)
                        [] OTHER -> WellFormed(fetcher[f].got)
    BY DEF UsesOnlyVerified, At
  <2>1. /\ Placed(kind, fetcher[f]) /\ Holds(kind, fetcher[f], artifact, f \in guards)
        /\ Locks(kind, fetcher[f]) <=> cacheLock = f
        /\ kind \in Kinds
    BY Attempting
  <2>2. CASE kind \in {"pinned", "unpinned"}
    <3>1. Archive /\ cacheLock = f
      BY <2>1, <2>2 DEF Archive, Locks
    <3>2. f \in guards /\ ValidArchive(f, artifact)
      BY <2>1, <2>2 DEF Holds, ValidArchive, WellFormed
    <3> QED
      BY <2>2, <3>1, <3>2
  <2>3. CASE kind \in {"rustup", "payload"}
    <3>1. f \in guards /\ artifact = fetcher[f].expected /\ WellFormed(artifact) /\ ~Archive
      BY <2>1, <2>3 DEF Holds, Placed, WellFormed, Archive
    <3> QED
      BY <2>3, <3>1
  <2>4. CASE kind \in {"manifest", "channel"}
    <3>1. WellFormed(fetcher[f].got) /\ ~Archive
      BY <2>1, <2>4 DEF Placed, WellFormed, Archive
    <3> QED
      BY <2>4, <3>1
  <2> QED
    BY <2>1, <2>2, <2>3, <2>4 DEF Kinds
<1> QED
  BY <1>1, CacheInvariant, PTL

(* No cache entry is ever in the way of an installation: an attempt that     *)
(* nothing disturbs fails only when the source serves other bytes than the   *)
(* request names (cache.rs, rust/source.rs, payload_cache.rs: what does not  *)
(* verify is removed, a stale checksum is refreshed).                        *)
THEOREM CacheIsNeverInTheWay == CacheSpec => []NothingCachedIsInTheWay
<1>1. CacheInv => NothingCachedIsInTheWay
  BY DEF CacheInv, Undisturbed, NothingCachedIsInTheWay, At
<1> QED
  BY <1>1, CacheInvariant, PTL

-----------------------------------------------------------------------------
(* The installers *)

Idle    == {"idle", "locking", "installed", "failed"}
Working == Places \ Idle
Processes == [pc : Places, request : Requests, version : Versions \cup {"none"},
              source : Trusts, attempt : 0 .. 1,
              backup : Slots \cup {NoSlot, Ambiguous}, moved : BOOLEAN, seen : BOOLEAN]
Selections == [version : Versions \cup {"none"}, source : Trusts \cup {"none"}]

(* What an installer i of the tool t accepts.                                *)
Accepts(t, i, tree) ==
  CASE t = "archive" ->
         /\ tree.intact
         /\ CASE i.request = "exact"  -> tree.source \in {"github", "unverified"}
              [] i.request = "pinned" -> tree.source = "project"
              [] OTHER                -> tree.source = i.source
    [] OTHER -> tree.intact /\ tree.source = "official"

Chosen(i) == i.pc \in Working \cup {"locking"} => i.version \in Versions

(* What it has found out of the target of its version, unless somebody       *)
(* changed that since, and of what is saved of it.                           *)
Knowing(t, i, here, saved) ==
  /\ i.seen => /\ i.pc = "removing" => ~Accepts(t, i, here)
               /\ i.pc \in {"restoring", "missing"} => here = NoTree
               /\ i.pc \in {"tidying", "cleaning"} => Accepts(t, i, here)
               /\ i.pc = "undoing" /\ i.moved => ~Accepts(t, i, here)
  /\ i.pc \in {"removing", "restoring", "missing"} /\ i.backup = NoSlot =>
       \A b \in Slots : ~Accepts(t, i, saved[b])
  /\ i.pc = "missing" => i.backup = NoSlot
  /\ i.pc \in {"preserving", "moving"} => ~i.moved

(* What it has staged.                                                       *)
Prepared(i, tree) ==
  /\ i.pc \in {"running", "probing", "recording", "publishing", "preserving", "moving"} => tree # NoTree
  /\ i.pc \in {"publishing", "preserving", "moving"} => tree.source = i.source

(* Who works holds the one lock.                                             *)
InstallInv ==
  /\ InstallTypeOK
  /\ \A p \in Installers :
       /\ installer[p].pc \in Working <=> holder["all"] = p
       /\ Chosen(installer[p])
       /\ Knowing(tool, installer[p], Here(p), backups[Version(p)])
       /\ Prepared(installer[p], staged[p])

(* Some tree that the installer i accepts is the target or can be recovered. *)
Saved(t, i, here, saved) == Accepts(t, i, here) \/ \E b \in Slots : Accepts(t, i, saved[b])

(* What a step of p keeps: what can be saved of its version, the other       *)
(* versions, and everything while it does not work.                          *)
Kept(p) ==
  /\ installer[p].seen /\ Saved(tool, installer[p], Here(p), backups[Version(p)])
       => Saved(tool, installer[p], target'[Version(p)], backups'[Version(p)])
  /\ \A v \in Versions \ {Version(p)} : target'[v] = target[v] /\ backups'[v] = backups[v]
  /\ installer[p].pc \in Working \/ UNCHANGED <<target, backups>>

-----------------------------------------------------------------------------
(* The newest backup *)

(* A set of slots that is not empty has a greatest one.                      *)
LEMMA GreatestSlot ==
  ASSUME NEW valid \in SUBSET Slots, valid # {}
  PROVE  \E b \in valid : \A c \in valid : c <= b
<1> DEFINE Above(b) == {c \in valid : b < c}
           T == {Above(b) : b \in valid}
<1>1. IsFiniteSet(valid) /\ \A b \in valid : b \in Nat
  <2>1. IsFiniteSet(Slots)
    BY FS_Interval, BackupAssumption DEF Slots
  <2>2. IsFiniteSet(valid)
    BY <2>1, FS_Subset
  <2>3. \A b \in valid : b \in Nat
    BY BackupAssumption DEF Slots
  <2> QED
    BY <2>2, <2>3
<1>2. T \subseteq SUBSET valid /\ T # {}
  OBVIOUS
<1>3. IsWellFoundedOn(StrictSubsetOrdering(valid), SUBSET valid)
  BY <1>1, FS_StrictSubsetOrderingWellFounded, FS_FiniteSubsetsOfFinite
<1>4. PICK x \in T : \A y \in T : ~(<<y, x>> \in StrictSubsetOrdering(valid))
  BY <1>2, <1>3, WFMin
<1>5. PICK b \in valid : x = Above(b)
  OBVIOUS
<1>6. ASSUME NEW c \in valid, b < c PROVE FALSE
  <2>1. Above(c) \in T /\ Above(c) \subseteq Above(b) /\ c \in Above(b) /\ c \notin Above(c)
    BY <1>1, <1>6
  <2>2. <<Above(c), x>> \in StrictSubsetOrdering(valid)
    BY <1>5, <2>1 DEF StrictSubsetOrdering
  <2> QED
    BY <1>4, <2>1, <2>2
<1> QED
  BY <1>1, <1>6

(* Without a backup to restore there is none that is valid.                  *)
LEMMA NoBackup ==
  ASSUME NEW valid \in SUBSET Slots, SelectBackup(valid) = NoSlot
  PROVE  valid = {}
<1>1. \A b \in valid : b # NoSlot
  BY BackupAssumption DEF Slots, NoSlot
<1>2. NoSlot # Ambiguous
  BY BackupAssumption DEF NoSlot, Ambiguous
<1>3. CASE valid \ Legacy # {}
  <2>1. (CHOOSE b \in valid : \A c \in valid : c <= b) \in valid
    BY <1>3, GreatestSlot
  <2> QED
    BY <1>1, <1>3, <2>1 DEF SelectBackup
<1>4. CASE valid \ Legacy = {} /\ valid # {}
  <2>1. (CHOOSE b \in valid : TRUE) \in valid
    BY <1>4
  <2> QED
    BY <1>1, <1>2, <1>4, <2>1 DEF SelectBackup
<1> QED
  BY <1>3, <1>4

(* A backup is one of the slots, or none can be told.                        *)
LEMMA SomeBackup ==
  ASSUME NEW valid \in SUBSET Slots
  PROVE  SelectBackup(valid) \in Slots \cup {NoSlot, Ambiguous}
<1>1. CASE valid = {}
  BY <1>1 DEF SelectBackup
<1>2. CASE valid \ Legacy # {}
  <2>1. (CHOOSE b \in valid : \A c \in valid : c <= b) \in valid
    BY <1>2, GreatestSlot
  <2> QED
    BY <1>2, <2>1 DEF SelectBackup
<1>3. CASE valid \ Legacy = {} /\ valid # {}
  <2>1. (CHOOSE b \in valid : TRUE) \in valid
    BY <1>3
  <2> QED
    BY <1>3, <2>1 DEF SelectBackup
<1> QED
  BY <1>1, <1>2, <1>3

-----------------------------------------------------------------------------
(* The steps *)

(* The type invariant in the names above.                                    *)
LEMMA InstallTypes ==
  InstallTypeOK <=>
    /\ tool \in {"archive", "rust", "msvc"}
    /\ target \in [Versions -> Trees] /\ backups \in [Versions -> [Slots -> Trees]]
    /\ staged \in [Installers -> Trees] /\ litter \in BOOLEAN /\ orphan \in BOOLEAN
    /\ holder \in [Versions \cup {"all"} -> Installers \cup {"no one"}]
    /\ selection \in Selections /\ installer \in [Installers -> Processes]
    /\ mishaps \in 0 .. MaxMishaps /\ meddling \in 0 .. MaxMeddling
BY DEF InstallTypeOK, Processes, Selections

(* The same of the next state.                                               *)
LEMMA InstallTypesNext ==
  InstallTypeOK' <=>
    /\ tool' \in {"archive", "rust", "msvc"}
    /\ target' \in [Versions -> Trees] /\ backups' \in [Versions -> [Slots -> Trees]]
    /\ staged' \in [Installers -> Trees] /\ litter' \in BOOLEAN /\ orphan' \in BOOLEAN
    /\ holder' \in [Versions \cup {"all"} -> Installers \cup {"no one"}]
    /\ selection' \in Selections /\ installer' \in [Installers -> Processes]
    /\ mishaps' \in 0 .. MaxMishaps /\ meddling' \in 0 .. MaxMeddling
BY DEF InstallTypeOK, Processes, Selections

(* Fits, of the values that it depends on.                                   *)
LEMMA FitsAccepts ==
  \A p, tree : Fits(p, tree) <=> Accepts(tool, installer[p], tree)
BY DEF Fits, ArchiveFits, RustFits, MsvcFits, Accepts

(* No directory is no installation.                                          *)
LEMMA NothingFits == \A t, i : ~Accepts(t, i, NoTree)
BY DEF Accepts, NoTree, Tree

(* A process that is at another place accepts the same.                      *)
LEMMA SameRequest ==
  ASSUME NEW i, NEW j, i.request = j.request, i.source = j.source
  PROVE  \A t, tree : Accepts(t, i, tree) <=> Accepts(t, j, tree)
BY DEF Accepts

(* Trees, whole or not.                                                      *)
LEMMA SomeTrees ==
  /\ NoTree \in Trees /\ Tree("unrecorded", TRUE) \in Trees /\ Tree("unrecorded", FALSE) \in Trees
  /\ Tree("unrecorded", TRUE) # NoTree /\ Tree("unrecorded", FALSE) # NoTree
  /\ \A tree \in Trees : Remains(tree) \subseteq Trees
  /\ \A tree \in Trees : [tree EXCEPT !.intact = TRUE] \in Trees /\ [tree EXCEPT !.intact = TRUE] # NoTree
  /\ \A tree \in Trees, s \in Trusts : /\ [tree EXCEPT !.source = s] \in Trees /\ [tree EXCEPT !.source = s] # NoTree
                                       /\ [tree EXCEPT !.source = s].source = s
BY DEF Trees, Tree, NoTree, Sources, Trusts, Remains

(* A step of one installer, which leaves the others where they are and       *)
(* touches the directories only if it holds the lock.                        *)
LEMMA OneMoves ==
  ASSUME InstallInv, NEW p \in Installers, NEW next \in Processes,
         installer' = [installer EXCEPT ![p] = next], tool' = tool,
         target' \in [Versions -> Trees], backups' \in [Versions -> [Slots -> Trees]],
         staged' \in [Installers -> Trees], litter' \in BOOLEAN, orphan' \in BOOLEAN,
         holder' \in [Versions \cup {"all"} -> Installers \cup {"no one"}], selection' \in Selections,
         mishaps' \in 0 .. MaxMishaps, meddling' \in 0 .. MaxMeddling,
         next.pc \in Working <=> holder'["all"] = p,
         \A q \in Installers \ {p} : holder'["all"] = q <=> holder["all"] = q,
         installer[p].pc \in Working \/ (target' = target /\ backups' = backups
                                          /\ \A q \in Installers \ {p} : staged'[q] = staged[q]),
         Chosen(next), Knowing(tool, next, target'[next.version], backups'[next.version]),
         Prepared(next, staged'[p])
  PROVE  InstallInv'
<1>1. InstallTypeOK /\ installer \in [Installers -> Processes] /\ tool \in {"archive", "rust", "msvc"}
  BY InstallTypes DEF InstallInv
<1>2. installer' \in [Installers -> Processes] /\ \A q \in Installers : installer'[q] = IF q = p THEN next ELSE installer[q]
  BY <1>1
<1>3. InstallTypeOK'
  BY <1>1, <1>2, InstallTypesNext
<1>4. ASSUME NEW q \in Installers
      PROVE  /\ installer'[q].pc \in Working <=> holder'["all"] = q
             /\ Chosen(installer'[q])
             /\ Knowing(tool', installer'[q], target'[installer'[q].version], backups'[installer'[q].version])
             /\ Prepared(installer'[q], staged'[q])
  <2>1. CASE q = p
    BY <1>2, <2>1
  <2>2. CASE q # p
    <3>1. /\ installer'[q] = installer[q] /\ Chosen(installer[q]) /\ Prepared(installer[q], staged[q])
          /\ Knowing(tool, installer[q], target[installer[q].version], backups[installer[q].version])
          /\ installer[q].pc \in Working <=> holder["all"] = q
          /\ installer[p].pc \in Working <=> holder["all"] = p
      BY <1>2, <2>2 DEF InstallInv, Here, Version
    <3>2. installer[q].pc \in Working <=> holder'["all"] = q
      BY <2>2, <3>1
    <3>3. CASE installer[q].pc \in Working
      <4>1. installer[p].pc \notin Working
        BY <2>2, <3>1, <3>3
      <4> QED
        BY <2>2, <3>1, <3>2, <4>1
    <3>4. CASE installer[q].pc \notin Working
      <4>1. \A pc \in Working : installer[q].pc # pc
        BY <3>4
      <4>2. {"removing", "restoring", "missing", "tidying", "cleaning", "undoing", "preserving", "moving",
             "running", "probing", "recording", "publishing"} \subseteq Working
        BY DEF Working, Places, Idle
      <4> DEFINE i == installer[q]
      <4>3. i.pc \notin {"removing", "restoring", "missing", "tidying", "cleaning", "undoing", "preserving",
                         "moving", "running", "probing", "recording", "publishing"}
        BY <4>1, <4>2
      <4> HIDE DEF i
      <4>4. Prepared(i, staged'[q])
        BY <4>3 DEF Prepared
      <4>5. Knowing(tool', i, target'[i.version], backups'[i.version])
        BY <4>3 DEF Knowing
      <4> QED
        BY <3>1, <3>2, <4>4, <4>5 DEF i
    <3> QED
      BY <3>3, <3>4
  <2> QED
    BY <2>1, <2>2
<1> QED
  BY <1>3, <1>4 DEF InstallInv, Here, Version

(* An installer that goes on with its work.                                  *)
LEMMA WorksOn ==
  ASSUME InstallInv, NEW p \in Installers, installer[p].pc \in Working,
         NEW next \in Processes, next.pc \in Working, next.version = installer[p].version,
         installer' = [installer EXCEPT ![p] = next], tool' = tool,
         target' \in [Versions -> Trees], backups' \in [Versions -> [Slots -> Trees]],
         staged' \in [Installers -> Trees], litter' \in BOOLEAN, orphan' = orphan,
         holder' = holder, selection' = selection, mishaps' \in 0 .. MaxMishaps, meddling' = meddling,
         Knowing(tool, next, target'[next.version], backups'[next.version]), Prepared(next, staged'[p])
  PROVE  InstallInv'
<1>1. /\ orphan \in BOOLEAN /\ holder \in [Versions \cup {"all"} -> Installers \cup {"no one"}]
      /\ selection \in Selections /\ meddling \in 0 .. MaxMeddling
      /\ installer[p].pc \in Working <=> holder["all"] = p
      /\ Chosen(installer[p])
  BY InstallTypes DEF InstallInv
<1>2. Chosen(next)
  BY <1>1 DEF Chosen
<1> QED
  BY <1>1, <1>2, OneMoves

(* The same for a step that leaves the directories alone.                    *)
LEMMA LooksOn ==
  ASSUME InstallInv, NEW p \in Installers, installer[p].pc \in Working,
         NEW next \in Processes, next.pc \in Working, next.version = installer[p].version,
         installer' = [installer EXCEPT ![p] = next],
         UNCHANGED <<tool, target, backups, staged, litter, orphan, holder, selection, meddling>>,
         mishaps' = mishaps \/ mishaps' \in 0 .. MaxMishaps,
         Knowing(tool, next, target'[next.version], backups'[next.version]), Prepared(next, staged'[p])
  PROVE  InstallInv'
<1>1. /\ target' \in [Versions -> Trees] /\ backups' \in [Versions -> [Slots -> Trees]]
      /\ staged' \in [Installers -> Trees] /\ litter' \in BOOLEAN /\ mishaps' \in 0 .. MaxMishaps
  BY InstallTypes DEF InstallInv
<1> QED
  BY <1>1, WorksOn

(* An installer that ends, in whatever way, and frees the lock if it has it. *)
LEMMA Leaves ==
  ASSUME InstallInv, NEW p \in Installers, NEW pc \in {"idle", "installed", "failed"},
         installer' = [installer EXCEPT ![p] = [NewInstaller EXCEPT !.pc = pc]], Unlock(p), tool' = tool,
         target' \in [Versions -> Trees], backups' \in [Versions -> [Slots -> Trees]],
         staged' \in [Installers -> Trees], litter' \in BOOLEAN, orphan' \in BOOLEAN,
         selection' \in Selections, mishaps' \in 0 .. MaxMishaps, meddling' = meddling,
         installer[p].pc \in Working \/ (target' = target /\ backups' = backups
                                          /\ \A q \in Installers \ {p} : staged'[q] = staged[q])
  PROVE  InstallInv'
<1> DEFINE next == [NewInstaller EXCEPT !.pc = pc]
<1>1. /\ holder \in [Versions \cup {"all"} -> Installers \cup {"no one"}] /\ meddling \in 0 .. MaxMeddling
  BY InstallTypes DEF InstallInv
<1>2. next \in Processes /\ next.pc = pc
  <2>1. NewInstaller \in Processes
    BY DEF NewInstaller, Processes, Places, Requests, Trusts
  <2>2. pc \in Places
    BY DEF Places
  <2> QED
    BY <2>1, <2>2 DEF Processes
<1>3. pc \notin Working
  BY DEF Working, Idle
<1>4. /\ holder' \in [Versions \cup {"all"} -> Installers \cup {"no one"}]
      /\ holder'["all"] = IF holder["all"] = p THEN "no one" ELSE holder["all"]
  BY <1>1 DEF Unlock
<1>5. holder'["all"] # p /\ \A q \in Installers \ {p} : holder'["all"] = q <=> holder["all"] = q
  BY <1>4, InstallerAssumption
<1>6. Chosen(next) /\ Prepared(next, staged'[p]) /\ Knowing(tool, next, target'[next.version], backups'[next.version])
  BY <1>2 DEF Chosen, Prepared, Knowing, Working, Idle
<1> HIDE DEF next
<1> QED
  BY <1>1, <1>2, <1>3, <1>4, <1>5, <1>6, OneMoves DEF next

(* What is known of an installer and of the directories.                     *)
LEMMA Worker ==
  ASSUME InstallInv, NEW p \in Installers
  PROVE  /\ installer \in [Installers -> Processes] /\ installer[p] \in Processes
         /\ tool \in {"archive", "rust", "msvc"}
         /\ target \in [Versions -> Trees] /\ backups \in [Versions -> [Slots -> Trees]]
         /\ staged \in [Installers -> Trees] /\ staged[p] \in Trees /\ litter \in BOOLEAN /\ orphan \in BOOLEAN
         /\ holder \in [Versions \cup {"all"} -> Installers \cup {"no one"}]
         /\ selection \in Selections /\ mishaps \in 0 .. MaxMishaps /\ meddling \in 0 .. MaxMeddling
         /\ installer[p].pc \in Working <=> holder["all"] = p
         /\ Chosen(installer[p]) /\ Prepared(installer[p], staged[p])
         /\ Knowing(tool, installer[p], Here(p), backups[Version(p)])
         /\ installer[p].pc \in Working => /\ installer[p].version \in Versions /\ Version(p) \in Versions
                                           /\ Here(p) \in Trees /\ backups[Version(p)] \in [Slots -> Trees]
BY InstallTypes DEF InstallInv, Chosen, Here, Version

(* A process at another place.                                               *)
LEMMA AtPlace ==
  ASSUME InstallInv, NEW p \in Installers, NEW pc \in Places
  PROVE  LET next == [installer[p] EXCEPT !.pc = pc] IN
         /\ next \in Processes /\ next.pc = pc /\ next.version = installer[p].version
         /\ next.request = installer[p].request /\ next.source = installer[p].source
         /\ next.backup = installer[p].backup /\ next.moved = installer[p].moved /\ next.seen = installer[p].seen
         /\ Goes(p, pc) => installer' = [installer EXCEPT ![p] = next]
<1>1. installer[p] \in Processes
  BY Worker
<1> QED
  BY <1>1 DEF Processes, Goes

(* The same when it has just looked at the target.                           *)
LEMMA AtPlaceSeen ==
  ASSUME InstallInv, NEW p \in Installers, NEW pc \in Places
  PROVE  LET next == [installer[p] EXCEPT !.pc = pc, !.seen = TRUE] IN
         /\ next \in Processes /\ next.pc = pc /\ next.version = installer[p].version
         /\ next.request = installer[p].request /\ next.source = installer[p].source
         /\ next.backup = installer[p].backup /\ next.moved = installer[p].moved /\ next.seen
         /\ Looked(p, pc) => installer' = [installer EXCEPT ![p] = next]
<1>1. installer[p] \in Processes
  BY Worker
<1> QED
  BY <1>1 DEF Processes, Looked

(* A call that fails, or none.                                               *)
LEMMA Mishaps ==
  ASSUME mishaps \in 0 .. MaxMishaps, Mishap \/ Smooth PROVE mishaps' \in 0 .. MaxMishaps
BY MishapAssumption DEF Mishap, Smooth

(* The request, before anything is locked.                                   *)
LEMMA RequestStep ==
  ASSUME InstallInv, NEW p \in Installers, Request(p) PROVE InstallInv'
<1>1. PICK v \in Versions, r \in Requests, s \in Trusts :
        installer' = [installer EXCEPT ![p] =
          [NewInstaller EXCEPT !.pc = "locking", !.request = r, !.version = v, !.source = s]]
  BY DEF Request
<1> DEFINE next == [NewInstaller EXCEPT !.pc = "locking", !.request = r, !.version = v, !.source = s]
<1>2. next \in Processes /\ next.pc = "locking" /\ next.version = v
  <2>1. NewInstaller \in Processes /\ "locking" \in Places
    BY DEF NewInstaller, Processes, Places, Requests, Trusts
  <2> QED
    BY <2>1 DEF Processes
<1>3. installer[p].pc \notin Working /\ next.pc \notin Working
  BY <1>2 DEF Request, Stands, Working, Idle
<1>4. /\ UNCHANGED <<tool, target, backups, staged, litter, orphan, holder, selection, mishaps, meddling>>
  BY DEF Request
<1>5. Chosen(next) /\ Prepared(next, staged'[p]) /\ Knowing(tool, next, target'[next.version], backups'[next.version])
  BY <1>2 DEF Chosen, Prepared, Knowing
<1> HIDE DEF next
<1>6. installer' = [installer EXCEPT ![p] = next]
  BY <1>1 DEF next
<1> QED
  BY <1>2, <1>3, <1>4, <1>5, <1>6, Worker, OneMoves

(* The lock is taken by one installer, when nobody has it.                   *)
LEMMA TakeLockStep ==
  ASSUME InstallInv, NEW p \in Installers, TakeLock(p) PROVE InstallInv'
<1> DEFINE next == [installer[p] EXCEPT !.pc = "recovering"]
<1>1. /\ next \in Processes /\ next.pc = "recovering" /\ next.version = installer[p].version
      /\ installer' = [installer EXCEPT ![p] = next]
  <2>1. installer \in [Installers -> Processes] /\ "recovering" \in Places /\ Goes(p, "recovering")
    BY Worker DEF TakeLock, Places
  <2> QED
    BY <2>1, AtPlace
<1> HIDE DEF next
<1>2. /\ UNCHANGED <<tool, target, backups, staged, litter, orphan, selection, mishaps, meddling>>
      /\ holder["all"] = "no one" /\ holder' = [holder EXCEPT !["all"] = p]
  BY DEF TakeLock, LockName
<1>3. holder' \in [Versions \cup {"all"} -> Installers \cup {"no one"}] /\ holder'["all"] = p
  BY <1>2, Worker
<1>4. \A q \in Installers \ {p} : holder'["all"] = q <=> holder["all"] = q
  BY <1>2, <1>3, InstallerAssumption
<1>5. installer[p].pc = "locking" /\ installer[p].version \in Versions
  BY Worker DEF TakeLock, Stands, Chosen
<1>6. next.pc \in Working
  BY <1>1 DEF Working, Idle, Places
<1>7. Chosen(next) /\ Prepared(next, staged'[p]) /\ Knowing(tool, next, target'[next.version], backups'[next.version])
  BY <1>1, <1>5 DEF Chosen, Prepared, Knowing
<1> QED
  BY <1>1, <1>2, <1>3, <1>4, <1>6, <1>7, Worker, OneMoves

(* A step between the staging and the publication.                           *)
LEMMA StagesOn ==
  ASSUME InstallInv, NEW p \in Installers, installer[p].pc \in {"staging", "running", "probing", "recording"},
         NEW pc \in {"running", "probing", "recording", "publishing"}, Goes(p, pc),
         NEW tree \in Trees, tree # NoTree, staged' = [staged EXCEPT ![p] = tree],
         pc = "publishing" => tree.source = installer[p].source,
         UNCHANGED <<tool, target, backups, litter, orphan, holder, selection, mishaps, meddling>>
  PROVE  InstallInv'
<1> DEFINE next == [installer[p] EXCEPT !.pc = pc]
<1>1. /\ next \in Processes /\ next.pc = pc /\ next.version = installer[p].version
      /\ next.source = installer[p].source /\ installer' = [installer EXCEPT ![p] = next]
  <2>1. installer \in [Installers -> Processes] /\ pc \in Places
    BY Worker DEF Places
  <2> QED
    BY <2>1, AtPlace
<1> HIDE DEF next
<1>2. installer[p].pc \in Working /\ next.pc \in Working
  BY <1>1 DEF Working, Idle, Places
<1>3. staged' \in [Installers -> Trees] /\ staged'[p] = tree
  BY Worker
<1>4. Prepared(next, staged'[p]) /\ Knowing(tool, next, target'[next.version], backups'[next.version])
  BY <1>1, <1>3 DEF Prepared, Knowing
<1> QED
  BY <1>1, <1>2, <1>3, <1>4, Worker, WorksOn

(* The steps of staging, of each tool.                                       *)
LEMMA StagingSteps ==
  ASSUME InstallInv, NEW p \in Installers,
         \/ StageArchive(p) \/ StartRustup(p) \/ RustupEnds(p) \/ StageMsvc(p) \/ MsiexecEnds(p)
         \/ ProbeArchive(p) \/ ProbeRust(p) \/ Assemble(p)
         \/ RecordArchive(p) \/ RecordRust(p) \/ RecordMsvc(p)
  PROVE  InstallInv'
<1>1. UNCHANGED <<tool, target, backups, litter, orphan, holder, selection, mishaps, meddling>>
  BY DEF StageArchive, StartRustup, RustupEnds, StageMsvc, MsiexecEnds, ProbeArchive, ProbeRust, Assemble,
         RecordArchive, RecordRust, RecordMsvc
<1>2. staged \in [Installers -> Trees] /\ staged[p] \in Trees /\ installer[p].source \in Trusts
  BY Worker DEF Processes
<1>3. CASE StageArchive(p)
  <2>1. Stands(p, "staging") /\ Goes(p, "probing") /\ staged' = [staged EXCEPT ![p] = Tree("unrecorded", TRUE)]
    BY <1>3 DEF StageArchive
  <2> QED
    BY <1>1, <2>1, SomeTrees, StagesOn DEF Stands
<1>4. CASE StartRustup(p) \/ StageMsvc(p)
  <2>1. Stands(p, "staging") /\ Goes(p, "running") /\ staged' = [staged EXCEPT ![p] = Tree("unrecorded", FALSE)]
    BY <1>4 DEF StartRustup, StageMsvc
  <2> QED
    BY <1>1, <2>1, SomeTrees, StagesOn DEF Stands
<1>5. CASE RustupEnds(p) \/ MsiexecEnds(p)
  <2> DEFINE tree == [staged[p] EXCEPT !.intact = TRUE]
  <2>1. Stands(p, "running") /\ Goes(p, "probing") /\ staged' = [staged EXCEPT ![p].intact = TRUE]
    BY <1>5 DEF RustupEnds, MsiexecEnds
  <2>2. staged' = [staged EXCEPT ![p] = tree]
    BY <2>1
  <2>3. tree \in Trees /\ tree # NoTree
    BY <1>2, SomeTrees
  <2> HIDE DEF tree
  <2> QED
    BY <1>1, <2>1, <2>2, <2>3, StagesOn DEF Stands
<1>6. CASE ProbeArchive(p) \/ ProbeRust(p) \/ Assemble(p)
  <2>1. Stands(p, "probing") /\ Goes(p, "recording") /\ staged' = staged
    BY <1>6 DEF ProbeArchive, ProbeRust, Assemble
  <2>2. staged' = [staged EXCEPT ![p] = staged[p]]
    BY <1>2, <2>1
  <2>3. staged[p] # NoTree
    BY <2>1, Worker DEF Prepared, Stands
  <2> QED
    BY <1>1, <1>2, <2>1, <2>2, <2>3, StagesOn DEF Stands
<1>7. CASE RecordArchive(p) \/ RecordRust(p) \/ RecordMsvc(p)
  <2> DEFINE tree == [staged[p] EXCEPT !.source = installer[p].source]
  <2>1. Stands(p, "recording") /\ Goes(p, "publishing") /\ staged' = [staged EXCEPT ![p].source = installer[p].source]
    BY <1>7 DEF RecordArchive, RecordRust, RecordMsvc, Recorded
  <2>2. staged' = [staged EXCEPT ![p] = tree]
    BY <2>1
  <2>3. tree \in Trees /\ tree # NoTree /\ tree.source = installer[p].source
    BY <1>2, SomeTrees
  <2> HIDE DEF tree
  <2> QED
    BY <1>1, <2>1, <2>2, <2>3, StagesOn DEF Stands
<1> QED
  BY <1>3, <1>4, <1>5, <1>6, <1>7

(* Staging that fails: another attempt, or the end.                          *)
LEMMA StageFailsStep ==
  ASSUME InstallInv, NEW p \in Installers, StageFails(p) PROVE InstallInv'
<1>1. /\ UNCHANGED <<tool, target, backups, orphan, selection, meddling>>
      /\ staged' = [staged EXCEPT ![p] = NoTree] /\ litter' \in BOOLEAN /\ mishaps' \in 0 .. MaxMishaps
      /\ installer[p].pc \in Working
  BY Worker, Mishaps DEF StageFails, Staging, Working, Idle, Places
<1>2. staged' \in [Installers -> Trees]
  BY <1>1, Worker, SomeTrees
<1>3. CASE tool = "archive" /\ installer[p].attempt = 0
  <2> DEFINE next == [installer[p] EXCEPT !.attempt = 1, !.pc = "staging"]
  <2>1. installer' = [installer EXCEPT ![p] = next] /\ holder' = holder
    BY <1>3 DEF StageFails
  <2>2. next \in Processes /\ next.pc = "staging" /\ next.version = installer[p].version
    <3>1. installer[p] \in Processes
      BY Worker
    <3>2. "staging" \in Places /\ 1 \in 0 .. 1
      BY DEF Places
    <3> QED
      BY <3>1, <3>2 DEF Processes
  <2>3. next.pc \in Working
    BY <2>2 DEF Working, Idle, Places
  <2>4. Prepared(next, staged'[p]) /\ Knowing(tool, next, target'[next.version], backups'[next.version])
    BY <2>2 DEF Prepared, Knowing
  <2> HIDE DEF next
  <2> QED
    BY <1>1, <1>2, <2>1, <2>2, <2>3, <2>4, Worker, WorksOn
<1>4. CASE ~(tool = "archive" /\ installer[p].attempt = 0)
  <2>1. Ends(p, "failed")
    BY <1>4 DEF StageFails
  <2> QED
    BY <1>1, <1>2, <2>1, Worker, Leaves DEF Ends
<1> QED
  BY <1>3, <1>4

(* The target, and what is saved of it, are looked at.                       *)
LEMMA RecoverStep ==
  ASSUME InstallInv, NEW p \in Installers, Recover(p) PROVE InstallInv'
<1> DEFINE i == installer[p]
           valid == {b \in Slots : Fits(p, backups[Version(p)][b])}
<1>1. /\ UNCHANGED <<tool, target, backups, staged, litter, orphan, holder, selection, mishaps, meddling>>
      /\ i.pc = "recovering"
  BY DEF Recover, Stands
<1>2. i.pc \in Working /\ installer \in [Installers -> Processes] /\ i \in Processes
  BY <1>1, Worker DEF Working, Places, Idle
<1>3. CASE Fits(p, Here(p))
  <2> DEFINE next == [installer[p] EXCEPT !.pc = "tidying", !.seen = TRUE]
  <2>1. "tidying" \in Places /\ "tidying" \in Working /\ Looked(p, "tidying")
    BY <1>3 DEF Recover, Places, Working, Idle
  <2>2. /\ next \in Processes /\ next.pc = "tidying" /\ next.version = i.version /\ next.request = i.request
        /\ next.source = i.source /\ installer' = [installer EXCEPT ![p] = next]
    BY <1>2, <2>1, AtPlaceSeen
  <2> HIDE DEF next
  <2>3. Accepts(tool, next, Here(p))
    BY <1>3, <2>2, FitsAccepts, SameRequest
  <2>4. Knowing(tool, next, target'[next.version], backups'[next.version]) /\ Prepared(next, staged'[p])
    BY <1>1, <2>2, <2>3 DEF Knowing, Prepared, Here, Version
  <2> QED
    BY <1>1, <1>2, <2>1, <2>2, <2>4, LooksOn
<1>4. CASE ~Fits(p, Here(p))
  <2> DEFINE pc == IF Here(p) = NoTree THEN "restoring" ELSE "removing"
             next == [installer[p] EXCEPT !.backup = SelectBackup(valid), !.seen = TRUE, !.pc = pc]
  <2>1. pc \in Places /\ pc \in Working /\ pc \in {"restoring", "removing"}
    BY DEF Places, Working, Idle
  <2>2. installer' = [installer EXCEPT ![p] = next]
    BY <1>4 DEF Recover
  <2>3. valid \in SUBSET Slots
    OBVIOUS
  <2> HIDE DEF valid
  <2>4. SelectBackup(valid) \in Slots \cup {NoSlot, Ambiguous} /\ (SelectBackup(valid) = NoSlot => valid = {})
    BY <2>3, SomeBackup, NoBackup
  <2>5. /\ next \in Processes /\ next.pc = pc /\ next.version = i.version /\ next.request = i.request
        /\ next.source = i.source /\ next.backup = SelectBackup(valid)
    <3> HIDE DEF pc
    <3> QED
      BY <1>2, <2>1, <2>4 DEF Processes
  <2> HIDE DEF next
  <2>6. ~Accepts(tool, next, Here(p)) /\ \A b \in Slots : next.backup = NoSlot => ~Accepts(tool, next, backups[Version(p)][b])
    <3>1. \A tree : Fits(p, tree) <=> Accepts(tool, next, tree)
      BY <2>5, FitsAccepts, SameRequest
    <3> QED
      BY <1>4, <2>4, <2>5, <3>1 DEF valid
  <2>7. Knowing(tool, next, target'[next.version], backups'[next.version]) /\ Prepared(next, staged'[p])
    BY <1>1, <2>1, <2>5, <2>6 DEF Knowing, Prepared, Here, Version
  <2> HIDE DEF pc
  <2> QED
    BY <1>1, <1>2, <2>1, <2>2, <2>5, <2>7, LooksOn
<1> QED
  BY <1>3, <1>4

(* What is invalid is removed.                                               *)
LEMMA RemoveInvalidStep ==
  ASSUME InstallInv, NEW p \in Installers, RemoveInvalid(p) PROVE InstallInv'
<1> DEFINE i == installer[p]
           next == [installer[p] EXCEPT !.pc = "restoring"]
<1>1. /\ UNCHANGED <<tool, backups, staged, litter, orphan, holder, selection, mishaps, meddling>>
      /\ i.pc = "removing" /\ target' = [target EXCEPT ![i.version] = NoTree] /\ Goes(p, "restoring")
  BY DEF RemoveInvalid, Stands, Version
<1>2. i.pc \in Working /\ "restoring" \in Working /\ "restoring" \in Places
  BY <1>1 DEF Working, Places, Idle
<1>3. /\ next \in Processes /\ next.pc = "restoring" /\ next.version = i.version /\ next.request = i.request
      /\ next.source = i.source /\ next.backup = i.backup /\ installer' = [installer EXCEPT ![p] = next]
  BY <1>1, <1>2, AtPlace
<1>4. i.version \in Versions /\ target \in [Versions -> Trees] /\ Knowing(tool, i, Here(p), backups[i.version])
  BY <1>2, Worker DEF Version
<1>5. target' \in [Versions -> Trees] /\ target'[i.version] = NoTree
  BY <1>1, <1>4, SomeTrees
<1> HIDE DEF next
<1>6. \A tree : Accepts(tool, next, tree) <=> Accepts(tool, i, tree)
  BY <1>3, SameRequest
<1>7. next.backup = NoSlot => \A b \in Slots : ~Accepts(tool, next, backups[i.version][b])
  BY <1>1, <1>3, <1>4, <1>6 DEF Knowing
<1>8. Knowing(tool, next, target'[next.version], backups'[next.version]) /\ Prepared(next, staged'[p])
  BY <1>1, <1>3, <1>5, <1>7 DEF Knowing, Prepared
<1>9. /\ next.pc \in Working /\ holder' = holder /\ staged' \in [Installers -> Trees] /\ litter' \in BOOLEAN
      /\ backups' \in [Versions -> [Slots -> Trees]] /\ mishaps' \in 0 .. MaxMishaps
      /\ tool' = tool /\ orphan' = orphan /\ selection' = selection /\ meddling' = meddling
  BY <1>1, <1>2, <1>3, Worker
<1> QED
  BY <1>2, <1>3, <1>5, <1>8, <1>9, WorksOn

(* A backup that was chosen takes the place of the target.                   *)
LEMMA RestoreStep ==
  ASSUME InstallInv, NEW p \in Installers, Restore(p) PROVE InstallInv'
<1> DEFINE i == installer[p]
           b == installer[p].backup
<1>1. /\ UNCHANGED <<tool, staged, litter, orphan, selection, mishaps, meddling>> /\ i.pc = "restoring"
  BY DEF Restore, Stands
<1>2. i.pc \in Working /\ i.version \in Versions /\ b \in Slots \cup {NoSlot, Ambiguous}
  BY <1>1, Worker DEF Working, Places, Idle, Processes
<1>3. CASE b = NoSlot
  <2> DEFINE next == [installer[p] EXCEPT !.pc = "missing"]
  <2>7. NoSlot # Ambiguous /\ NoSlot \notin Slots
    BY BackupAssumption DEF NoSlot, Ambiguous, Slots
  <2>1. Goes(p, "missing") /\ UNCHANGED <<target, backups, holder>>
    BY <1>3, <2>7 DEF Restore
  <2>2. "missing" \in Working /\ "missing" \in Places
    BY DEF Working, Places, Idle
  <2>3. /\ next \in Processes /\ next.pc = "missing" /\ next.version = i.version /\ next.request = i.request
        /\ next.source = i.source /\ next.backup = i.backup /\ next.seen = i.seen
        /\ installer' = [installer EXCEPT ![p] = next]
    BY <2>1, <2>2, AtPlace
  <2> HIDE DEF next
  <2>4. \A tree : Accepts(tool, next, tree) <=> Accepts(tool, i, tree)
    BY <2>3, SameRequest
  <2>5. Knowing(tool, i, target[i.version], backups[i.version])
    BY Worker DEF Here, Version
  <2>6. Knowing(tool, next, target'[next.version], backups'[next.version]) /\ Prepared(next, staged'[p])
    BY <1>1, <1>3, <2>1, <2>3, <2>4, <2>5 DEF Knowing, Prepared
  <2> QED
    BY <1>1, <1>2, <2>1, <2>2, <2>3, <2>6, LooksOn
<1>4. CASE b # NoSlot /\ (b = Ambiguous \/ (b \in Slots /\ Here(p) # NoTree))
  <2>1. Ends(p, "failed") /\ UNCHANGED <<target, backups>>
    BY <1>4 DEF Restore
  <2> QED
    BY <1>1, <2>1, Worker, Leaves DEF Ends
<1>5. CASE b \in Slots /\ b # NoSlot /\ b # Ambiguous /\ Here(p) = NoTree
  <2> DEFINE next == [installer[p] EXCEPT !.pc = "revalidating"]
  <2>1. /\ Goes(p, "revalidating") /\ holder' = holder
        /\ target' = [target EXCEPT ![i.version] = backups[i.version][b]]
        /\ backups' = [backups EXCEPT ![i.version][b] = NoTree]
    BY <1>5 DEF Restore, Version
  <2>2. "revalidating" \in Working /\ "revalidating" \in Places
    BY DEF Working, Places, Idle
  <2>3. /\ next \in Processes /\ next.pc = "revalidating" /\ next.version = i.version
        /\ installer' = [installer EXCEPT ![p] = next]
    BY <2>1, <2>2, AtPlace
  <2> HIDE DEF next
  <2>4. target' \in [Versions -> Trees] /\ backups' \in [Versions -> [Slots -> Trees]]
    <3>1. /\ target \in [Versions -> Trees] /\ backups \in [Versions -> [Slots -> Trees]]
          /\ i.version \in Versions /\ b \in Slots
      BY <1>2, <1>5, Worker
    <3>2. backups[i.version] \in [Slots -> Trees] /\ backups[i.version][b] \in Trees
      BY <3>1
    <3>3. target' \in [Versions -> Trees]
      BY <2>1, <3>1, <3>2
    <3>4. backups' = [backups EXCEPT ![i.version] = [backups[i.version] EXCEPT ![b] = NoTree]]
      BY <2>1
    <3>5. [backups[i.version] EXCEPT ![b] = NoTree] \in [Slots -> Trees]
      BY <3>1, <3>2, SomeTrees
    <3> HIDE DEF i, b
    <3> QED
      BY <3>1, <3>3, <3>4, <3>5
  <2>5. Knowing(tool, next, target'[next.version], backups'[next.version]) /\ Prepared(next, staged'[p])
    BY <2>3 DEF Knowing, Prepared
  <2>6. /\ next.pc \in Working /\ holder' = holder /\ staged' \in [Installers -> Trees] /\ litter' \in BOOLEAN
        /\ mishaps' \in 0 .. MaxMishaps
        /\ tool' = tool /\ orphan' = orphan /\ selection' = selection /\ meddling' = meddling
    BY <1>1, <2>1, <2>2, <2>3, Worker
  <2> QED
    BY <1>2, <2>3, <2>4, <2>5, <2>6, WorksOn
<1> QED
  BY <1>2, <1>3, <1>4, <1>5

(* What was restored is looked at again.                                     *)
LEMMA RevalidateStep ==
  ASSUME InstallInv, NEW p \in Installers, Revalidate(p) PROVE InstallInv'
<1> DEFINE i == installer[p]
           next == [installer[p] EXCEPT !.pc = "tidying", !.seen = TRUE]
<1>1. /\ UNCHANGED <<tool, target, backups, staged, litter, orphan, selection, mishaps, meddling>>
      /\ i.pc = "revalidating"
  BY DEF Revalidate, Stands
<1>2. i.pc \in Working /\ "tidying" \in Working /\ "tidying" \in Places
  BY <1>1 DEF Working, Places, Idle
<1>3. CASE Fits(p, Here(p))
  <2>1. Looked(p, "tidying") /\ holder' = holder
    BY <1>3 DEF Revalidate
  <2>2. /\ next \in Processes /\ next.pc = "tidying" /\ next.version = i.version /\ next.request = i.request
        /\ next.source = i.source /\ installer' = [installer EXCEPT ![p] = next]
    BY <1>2, <2>1, AtPlaceSeen
  <2> HIDE DEF next
  <2>3. Accepts(tool, next, Here(p))
    BY <1>3, <2>2, FitsAccepts, SameRequest
  <2>4. Knowing(tool, next, target'[next.version], backups'[next.version]) /\ Prepared(next, staged'[p])
    BY <1>1, <2>2, <2>3 DEF Knowing, Prepared, Here, Version
  <2> QED
    BY <1>1, <1>2, <2>1, <2>2, <2>4, LooksOn
<1>4. CASE ~Fits(p, Here(p))
  <2>1. Ends(p, "failed")
    BY <1>4 DEF Revalidate
  <2> QED
    BY <1>1, <1>2, <2>1, Worker, Leaves DEF Ends
<1> QED
  BY <1>3, <1>4

(* What earlier installers left is removed, as far as it can be.             *)
LEMMA TidyAllStep ==
  ASSUME InstallInv, NEW p \in Installers, TidyAll(p) PROVE InstallInv'
<1> DEFINE i == installer[p]
           pc == IF i.pc = "tidying" THEN "finishing" ELSE "resolving"
           next == [installer[p] EXCEPT !.pc = pc]
<1>1. /\ UNCHANGED <<tool, target, orphan, holder, selection, meddling>>
      /\ i.pc \in {"tidying", "missing"} /\ Goes(p, pc) /\ mishaps' \in 0 .. MaxMishaps
  BY Worker, Mishaps DEF TidyAll, Stands
<1>2. i.pc \in Working /\ pc \in Working /\ pc \in Places /\ pc \in {"finishing", "resolving"}
  BY <1>1 DEF Working, Places, Idle
<1> HIDE DEF pc
<1>3. /\ next \in Processes /\ next.pc = pc /\ next.version = i.version
      /\ installer' = [installer EXCEPT ![p] = next]
  BY <1>1, <1>2, AtPlace
<1> HIDE DEF next
<1>4. staged' \in [Installers -> Trees] /\ litter' \in BOOLEAN
  <2>1. \/ staged' = [q \in Installers |-> NoTree] /\ litter' = FALSE
        \/ staged' = staged /\ litter' = litter
    BY DEF TidyAll
  <2>2. NoTree \in Trees
    BY SomeTrees
  <2>3. staged \in [Installers -> Trees] /\ litter \in BOOLEAN
    BY Worker
  <2> QED
    BY <2>1, <2>2, <2>3
<1>5. backups' \in [Versions -> [Slots -> Trees]]
  <2>1. i.version \in Versions /\ backups \in [Versions -> [Slots -> Trees]]
    BY <1>2, Worker
  <2>2. CASE backups' = [backups EXCEPT ![i.version] = [b \in Slots |-> NoTree]]
    BY <2>1, <2>2, SomeTrees
  <2>3. ASSUME NEW b \in Slots, NEW left \in Remains(backups[i.version][b]),
               backups' = [backups EXCEPT ![i.version] = [c \in Slots |-> IF c = b THEN left ELSE NoTree]]
        PROVE  backups' \in [Versions -> [Slots -> Trees]]
    <3>1. left \in Trees
      BY <2>1, SomeTrees
    <3> QED
      BY <2>1, <2>3, <3>1, SomeTrees
  <2> QED
    BY <2>2, <2>3 DEF TidyAll, Version
<1>6. Knowing(tool, next, target'[next.version], backups'[next.version]) /\ Prepared(next, staged'[p])
  BY <1>2, <1>3 DEF Knowing, Prepared
<1> HIDE DEF i
<1> QED
  BY <1>1, <1>2, <1>3, <1>4, <1>5, <1>6, Worker, WorksOn DEF i

(* The source is asked what it serves.                                       *)
LEMMA ResolveStep ==
  ASSUME InstallInv, NEW p \in Installers, Resolve(p) PROVE InstallInv'
<1>1. /\ UNCHANGED <<tool, target, backups, staged, litter, orphan, selection, mishaps, meddling>>
      /\ installer[p].pc = "resolving"
  BY DEF Resolve, Stands
<1>2. installer[p].pc \in Working
  BY <1>1 DEF Working, Places, Idle
<1>3. ASSUME NEW s \in Trusts, holder' = holder,
             installer' = [installer EXCEPT ![p].pc = "staging", ![p].source = s]
      PROVE  InstallInv'
  <2> DEFINE next == [installer[p] EXCEPT !.pc = "staging", !.source = s]
  <2>1. installer' = [installer EXCEPT ![p] = next]
    BY <1>3
  <2>2. next \in Processes /\ next.pc = "staging" /\ next.version = installer[p].version
    <3>1. installer[p] \in Processes
      BY Worker
    <3>2. "staging" \in Places
      BY DEF Places
    <3> QED
      BY <3>1, <3>2 DEF Processes
  <2>3. next.pc \in Working
    BY <2>2 DEF Working, Idle, Places
  <2>4. Prepared(next, staged'[p]) /\ Knowing(tool, next, target'[next.version], backups'[next.version])
    BY <2>2 DEF Prepared, Knowing
  <2> HIDE DEF next
  <2> QED
    BY <1>1, <1>2, <1>3, <2>1, <2>2, <2>3, <2>4, LooksOn
<1>4. CASE Ends(p, "failed")
  BY <1>1, <1>2, <1>4, Worker, Leaves DEF Ends
<1> QED
  BY <1>3, <1>4 DEF Resolve

(* What was staged is right, or is discarded.                                *)
LEMMA PublishStep ==
  ASSUME InstallInv, NEW p \in Installers, Publish(p) PROVE InstallInv'
<1> DEFINE i == installer[p]
<1>1. /\ UNCHANGED <<tool, target, backups, litter, orphan, selection, mishaps, meddling>>
      /\ i.pc = "publishing"
  BY DEF Publish, Stands
<1>2. i.pc \in Working /\ i \in Processes /\ Prepared(i, staged[p])
  BY <1>1, Worker DEF Working, Places, Idle
<1>3. CASE Fits(p, staged[p])
  <2> DEFINE pc == IF Here(p) = NoTree THEN "moving" ELSE "preserving"
             next == [installer[p] EXCEPT !.backup = NoSlot, !.moved = FALSE, !.seen = TRUE, !.pc = pc]
  <2>1. pc \in {"moving", "preserving"} /\ pc \in Working /\ pc \in Places
    BY DEF Working, Places, Idle
  <2>2. installer' = [installer EXCEPT ![p] = next] /\ UNCHANGED <<staged, holder>>
    BY <1>3 DEF Publish
  <2> HIDE DEF pc
  <2>3. /\ next \in Processes /\ next.pc = pc /\ next.version = i.version /\ next.source = i.source /\ ~next.moved
    BY <1>2, <2>1 DEF Processes
  <2> HIDE DEF next
  <2>4. Knowing(tool, next, target'[next.version], backups'[next.version]) /\ Prepared(next, staged'[p])
    BY <1>1, <1>2, <2>1, <2>2, <2>3 DEF Knowing, Prepared
  <2> QED
    BY <1>1, <1>2, <2>1, <2>2, <2>3, <2>4, LooksOn
<1>4. CASE ~Fits(p, staged[p])
  <2>1. staged' = [staged EXCEPT ![p] = NoTree] /\ Ends(p, "failed")
    BY <1>4 DEF Publish, Discarded
  <2>2. staged' \in [Installers -> Trees]
    BY <2>1, Worker, SomeTrees
  <2> QED
    BY <1>1, <1>2, <2>1, <2>2, Worker, Leaves DEF Ends
<1> QED
  BY <1>3, <1>4

(* The previous target becomes the newest backup.                            *)
LEMMA PreserveStep ==
  ASSUME InstallInv, NEW p \in Installers, Preserve(p) PROVE InstallInv'
<1> DEFINE i == installer[p]
<1>1. /\ UNCHANGED <<tool, staged, litter, orphan, holder, selection, mishaps, meddling>>
      /\ i.pc = "preserving"
  BY DEF Preserve, Stands
<1>2. PICK b \in Slots : /\ backups' = [backups EXCEPT ![i.version][b] = Here(p)]
                         /\ target' = [target EXCEPT ![i.version] = NoTree]
                         /\ installer' = [installer EXCEPT ![p].pc = "moving", ![p].backup = b]
  BY DEF Preserve, NewSlots, Version
<1> DEFINE next == [installer[p] EXCEPT !.pc = "moving", !.backup = b]
<1>3. /\ i.pc \in Working /\ i \in Processes /\ i.version \in Versions /\ Here(p) \in Trees
      /\ Prepared(i, staged[p]) /\ Knowing(tool, i, Here(p), backups[Version(p)])
      /\ target \in [Versions -> Trees] /\ backups \in [Versions -> [Slots -> Trees]]
  BY <1>1, Worker DEF Working, Places, Idle
<1>4. "moving" \in Working /\ "moving" \in Places
  BY DEF Working, Places, Idle
<1>5. /\ next \in Processes /\ next.pc = "moving" /\ next.version = i.version /\ next.source = i.source
      /\ next.moved = i.moved
  BY <1>3, <1>4 DEF Processes
<1>6. installer' = [installer EXCEPT ![p] = next]
  BY <1>2
<1> HIDE DEF next
<1>7. target' \in [Versions -> Trees]
  BY <1>2, <1>3, SomeTrees
<1>8. backups' \in [Versions -> [Slots -> Trees]]
  <2>1. backups' = [backups EXCEPT ![i.version] = [backups[i.version] EXCEPT ![b] = Here(p)]]
    BY <1>2
  <2>2. [backups[i.version] EXCEPT ![b] = Here(p)] \in [Slots -> Trees]
    BY <1>3
  <2> HIDE DEF i
  <2> QED
    BY <1>3, <2>1, <2>2
<1>9. Knowing(tool, next, target'[next.version], backups'[next.version])
  BY <1>1, <1>3, <1>5 DEF Knowing
<1>10. Prepared(next, staged'[p])
  BY <1>1, <1>3, <1>5 DEF Prepared
<1>11. /\ next.pc \in Working /\ holder' = holder /\ staged' \in [Installers -> Trees] /\ litter' \in BOOLEAN
       /\ mishaps' \in 0 .. MaxMishaps
       /\ tool' = tool /\ orphan' = orphan /\ selection' = selection /\ meddling' = meddling
  BY <1>1, <1>4, <1>5, Worker
<1> QED
  BY <1>3, <1>5, <1>6, <1>7, <1>8, <1>9, <1>10, <1>11, WorksOn

(* The staged directory becomes the target, if the way is free.              *)
LEMMA MoveStagedStep ==
  ASSUME InstallInv, NEW p \in Installers, MoveStaged(p) \/ MoveFails(p) PROVE InstallInv'
<1> DEFINE i == installer[p]
<1>1. /\ UNCHANGED <<tool, backups, litter, orphan, holder, selection, meddling>>
      /\ i.pc = "moving" /\ mishaps' \in 0 .. MaxMishaps
  BY Worker, Mishaps DEF MoveStaged, MoveFails, Stands
<1>2. /\ i.pc \in Working /\ i \in Processes /\ i.version \in Versions /\ ~i.moved /\ staged[p] \in Trees
      /\ installer \in [Installers -> Processes] /\ staged \in [Installers -> Trees] /\ target \in [Versions -> Trees]
  BY <1>1, Worker DEF Working, Places, Idle, Knowing
<1>3. CASE MoveStaged(p) /\ Here(p) = NoTree
  <2> DEFINE next == [installer[p] EXCEPT !.pc = "validating", !.moved = TRUE]
  <2>1. /\ target' = [target EXCEPT ![i.version] = staged[p]] /\ staged' = [staged EXCEPT ![p] = NoTree]
        /\ installer' = [installer EXCEPT ![p] = next]
    BY <1>3 DEF MoveStaged, Version, Discarded
  <2>2. "validating" \in Working /\ "validating" \in Places
    BY DEF Working, Places, Idle
  <2>3. next \in Processes /\ next.pc = "validating" /\ next.version = i.version
    BY <1>2, <2>2 DEF Processes
  <2> HIDE DEF next
  <2>4. target' \in [Versions -> Trees] /\ staged' \in [Installers -> Trees]
    BY <1>2, <2>1, SomeTrees
  <2>5. Knowing(tool, next, target'[next.version], backups'[next.version]) /\ Prepared(next, staged'[p])
    BY <2>3 DEF Knowing, Prepared
  <2>6. /\ next.pc \in Working /\ holder' = holder /\ litter' \in BOOLEAN /\ mishaps' \in 0 .. MaxMishaps
        /\ backups' \in [Versions -> [Slots -> Trees]]
        /\ tool' = tool /\ orphan' = orphan /\ selection' = selection /\ meddling' = meddling
    BY <1>1, <2>2, <2>3, Worker
  <2>7. installer' = [installer EXCEPT ![p] = next]
    BY <2>1
  <2> QED
    BY <1>2, <2>3, <2>4, <2>5, <2>6, <2>7, WorksOn
<1>4. CASE Goes(p, "undoing") /\ UNCHANGED <<target, staged>>
  <2> DEFINE next == [installer[p] EXCEPT !.pc = "undoing"]
  <2>1. "undoing" \in Working /\ "undoing" \in Places
    BY DEF Working, Places, Idle
  <2>2. /\ next \in Processes /\ next.pc = "undoing" /\ next.version = i.version /\ next.moved = i.moved
        /\ installer' = [installer EXCEPT ![p] = next]
    BY <1>2, <1>4, <2>1, AtPlace
  <2> HIDE DEF next
  <2>3. Knowing(tool, next, target'[next.version], backups'[next.version]) /\ Prepared(next, staged'[p])
    BY <1>2, <2>2 DEF Knowing, Prepared
  <2> QED
    BY <1>1, <1>2, <1>4, <2>1, <2>2, <2>3, LooksOn
<1> QED
  BY <1>3, <1>4 DEF MoveStaged, MoveFails

(* The new target is validated where it is.                                  *)
LEMMA ValidateTargetStep ==
  ASSUME InstallInv, NEW p \in Installers, ValidateTarget(p) PROVE InstallInv'
<1> DEFINE i == installer[p]
           pc == IF Fits(p, Here(p)) THEN "cleaning" ELSE "undoing"
           next == [installer[p] EXCEPT !.pc = pc, !.seen = TRUE]
<1>1. /\ UNCHANGED <<tool, target, backups, staged, litter, orphan, holder, selection, mishaps, meddling>>
      /\ i.pc = "validating" /\ Looked(p, pc)
  BY DEF ValidateTarget, Stands
<1>2. i.pc \in Working /\ pc \in Working /\ pc \in Places /\ pc \in {"cleaning", "undoing"}
  BY <1>1 DEF Working, Places, Idle
<1>3. pc = "cleaning" <=> Fits(p, Here(p))
  OBVIOUS
<1> HIDE DEF pc
<1>4. /\ next \in Processes /\ next.pc = pc /\ next.version = i.version /\ next.request = i.request
      /\ next.source = i.source /\ installer' = [installer EXCEPT ![p] = next]
  BY <1>1, <1>2, AtPlaceSeen
<1> HIDE DEF next
<1>5. pc = "cleaning" <=> Accepts(tool, next, Here(p))
  BY <1>3, <1>4, FitsAccepts, SameRequest
<1>6. Knowing(tool, next, target'[next.version], backups'[next.version]) /\ Prepared(next, staged'[p])
  BY <1>1, <1>2, <1>4, <1>5 DEF Knowing, Prepared, Here, Version
<1> QED
  BY <1>1, <1>2, <1>4, <1>6, LooksOn

(* What is not valid there is removed again.                                 *)
LEMMA UndoStep ==
  ASSUME InstallInv, NEW p \in Installers, Undo(p) PROVE InstallInv'
<1> DEFINE i == installer[p]
           next == [installer[p] EXCEPT !.pc = "returning"]
<1>1. /\ UNCHANGED <<tool, backups, staged, litter, orphan, holder, selection, mishaps, meddling>>
      /\ i.pc = "undoing" /\ Goes(p, "returning")
      /\ target' = target \/ target' = [target EXCEPT ![i.version] = NoTree]
  BY DEF Undo, Stands, Version
<1>2. i.pc \in Working /\ "returning" \in Working /\ "returning" \in Places
  BY <1>1 DEF Working, Places, Idle
<1>3. /\ next \in Processes /\ next.pc = "returning" /\ next.version = i.version
      /\ installer' = [installer EXCEPT ![p] = next]
  <2>1. Goes(p, "returning") /\ installer \in [Installers -> Processes]
    BY <1>1, Worker
  <2> QED
    BY <1>2, <2>1, AtPlace
<1> HIDE DEF next
<1>4. target' \in [Versions -> Trees]
  <2>1. target \in [Versions -> Trees] /\ i.version \in Versions
    BY <1>2, Worker
  <2>2. NoTree \in Trees
    BY SomeTrees
  <2>3. target' = target \/ target' = [target EXCEPT ![i.version] = NoTree]
    BY <1>1
  <2> HIDE DEF i
  <2> QED
    BY <2>1, <2>2, <2>3
<1>5. Knowing(tool, next, target'[next.version], backups'[next.version]) /\ Prepared(next, staged'[p])
  BY <1>3 DEF Knowing, Prepared
<1>6. /\ next.pc \in Working /\ holder' = holder /\ staged' \in [Installers -> Trees] /\ litter' \in BOOLEAN
      /\ backups' \in [Versions -> [Slots -> Trees]] /\ mishaps' \in 0 .. MaxMishaps
      /\ tool' = tool /\ orphan' = orphan /\ selection' = selection /\ meddling' = meddling
  BY <1>1, <1>2, <1>3, Worker
<1> QED
  BY <1>2, <1>3, <1>4, <1>5, <1>6, WorksOn

(* The backup returns, and the installer ends.                               *)
LEMMA PutBackStep ==
  ASSUME InstallInv, NEW p \in Installers, PutBack(p) PROVE InstallInv'
<1> DEFINE i == installer[p]
           b == installer[p].backup
<1>1. /\ UNCHANGED <<tool, litter, orphan, selection, mishaps, meddling>>
      /\ i.pc = "returning" /\ staged' = [staged EXCEPT ![p] = NoTree] /\ Ends(p, "failed")
  BY DEF PutBack, Stands, Discarded
<1>2. /\ i.pc \in Working /\ i.version \in Versions /\ staged' \in [Installers -> Trees]
      /\ target \in [Versions -> Trees] /\ backups \in [Versions -> [Slots -> Trees]]
  BY <1>1, Worker, SomeTrees DEF Working, Places, Idle
<1>3. target' \in [Versions -> Trees] /\ backups' \in [Versions -> [Slots -> Trees]]
  <2>1. CASE b \in Slots /\ Here(p) = NoTree
    <3>1. target' = [target EXCEPT ![i.version] = backups[i.version][b]]
      BY <2>1 DEF PutBack, Version
    <3>2. backups' = [backups EXCEPT ![i.version] = [backups[i.version] EXCEPT ![b] = NoTree]]
      BY <2>1 DEF PutBack, Version
    <3>3. backups[i.version] \in [Slots -> Trees] /\ backups[i.version][b] \in Trees
      BY <1>2, <2>1
    <3>4. [backups[i.version] EXCEPT ![b] = NoTree] \in [Slots -> Trees]
      BY <2>1, <3>3, SomeTrees
    <3> HIDE DEF i, b
    <3> QED
      BY <1>2, <3>1, <3>2, <3>3, <3>4
  <2>2. CASE ~(b \in Slots /\ Here(p) = NoTree)
    BY <1>2, <2>2 DEF PutBack
  <2> QED
    BY <2>1, <2>2
<1> QED
  BY <1>1, <1>2, <1>3, Worker, Leaves DEF Ends

(* The backup that is no longer needed is removed, as far as it can be.      *)
LEMMA CleanUpStep ==
  ASSUME InstallInv, NEW p \in Installers, CleanUp(p) PROVE InstallInv'
<1> DEFINE i == installer[p]
           b == installer[p].backup
           next == [installer[p] EXCEPT !.pc = "finishing"]
<1>1. /\ UNCHANGED <<tool, target, staged, litter, orphan, holder, selection, meddling>>
      /\ i.pc = "cleaning" /\ Goes(p, "finishing") /\ mishaps' \in 0 .. MaxMishaps
  BY Worker, Mishaps DEF CleanUp, Stands
<1>2. i.pc \in Working /\ "finishing" \in Working /\ "finishing" \in Places
  BY <1>1 DEF Working, Places, Idle
<1>3. /\ next \in Processes /\ next.pc = "finishing" /\ next.version = i.version
      /\ installer' = [installer EXCEPT ![p] = next]
  BY <1>1, <1>2, AtPlace
<1> HIDE DEF next
<1>4. backups' \in [Versions -> [Slots -> Trees]]
  <2>1. i.version \in Versions /\ backups \in [Versions -> [Slots -> Trees]]
    BY <1>2, Worker
  <2>2. ASSUME NEW left \in Trees, b \in Slots, backups' = [backups EXCEPT ![i.version][b] = left]
        PROVE  backups' \in [Versions -> [Slots -> Trees]]
    <3>1. backups' = [backups EXCEPT ![i.version] = [backups[i.version] EXCEPT ![b] = left]]
      BY <2>2
    <3>2. [backups[i.version] EXCEPT ![b] = left] \in [Slots -> Trees]
      BY <2>1, <2>2
    <3> HIDE DEF i, b
    <3> QED
      BY <2>1, <3>1, <3>2
  <2>3. b \in Slots => Remains(backups[i.version][b]) \subseteq Trees
    BY <2>1, SomeTrees
  <2> QED
    BY <2>1, <2>2, <2>3, SomeTrees DEF CleanUp, Version
<1>5. Knowing(tool, next, target'[next.version], backups'[next.version]) /\ Prepared(next, staged'[p])
  BY <1>3 DEF Knowing, Prepared
<1>6. /\ next.pc \in Working /\ holder' = holder /\ litter' \in BOOLEAN /\ mishaps' \in 0 .. MaxMishaps
      /\ target' \in [Versions -> Trees] /\ staged' \in [Installers -> Trees]
      /\ tool' = tool /\ orphan' = orphan /\ selection' = selection /\ meddling' = meddling
  BY <1>1, <1>2, <1>3, Worker
<1> QED
  BY <1>2, <1>3, <1>4, <1>5, <1>6, WorksOn

(* The end of an installation, and what `latest` stands for.                 *)
LEMMA FinishStep ==
  ASSUME InstallInv, NEW p \in Installers, Finish(p) PROVE InstallInv'
<1> DEFINE next == [installer[p] EXCEPT !.pc = "selecting"]
<1>1. /\ UNCHANGED <<tool, target, backups, staged, litter, orphan, selection, mishaps, meddling>>
      /\ installer[p].pc = "finishing"
      /\ Ends(p, "installed") \/ Ends(p, "failed") \/ (Goes(p, "selecting") /\ holder' = holder)
  BY DEF Finish, Stands
<1>2. installer[p].pc \in Working /\ "selecting" \in Working /\ "selecting" \in Places
  BY <1>1 DEF Working, Places, Idle
<1>3. CASE Ends(p, "installed") \/ Ends(p, "failed")
  BY <1>1, <1>3, Worker, Leaves DEF Ends
<1>4. CASE Goes(p, "selecting") /\ holder' = holder
  <2>1. /\ next \in Processes /\ next.pc = "selecting" /\ next.version = installer[p].version
        /\ installer' = [installer EXCEPT ![p] = next]
    BY <1>2, <1>4, AtPlace
  <2> HIDE DEF next
  <2>2. Knowing(tool, next, target'[next.version], backups'[next.version]) /\ Prepared(next, staged'[p])
    BY <2>1 DEF Knowing, Prepared
  <2>3. /\ next.pc \in Working /\ litter' \in BOOLEAN /\ mishaps' \in 0 .. MaxMishaps
        /\ target' \in [Versions -> Trees] /\ staged' \in [Installers -> Trees]
        /\ backups' \in [Versions -> [Slots -> Trees]]
        /\ tool' = tool /\ orphan' = orphan /\ selection' = selection /\ meddling' = meddling
    BY <1>1, <1>2, <2>1, Worker
  <2> QED
    BY <1>2, <1>4, <2>1, <2>2, <2>3, WorksOn
<1> QED
  BY <1>1, <1>3, <1>4

(* The selection is made once.                                               *)
LEMMA SelectStep ==
  ASSUME InstallInv, NEW p \in Installers, Select(p) PROVE InstallInv'
<1>1. /\ UNCHANGED <<tool, target, backups, staged, litter, orphan, mishaps, meddling>>
      /\ installer[p].pc = "selecting" /\ (Ends(p, "installed") \/ Ends(p, "failed"))
  BY DEF Select, Stands
<1>2. installer[p].version \in Versions /\ installer[p].source \in Trusts /\ selection \in Selections
  BY <1>1, Worker DEF Working, Places, Idle, Processes
<1>3. selection' \in Selections
  BY <1>2 DEF Select, Selections, Version
<1> QED
  BY <1>1, <1>3, Worker, Leaves DEF Ends, Working, Places, Idle

(* What a call that fails or a death leaves of the target.                   *)
LEMMA LeftTarget ==
  ASSUME InstallInv, NEW p \in Installers,
         IF Stands(p, "removing") \/ (Stands(p, "undoing") /\ installer[p].moved)
         THEN \E left \in Remains(Here(p)) : target' = [target EXCEPT ![Version(p)] = left]
         ELSE UNCHANGED target
  PROVE  target' \in [Versions -> Trees] /\ (installer[p].pc \notin Working => target' = target)
<1>1. installer[p].pc \in {"removing", "undoing"} => installer[p].pc \in Working
  BY DEF Working, Places, Idle
<1>2. CASE installer[p].pc \in Working
  <2>1. Version(p) \in Versions /\ Here(p) \in Trees /\ target \in [Versions -> Trees]
    BY <1>2, Worker
  <2>2. Remains(Here(p)) \subseteq Trees
    BY <2>1, SomeTrees
  <2> QED
    BY <1>2, <2>1, <2>2
<1>3. CASE installer[p].pc \notin Working
  BY <1>1, <1>3, Worker DEF Stands
<1> QED
  BY <1>2, <1>3

(* A call that fails.                                                        *)
LEMMA PathFailsStep ==
  ASSUME InstallInv, NEW p \in Installers, PathFails(p) PROVE InstallInv'
<1>1. /\ UNCHANGED <<tool, backups, litter, orphan, selection, meddling>>
      /\ Ends(p, "failed") /\ mishaps' \in 0 .. MaxMishaps /\ installer[p].pc \in Working
  BY Worker, Mishaps DEF PathFails, Working, Places, Idle
<1>2. target' \in [Versions -> Trees]
  BY LeftTarget DEF PathFails
<1>3. staged' \in [Installers -> Trees]
  <2>1. staged \in [Installers -> Trees] /\ NoTree \in Trees
    BY Worker, SomeTrees
  <2>2. staged' = staged \/ staged' = [staged EXCEPT ![p] = NoTree]
    BY DEF PathFails, Discarded
  <2> QED
    BY <2>1, <2>2
<1> QED
  BY <1>1, <1>2, <1>3, Worker, Leaves DEF Ends

(* A death.                                                                  *)
LEMMA KilledStep ==
  ASSUME InstallInv, NEW p \in Installers, Killed(p) PROVE InstallInv'
<1>1. /\ UNCHANGED <<tool, backups, selection, meddling>> /\ Unlock(p) /\ mishaps' \in 0 .. MaxMishaps
      /\ staged' = [staged EXCEPT ![p] = NoTree] /\ installer' = [installer EXCEPT ![p] = NewInstaller]
  BY Worker, Mishaps DEF Killed
<1>2. target' \in [Versions -> Trees] /\ (installer[p].pc \notin Working => target' = target)
  BY LeftTarget DEF Killed
<1>3. staged' \in [Installers -> Trees] /\ \A q \in Installers \ {p} : staged'[q] = staged[q]
  BY <1>1, Worker, SomeTrees
<1>4. litter' \in BOOLEAN /\ orphan' \in BOOLEAN
  BY Worker DEF Killed
<1>5. NewInstaller = [NewInstaller EXCEPT !.pc = "idle"]
  <2>1. NewInstaller \in Processes
    BY DEF NewInstaller, Processes, Places, Requests, Trusts
  <2>2. NewInstaller.pc = "idle"
    BY DEF NewInstaller
  <2> QED
    BY <2>1, <2>2 DEF Processes
<1> QED
  BY <1>1, <1>2, <1>3, <1>4, <1>5, Worker, Leaves

(* A version that is changed from outside: who looked at it has not.         *)
LEMMA MeddleWithTargetStep ==
  ASSUME InstallInv, MeddleWithTarget PROVE InstallInv'
<1>1. /\ tool \in {"archive", "rust", "msvc"} /\ installer \in [Installers -> Processes]
      /\ target \in [Versions -> Trees] /\ backups \in [Versions -> [Slots -> Trees]]
      /\ staged \in [Installers -> Trees] /\ litter \in BOOLEAN /\ orphan \in BOOLEAN
      /\ holder \in [Versions \cup {"all"} -> Installers \cup {"no one"}]
      /\ selection \in Selections /\ mishaps \in 0 .. MaxMishaps /\ meddling \in 0 .. MaxMeddling
  BY InstallTypes DEF InstallInv
<1>2. /\ UNCHANGED <<tool, backups, staged, litter, orphan, holder, selection, mishaps>>
      /\ meddling' \in 0 .. MaxMeddling
  <2>1. /\ UNCHANGED <<tool, backups, staged, litter, orphan, holder, selection, mishaps>>
        /\ meddling < MaxMeddling /\ meddling' = meddling + 1
    BY DEF MeddleWithTarget
  <2>2. MaxMeddling \in Nat /\ meddling \in 0 .. MaxMeddling
    BY <1>1, MishapAssumption
  <2>3. meddling' \in 0 .. MaxMeddling
    BY <2>1, <2>2
  <2> QED
    BY <2>1, <2>3
<1>3. PICK v \in Versions, new \in Trees :
        /\ target' = [target EXCEPT ![v] = new]
        /\ installer' = [p \in Installers |-> [installer[p] EXCEPT !.seen = @ /\ Version(p) # v]]
  <2>1. \A w \in Versions : Remains(target[w]) \subseteq Trees
    BY <1>1, SomeTrees
  <2>2. NoTree \in Trees /\ \A s \in {"github", "project", "official"} : Tree(s, TRUE) \in Trees
    BY DEF Trees, Tree, NoTree, Sources, Trusts
  <2>3. PICK v \in Versions :
          \E new \in {NoTree} \cup {Tree(s, TRUE) : s \in IF tool = "archive" THEN {"github", "project"}
                                                                           ELSE {"official"}}
                              \cup Remains(target[v]) :
            /\ target' = [target EXCEPT ![v] = new]
            /\ installer' = [p \in Installers |-> [installer[p] EXCEPT !.seen = @ /\ Version(p) # v]]
    BY DEF MeddleWithTarget
  <2>4. PICK new \in {NoTree} \cup {Tree(s, TRUE) : s \in IF tool = "archive" THEN {"github", "project"}
                                                                           ELSE {"official"}}
                             \cup Remains(target[v]) :
          /\ target' = [target EXCEPT ![v] = new]
          /\ installer' = [p \in Installers |-> [installer[p] EXCEPT !.seen = @ /\ Version(p) # v]]
    BY <2>3
  <2>5. new \in Trees
    BY <2>1, <2>2
  <2> QED
    BY <2>4, <2>5
<1>4. target' \in [Versions -> Trees] /\ \A w \in Versions : w # v => target'[w] = target[w]
  BY <1>1, <1>3
<1>5. ASSUME NEW p \in Installers
      PROVE  /\ installer'[p] \in Processes
             /\ installer'[p].pc = installer[p].pc /\ installer'[p].version = installer[p].version
             /\ installer'[p].request = installer[p].request /\ installer'[p].source = installer[p].source
             /\ installer'[p].backup = installer[p].backup /\ installer'[p].moved = installer[p].moved
             /\ installer'[p].seen => installer[p].seen /\ installer[p].version # v
  <2>1. installer[p] \in Processes /\ (installer[p].seen /\ Version(p) # v) \in BOOLEAN
    BY <1>1 DEF Processes
  <2>2. installer'[p] = [installer[p] EXCEPT !.seen = installer[p].seen /\ Version(p) # v]
    BY <1>3
  <2> QED
    BY <2>1, <2>2 DEF Processes, Version
<1>6. installer' \in [Installers -> Processes]
  BY <1>3, <1>5
<1>7. InstallTypeOK'
  BY <1>1, <1>2, <1>4, <1>6, InstallTypesNext
<1>8. ASSUME NEW p \in Installers
      PROVE  /\ installer'[p].pc \in Working <=> holder'["all"] = p
             /\ Chosen(installer'[p])
             /\ Knowing(tool', installer'[p], target'[installer'[p].version], backups'[installer'[p].version])
             /\ Prepared(installer'[p], staged'[p])
  <2> DEFINE i == installer[p]
             j == installer'[p]
  <2>1. /\ i.pc \in Working <=> holder["all"] = p
        /\ Chosen(i) /\ Prepared(i, staged[p]) /\ Knowing(tool, i, target[i.version], backups[i.version])
        /\ i.pc \in Working => i.version \in Versions
    BY Worker DEF Here, Version
  <2>2. j.pc \in Working <=> holder'["all"] = p
    BY <1>2, <1>5, <2>1
  <2>3. Chosen(j) /\ Prepared(j, staged'[p])
    BY <1>2, <1>5, <2>1 DEF Chosen, Prepared
  <2>4. \A t, tree : Accepts(t, j, tree) <=> Accepts(t, i, tree)
    BY <1>5, SameRequest
  <2>5. {"removing", "restoring", "missing", "tidying", "cleaning", "undoing"} \subseteq Working
    BY DEF Working, Places, Idle
  <2>6. i.pc \in Working /\ j.seen => i.seen /\ target'[j.version] = target[i.version]
    BY <1>4, <1>5, <2>1
  <2>7. backups'[j.version] = backups[i.version] /\ j.pc = i.pc /\ j.backup = i.backup /\ j.moved = i.moved
    BY <1>2, <1>5
  <2> HIDE DEF i, j
  <2>8. Knowing(tool, j, target'[j.version], backups'[j.version])
    BY <2>1, <2>4, <2>5, <2>6, <2>7 DEF Knowing
  <2> QED
    BY <1>2, <2>2, <2>3, <2>8 DEF j
<1> QED
  BY <1>7, <1>8 DEF InstallInv, Here, Version

(* An orphan of the Windows Installer writes to what nobody uses any more.   *)
LEMMA OrphanWritesStep ==
  ASSUME InstallInv, OrphanWrites PROVE InstallInv'
<1>1. /\ UNCHANGED <<tool, target, backups, staged, holder, selection, installer, mishaps, meddling>>
      /\ orphan' \in BOOLEAN /\ litter' \in BOOLEAN
  BY DEF OrphanWrites
<1>2. InstallTypeOK'
  BY <1>1, InstallTypes, InstallTypesNext DEF InstallInv
<1> QED
  BY <1>1, <1>2 DEF InstallInv, Here, Version

(* Every step of an installer.                                               *)
LEMMA InstallSteps ==
  ASSUME InstallInv, NEW p \in Installers, InstallStep(p) PROVE InstallInv'
<1>1. CASE Request(p)
  BY <1>1, RequestStep
<1>2. CASE TakeLock(p)
  BY <1>2, TakeLockStep
<1>3. CASE Recover(p)
  BY <1>3, RecoverStep
<1>4. CASE RemoveInvalid(p)
  BY <1>4, RemoveInvalidStep
<1>5. CASE Restore(p)
  BY <1>5, RestoreStep
<1>6. CASE Revalidate(p)
  BY <1>6, RevalidateStep
<1>7. CASE TidyAll(p)
  BY <1>7, TidyAllStep
<1>8. CASE Resolve(p)
  BY <1>8, ResolveStep
<1>9. CASE \/ StageArchive(p) \/ StartRustup(p) \/ RustupEnds(p) \/ StageMsvc(p) \/ MsiexecEnds(p)
           \/ ProbeArchive(p) \/ ProbeRust(p) \/ Assemble(p)
           \/ RecordArchive(p) \/ RecordRust(p) \/ RecordMsvc(p)
  BY <1>9, StagingSteps
<1>10. CASE StageFails(p)
  BY <1>10, StageFailsStep
<1>11. CASE Publish(p)
  BY <1>11, PublishStep
<1>12. CASE Preserve(p)
  BY <1>12, PreserveStep
<1>13. CASE MoveStaged(p) \/ MoveFails(p)
  BY <1>13, MoveStagedStep
<1>14. CASE ValidateTarget(p)
  BY <1>14, ValidateTargetStep
<1>15. CASE Undo(p)
  BY <1>15, UndoStep
<1>16. CASE PutBack(p)
  BY <1>16, PutBackStep
<1>17. CASE CleanUp(p)
  BY <1>17, CleanUpStep
<1>18. CASE Finish(p)
  BY <1>18, FinishStep
<1>19. CASE Select(p)
  BY <1>19, SelectStep
<1>20. CASE PathFails(p)
  BY <1>20, PathFailsStep
<1>21. CASE Killed(p)
  BY <1>21, KilledStep
<1> QED
  BY <1>1, <1>2, <1>3, <1>4, <1>5, <1>6, <1>7, <1>8, <1>9, <1>10, <1>11, <1>12, <1>13, <1>14, <1>15, <1>16,
     <1>17, <1>18, <1>19, <1>20, <1>21 DEF InstallStep

(* The invariant of the installers.                                          *)
LEMMA InstallInvariant == InstallSpec => []InstallInv
<1>1. InstallInit => InstallInv
  <2> SUFFICES ASSUME InstallInit PROVE InstallInv
    OBVIOUS
  <2>1. NewInstaller \in Processes /\ NewInstaller.pc = "idle"
    BY DEF NewInstaller, Processes, Places, Requests, Trusts
  <2>2. NoTree \in Trees /\ \A s \in {"github", "project"} : Tree(s, TRUE) \in Trees
    BY DEF Trees, Tree, NoTree, Sources, Trusts
  <2>3. /\ tool \in {"archive", "rust", "msvc"} /\ target \in [Versions -> Trees]
        /\ backups \in [Versions -> [Slots -> Trees]]
    <3>1. PICK v \in Versions, s \in {"github", "project"}, old \in [Legacy -> BOOLEAN] :
            /\ target = [w \in Versions |-> NoTree]
            /\ backups = [w \in Versions |-> [b \in Slots |->
                 IF tool = "archive" /\ w = v /\ b \in Legacy /\ old[b] THEN Tree(s, TRUE) ELSE NoTree]]
      BY DEF InstallInit
    <3>2. Tree(s, TRUE) \in Trees
      BY <2>2
    <3> HIDE DEF Tree, NoTree, Trees
    <3> QED
      BY <2>2, <3>1, <3>2 DEF InstallInit
  <2>4. /\ staged \in [Installers -> Trees] /\ litter \in BOOLEAN /\ orphan \in BOOLEAN
        /\ holder \in [Versions \cup {"all"} -> Installers \cup {"no one"}] /\ holder["all"] = "no one"
        /\ installer \in [Installers -> Processes] /\ \A p \in Installers : installer[p] = NewInstaller
    BY <2>1, <2>2 DEF InstallInit
  <2>5. selection \in Selections /\ mishaps \in 0 .. MaxMishaps /\ meddling \in 0 .. MaxMeddling
    <3>1. selection = NoSelection /\ mishaps = 0 /\ meddling = 0
      BY DEF InstallInit
    <3>2. MaxMishaps \in Nat /\ MaxMeddling \in Nat
      BY MishapAssumption
    <3>3. NoSelection \in Selections
      BY DEF NoSelection, Selections
    <3>4. 0 \in 0 .. MaxMishaps /\ 0 \in 0 .. MaxMeddling
      BY <3>2
    <3> QED
      BY <3>1, <3>3, <3>4
  <2>6. InstallTypeOK
    BY <2>3, <2>4, <2>5, InstallTypes
  <2>7. \A p \in Installers : holder["all"] # p /\ installer[p].pc = "idle" /\ "idle" \notin Working
    BY <2>1, <2>4, InstallerAssumption DEF Working, Idle
  <2> QED
    BY <2>6, <2>7 DEF InstallInv, Chosen, Knowing, Prepared
<1>2. InstallInv /\ [InstallNext]_installVars => InstallInv'
  <2> SUFFICES ASSUME InstallInv, [InstallNext]_installVars PROVE InstallInv'
    OBVIOUS
  <2>1. CASE UNCHANGED installVars
    BY <2>1 DEF installVars, InstallInv, InstallTypeOK, Here, Version
  <2>2. CASE OrphanWrites
    BY <2>2, OrphanWritesStep
  <2>3. CASE MeddleWithTarget
    BY <2>3, MeddleWithTargetStep
  <2>4. ASSUME NEW p \in Installers, InstallStep(p) PROVE InstallInv'
    BY <2>4, InstallSteps
  <2> QED
    BY <2>1, <2>2, <2>3, <2>4 DEF InstallNext
<1> QED
  BY <1>1, <1>2, PTL DEF InstallSpec

(* For any number of installers, versions and mishaps: the directories, the  *)
(* lock and the processes have their types.                                  *)
THEOREM InstallTypeCorrect == InstallSpec => []InstallTypeOK
<1>1. InstallInv => InstallTypeOK
  BY DEF InstallInv
<1> QED
  BY <1>1, InstallInvariant, PTL

(* What an installer stages stays there until it publishes or discards it    *)
(* (archive_tool/install/recovery.rs: the lock is one for all versions).     *)
THEOREM StagedIsOwned == InstallSpec => []WorkIsItsOwners
<1>1. InstallInv => WorkIsItsOwners
  BY DEF InstallInv, Prepared, WorkIsItsOwners
<1> QED
  BY <1>1, InstallInvariant, PTL

-----------------------------------------------------------------------------
(* What can be saved *)

(* A step that leaves every directory where it is.                           *)
LEMMA NothingMoves ==
  ASSUME NEW p \in Installers, UNCHANGED <<target, backups>> PROVE Kept(p)
BY DEF Kept, Here

(* A target that p does not accept is replaced, removed or damaged.          *)
LEMMA TargetReplaced ==
  ASSUME InstallInv, NEW p \in Installers, installer[p].pc \in Working,
         NEW new, target' = [target EXCEPT ![Version(p)] = new], backups' = backups,
         installer[p].seen => ~Accepts(tool, installer[p], Here(p))
  PROVE  Kept(p)
<1>1. target \in [Versions -> Trees] /\ Version(p) \in Versions
  BY Worker
<1>2. \A v \in Versions \ {Version(p)} : target'[v] = target[v]
  BY <1>1
<1> QED
  BY <1>2 DEF Kept, Saved

(* A backup takes the place of a target that is gone.                        *)
LEMMA BackupReturns ==
  ASSUME InstallInv, NEW p \in Installers, installer[p].pc \in Working, NEW b \in Slots, Here(p) = NoTree,
         target' = [target EXCEPT ![Version(p)] = backups[Version(p)][b]],
         backups' = [backups EXCEPT ![Version(p)][b] = NoTree]
  PROVE  Kept(p)
<1> DEFINE i == installer[p]
           v == Version(p)
<1>1. target \in [Versions -> Trees] /\ backups \in [Versions -> [Slots -> Trees]] /\ v \in Versions
  BY Worker
<1>2. /\ target'[v] = backups[v][b]
      /\ \A w \in Versions \ {v} : target'[w] = target[w] /\ backups'[w] = backups[w]
      /\ \A c \in Slots \ {b} : backups'[v][c] = backups[v][c]
  BY <1>1
<1>3. ~Accepts(tool, i, Here(p))
  BY NothingFits
<1>4. Saved(tool, i, Here(p), backups[v]) => Saved(tool, i, target'[v], backups'[v])
  <2> SUFFICES ASSUME Saved(tool, i, Here(p), backups[v]) PROVE Saved(tool, i, target'[v], backups'[v])
    OBVIOUS
  <2>1. PICK c \in Slots : Accepts(tool, i, backups[v][c])
    BY <1>3 DEF Saved
  <2>2. CASE c = b
    BY <1>2, <2>1, <2>2 DEF Saved
  <2>3. CASE c # b
    BY <1>2, <2>1, <2>3 DEF Saved
  <2> QED
    BY <2>2, <2>3
<1> QED
  BY <1>2, <1>4 DEF Kept

(* Backups of its version are removed.                                       *)
LEMMA BackupsRemoved ==
  ASSUME InstallInv, NEW p \in Installers, installer[p].pc \in Working, target' = target,
         NEW saved, backups' = [backups EXCEPT ![Version(p)] = saved],
         installer[p].seen /\ Saved(tool, installer[p], Here(p), backups[Version(p)])
           => Accepts(tool, installer[p], Here(p))
  PROVE  Kept(p)
<1>1. backups \in [Versions -> [Slots -> Trees]] /\ Version(p) \in Versions
  BY Worker
<1>2. \A v \in Versions \ {Version(p)} : backups'[v] = backups[v]
  BY <1>1
<1> QED
  BY <1>2 DEF Kept, Saved, Here

(* A removal that fails or is interrupted.                                   *)
LEMMA LeftIsKept ==
  ASSUME InstallInv, NEW p \in Installers, backups' = backups,
         IF Stands(p, "removing") \/ (Stands(p, "undoing") /\ installer[p].moved)
         THEN \E left \in Remains(Here(p)) : target' = [target EXCEPT ![Version(p)] = left]
         ELSE UNCHANGED target
  PROVE  Kept(p)
<1>1. CASE Stands(p, "removing") \/ (Stands(p, "undoing") /\ installer[p].moved)
  <2>1. PICK left \in Remains(Here(p)) : target' = [target EXCEPT ![Version(p)] = left]
    BY <1>1
  <2>2. installer[p].pc \in Working
    BY <1>1 DEF Stands, Working, Places, Idle
  <2>3. Knowing(tool, installer[p], Here(p), backups[Version(p)])
    BY DEF InstallInv
  <2>4. installer[p].seen => ~Accepts(tool, installer[p], Here(p))
    BY <1>1, <2>3 DEF Knowing, Stands
  <2> QED
    BY <2>1, <2>2, <2>4, TargetReplaced
<1>2. CASE ~(Stands(p, "removing") \/ (Stands(p, "undoing") /\ installer[p].moved))
  BY <1>2, NothingMoves
<1> QED
  BY <1>1, <1>2

(* Recovery.                                                                 *)
LEMMA RecoveryKeeps ==
  ASSUME InstallInv, NEW p \in Installers, RemoveInvalid(p) \/ Restore(p) \/ TidyAll(p) PROVE Kept(p)
<1>1. Knowing(tool, installer[p], Here(p), backups[Version(p)])
  BY DEF InstallInv
<1>2. {"removing", "restoring", "tidying", "missing"} \subseteq Working
  BY DEF Working, Places, Idle
<1>3. CASE RemoveInvalid(p)
  <2>1. installer[p].pc = "removing" /\ target' = [target EXCEPT ![Version(p)] = NoTree] /\ backups' = backups
    BY <1>3 DEF RemoveInvalid, Stands
  <2>2. installer[p].seen => ~Accepts(tool, installer[p], Here(p))
    BY <1>1, <2>1 DEF Knowing
  <2> QED
    BY <1>2, <2>1, <2>2, TargetReplaced
<1>4. CASE Restore(p)
  <2> DEFINE b == installer[p].backup
  <2>1. installer[p].pc = "restoring" /\ b \in Slots \cup {NoSlot, Ambiguous}
    BY <1>4, Worker DEF Restore, Stands, Processes
  <2>2. CASE b = NoSlot \/ b = Ambiguous \/ (b \in Slots /\ Here(p) # NoTree)
    <3>1. UNCHANGED <<target, backups>>
      BY <1>4, <2>2 DEF Restore
    <3> QED
      BY <3>1, NothingMoves
  <2>3. CASE b # NoSlot /\ ~(b = Ambiguous \/ (b \in Slots /\ Here(p) # NoTree))
    <3>1. /\ target' = [target EXCEPT ![Version(p)] = backups[Version(p)][b]]
          /\ backups' = [backups EXCEPT ![Version(p)][b] = NoTree]
      BY <1>4, <2>3 DEF Restore
    <3>2. b \in Slots /\ Here(p) = NoTree
      BY <2>1, <2>3
    <3> QED
      BY <1>2, <2>1, <3>1, <3>2, BackupReturns
  <2> QED
    BY <2>2, <2>3
<1>5. CASE TidyAll(p)
  <2>1. installer[p].pc \in {"tidying", "missing"} /\ target' = target
    BY <1>5 DEF TidyAll, Stands
  <2>2. \E saved : backups' = [backups EXCEPT ![Version(p)] = saved]
    BY <1>5 DEF TidyAll
  <2>3. ASSUME installer[p].seen, Saved(tool, installer[p], Here(p), backups[Version(p)])
        PROVE  Accepts(tool, installer[p], Here(p))
    <3>1. CASE installer[p].pc = "tidying"
      BY <1>1, <2>3, <3>1 DEF Knowing
    <3>2. CASE installer[p].pc = "missing"
      <4>1. installer[p].backup = NoSlot
        BY <1>1, <3>2 DEF Knowing
      <4>2. \A b \in Slots : ~Accepts(tool, installer[p], backups[Version(p)][b])
        BY <1>1, <3>2, <4>1 DEF Knowing
      <4> QED
        BY <2>3, <4>2 DEF Saved
    <3> QED
      BY <2>1, <3>1, <3>2
  <2> QED
    BY <1>2, <2>1, <2>2, <2>3, BackupsRemoved
<1> QED
  BY <1>3, <1>4, <1>5

(* Publication.                                                              *)
LEMMA PreserveKeeps ==
  ASSUME InstallInv, NEW p \in Installers, Preserve(p) PROVE Kept(p)
<1> DEFINE i == installer[p]
           v == Version(p)
<1>1. i.pc = "preserving" /\ i.pc \in Working
  BY DEF Preserve, Stands, Working, Places, Idle
<1>2. target \in [Versions -> Trees] /\ backups \in [Versions -> [Slots -> Trees]] /\ v \in Versions
  BY <1>1, Worker
<1>3. PICK b \in NewSlots(v) :
        /\ backups' = [backups EXCEPT ![v][b] = Here(p)]
        /\ target' = [target EXCEPT ![v] = NoTree]
  BY DEF Preserve
<1>4. b \in Slots /\ b >= b
  BY BackupAssumption DEF NewSlots, Slots
<1>5. backups[v][b] = NoTree
  BY <1>3, <1>4 DEF NewSlots
<1>6. /\ \A w \in Versions \ {v} : target'[w] = target[w] /\ backups'[w] = backups[w]
      /\ backups'[v][b] = Here(p)
      /\ \A c \in Slots \ {b} : backups'[v][c] = backups[v][c]
  BY <1>2, <1>3, <1>4
<1>7. Saved(tool, i, Here(p), backups[v]) => Saved(tool, i, target'[v], backups'[v])
  <2> SUFFICES ASSUME Saved(tool, i, Here(p), backups[v]) PROVE \E c \in Slots : Accepts(tool, i, backups'[v][c])
    BY DEF Saved
  <2>1. CASE Accepts(tool, i, Here(p))
    BY <1>4, <1>6, <2>1
  <2>2. CASE ~Accepts(tool, i, Here(p))
    <3>1. PICK c \in Slots : Accepts(tool, i, backups[v][c])
      BY <2>2 DEF Saved
    <3>2. c # b
      BY <1>5, <3>1, NothingFits
    <3> QED
      BY <1>6, <3>1, <3>2
  <2> QED
    BY <2>1, <2>2
<1> QED
  BY <1>1, <1>6, <1>7 DEF Kept

(* The exchange of the target, and its rollback.                             *)
LEMMA PublicationKeeps ==
  ASSUME InstallInv, NEW p \in Installers, MoveStaged(p) \/ Undo(p) \/ PutBack(p) \/ CleanUp(p) PROVE Kept(p)
<1>1. Knowing(tool, installer[p], Here(p), backups[Version(p)])
  BY DEF InstallInv
<1>2. {"moving", "undoing", "returning", "cleaning"} \subseteq Working
  BY DEF Working, Places, Idle
<1>3. CASE MoveStaged(p)
  <2>1. installer[p].pc = "moving" /\ backups' = backups
    BY <1>3 DEF MoveStaged, Stands
  <2>2. CASE Here(p) = NoTree
    <3>1. target' = [target EXCEPT ![Version(p)] = staged[p]] /\ ~Accepts(tool, installer[p], Here(p))
      BY <1>3, <2>2, NothingFits DEF MoveStaged
    <3> QED
      BY <1>2, <2>1, <3>1, TargetReplaced
  <2>3. CASE Here(p) # NoTree
    <3>1. target' = target
      BY <1>3, <2>3 DEF MoveStaged
    <3> QED
      BY <2>1, <3>1, NothingMoves
  <2> QED
    BY <2>2, <2>3
<1>4. CASE Undo(p)
  <2>1. /\ installer[p].pc = "undoing" /\ backups' = backups
        /\ target' = IF installer[p].moved THEN [target EXCEPT ![Version(p)] = NoTree] ELSE target
    BY <1>4 DEF Undo, Stands
  <2>2. CASE installer[p].moved
    <3>1. installer[p].seen => ~Accepts(tool, installer[p], Here(p))
      BY <1>1, <2>1, <2>2 DEF Knowing
    <3>2. target' = [target EXCEPT ![Version(p)] = NoTree]
      BY <2>1, <2>2
    <3> QED
      BY <1>2, <2>1, <3>1, <3>2, TargetReplaced
  <2>3. CASE ~installer[p].moved
    BY <2>1, <2>3, NothingMoves
  <2> QED
    BY <2>2, <2>3
<1>5. CASE PutBack(p)
  <2> DEFINE b == installer[p].backup
  <2>1. installer[p].pc = "returning"
    BY <1>5 DEF PutBack, Stands
  <2>2. CASE b \in Slots /\ Here(p) = NoTree
    <3>1. /\ target' = [target EXCEPT ![Version(p)] = backups[Version(p)][b]]
          /\ backups' = [backups EXCEPT ![Version(p)][b] = NoTree]
      BY <1>5, <2>2 DEF PutBack
    <3> QED
      BY <1>2, <2>1, <2>2, <3>1, BackupReturns
  <2>3. CASE ~(b \in Slots /\ Here(p) = NoTree)
    <3>1. UNCHANGED <<target, backups>>
      BY <1>5, <2>3 DEF PutBack
    <3> QED
      BY <3>1, NothingMoves
  <2> QED
    BY <2>2, <2>3
<1>6. CASE CleanUp(p)
  <2>1. installer[p].pc = "cleaning" /\ target' = target
    BY <1>6 DEF CleanUp, Stands
  <2>2. backups \in [Versions -> [Slots -> Trees]] /\ Version(p) \in Versions
    BY <1>2, <2>1, Worker
  <2>3. \E saved : backups' = [backups EXCEPT ![Version(p)] = saved]
    <3>1. backups = [backups EXCEPT ![Version(p)] = backups[Version(p)]]
      BY <2>2
    <3>2. \A left : [backups EXCEPT ![Version(p)][installer[p].backup] = left]
                     = [backups EXCEPT ![Version(p)] = [backups[Version(p)] EXCEPT ![installer[p].backup] = left]]
      BY <2>2
    <3> QED
      BY <1>6, <3>1, <3>2 DEF CleanUp
  <2>4. installer[p].seen => Accepts(tool, installer[p], Here(p))
    BY <1>1, <2>1 DEF Knowing
  <2> QED
    BY <1>2, <2>1, <2>3, <2>4, BackupsRemoved
<1> QED
  BY <1>3, <1>4, <1>5, <1>6

(* Every step of an installer.                                               *)
LEMMA StepKeeps ==
  ASSUME InstallInv, NEW p \in Installers, InstallStep(p) PROVE Kept(p)
<1>1. CASE Request(p) \/ TakeLock(p) \/ Recover(p) \/ Revalidate(p) \/ Resolve(p)
  BY <1>1, NothingMoves DEF Request, TakeLock, Recover, Revalidate, Resolve
<1>2. CASE RemoveInvalid(p) \/ Restore(p) \/ TidyAll(p)
  BY <1>2, RecoveryKeeps
<1>3. CASE \/ StageArchive(p) \/ StartRustup(p) \/ RustupEnds(p) \/ StageMsvc(p) \/ MsiexecEnds(p)
           \/ ProbeArchive(p) \/ ProbeRust(p) \/ Assemble(p)
           \/ RecordArchive(p) \/ RecordRust(p) \/ RecordMsvc(p) \/ StageFails(p)
  BY <1>3, NothingMoves
     DEF StageArchive, StartRustup, RustupEnds, StageMsvc, MsiexecEnds, ProbeArchive, ProbeRust, Assemble,
         RecordArchive, RecordRust, RecordMsvc, StageFails
<1>4. CASE Publish(p) \/ MoveFails(p) \/ ValidateTarget(p) \/ Finish(p) \/ Select(p)
  BY <1>4, NothingMoves DEF Publish, MoveFails, ValidateTarget, Finish, Select
<1>5. CASE Preserve(p)
  BY <1>5, PreserveKeeps
<1>6. CASE MoveStaged(p) \/ Undo(p) \/ PutBack(p) \/ CleanUp(p)
  BY <1>6, PublicationKeeps
<1>7. CASE PathFails(p)
  BY <1>7, LeftIsKept DEF PathFails
<1>8. CASE Killed(p)
  BY <1>8, LeftIsKept DEF Killed
<1> QED
  BY <1>1, <1>2, <1>3, <1>4, <1>5, <1>6, <1>7, <1>8 DEF InstallStep

(* No step of an installer, whichever call fails in it and wherever it is    *)
(* killed, loses the last tree that a request accepts, and none touches      *)
(* another version (archive_tool/install/recovery.rs and transaction.rs: a   *)
(* backup is chosen before the target is removed, and the target that was    *)
(* replaced is kept until the new one is valid).                             *)
THEOREM ValidIsKept == InstallSpec => NothingValidIsLost
<1> DEFINE Lossless ==
      meddling' = meddling =>
        \A p \in Installers : installer[p].pc \notin {"idle", "locking", "installed", "failed"} =>
          /\ Recoverable(p) /\ installer[p].seen => \/ Fits(p, target'[Version(p)])
                               \/ \E b \in Slots : Fits(p, backups'[Version(p)][b])
          /\ installer'[p] # installer[p] =>
               \A v \in Versions \ {Version(p)} : target'[v] = target[v] /\ backups'[v] = backups[v]
<1>1. InstallInv /\ [InstallNext]_installVars => [Lossless]_installVars
  <2> SUFFICES ASSUME InstallInv, [InstallNext]_installVars, meddling' = meddling,
                      NEW p \in Installers, installer[p].pc \notin {"idle", "locking", "installed", "failed"}
               PROVE  /\ Recoverable(p) /\ installer[p].seen => \/ Fits(p, target'[Version(p)])
                                           \/ \E b \in Slots : Fits(p, backups'[Version(p)][b])
                      /\ installer'[p] # installer[p] =>
                           \A v \in Versions \ {Version(p)} : target'[v] = target[v] /\ backups'[v] = backups[v]
    OBVIOUS
  <2>1. installer[p].pc \in Working
    BY Worker DEF Working, Idle, Processes
  <2>2. Kept(p)
    <3>1. CASE UNCHANGED installVars
      BY <3>1, NothingMoves DEF installVars
    <3>2. CASE OrphanWrites
      BY <3>2, NothingMoves DEF OrphanWrites
    <3>3. CASE MeddleWithTarget
      <4>1. meddling' = meddling + 1
        BY <3>3 DEF MeddleWithTarget
      <4>2. meddling \in Nat
        <5>1. meddling \in 0 .. MaxMeddling /\ MaxMeddling \in Nat
          BY Worker, MishapAssumption
        <5> QED
          BY <5>1
      <4> QED
        BY <4>1, <4>2
    <3>4. ASSUME NEW q \in Installers, InstallStep(q) PROVE Kept(p)
      <4>1. CASE q = p
        BY <3>4, <4>1, StepKeeps
      <4>2. CASE q # p
        <5>1. installer[q].pc \notin Working
          <6>1. installer[q].pc \in Working <=> holder["all"] = q
            BY DEF InstallInv
          <6>2. installer[p].pc \in Working <=> holder["all"] = p
            BY DEF InstallInv
          <6> QED
            BY <2>1, <4>2, <6>1, <6>2
        <5>2. Kept(q)
          BY <3>4, StepKeeps
        <5>3. UNCHANGED <<target, backups>>
          BY <5>1, <5>2 DEF Kept
        <5> QED
          BY <5>3, NothingMoves
      <4> QED
        BY <4>1, <4>2
    <3> QED
      BY <3>1, <3>2, <3>3, <3>4 DEF InstallNext
  <2>3. /\ Recoverable(p) <=> Saved(tool, installer[p], Here(p), backups[Version(p)])
        /\ Saved(tool, installer[p], target'[Version(p)], backups'[Version(p)]) =>
             Fits(p, target'[Version(p)]) \/ \E b \in Slots : Fits(p, backups'[Version(p)][b])
    BY FitsAccepts DEF Recoverable, Saved
  <2> QED
    BY <2>2, <2>3 DEF Kept
<1> QED
  BY <1>1, InstallInvariant, PTL DEF InstallSpec, NothingValidIsLost

-----------------------------------------------------------------------------
(* The selection *)

(* What a step of p leaves to the others, unless it ends an installation.    *)
LEMMA Unselecting ==
  ASSUME InstallInv, NEW p \in Installers, InstallStep(p), ~Finish(p), ~Select(p)
  PROVE  /\ selection' = selection
         /\ \A q \in Installers : installer'[q].pc = "installed" => installer[q].pc = "installed"
<1>1. installer \in [Installers -> Processes] /\ installer[p] \in Processes
  BY Worker
<1>2. \A pc \in Places \ {"installed"} : Goes(p, pc) \/ Looked(p, pc) \/ Ends(p, pc) =>
        \A q \in Installers : installer'[q].pc = "installed" => installer[q].pc = "installed"
  BY <1>1 DEF Goes, Looked, Ends, NewInstaller, Processes
<1>3. CASE Request(p) \/ TakeLock(p) \/ Recover(p)
  <2>1. CASE Request(p)
    <3>1. selection' = selection
      BY <2>1 DEF Request
    <3>2. PICK v \in Versions, r \in Requests, s \in Trusts :
            installer' = [installer EXCEPT ![p] =
              [NewInstaller EXCEPT !.pc = "locking", !.request = r, !.version = v, !.source = s]]
      BY <2>1 DEF Request
    <3>3. [NewInstaller EXCEPT !.pc = "locking", !.request = r, !.version = v, !.source = s].pc = "locking"
      BY DEF NewInstaller
    <3> QED
      BY <1>1, <3>1, <3>2, <3>3
  <2>2. CASE TakeLock(p)
    BY <1>2, <2>2 DEF TakeLock, Places
  <2>3. CASE Recover(p)
    <3>1. selection' = selection
      BY <2>3 DEF Recover
    <3>2. CASE Fits(p, Here(p))
      BY <1>2, <2>3, <3>1, <3>2 DEF Recover, Places
    <3>3. CASE ~Fits(p, Here(p))
      <4>1. PICK b : installer' = [installer EXCEPT ![p].backup = b, ![p].seen = TRUE,
                                     ![p].pc = IF Here(p) = NoTree THEN "restoring" ELSE "removing"]
        BY <2>3, <3>3 DEF Recover
      <4> QED
        BY <1>1, <3>1, <4>1 DEF Processes
    <3> QED
      BY <3>2, <3>3
  <2> QED
    BY <1>3, <2>1, <2>2, <2>3
<1>4. CASE RemoveInvalid(p) \/ Restore(p) \/ Revalidate(p) \/ TidyAll(p)
  BY <1>2, <1>4 DEF RemoveInvalid, Restore, Revalidate, TidyAll, Places
<1>5. CASE Resolve(p)
  BY <1>1, <1>2, <1>5 DEF Resolve, Places, Processes
<1>6. CASE \/ StageArchive(p) \/ StartRustup(p) \/ RustupEnds(p) \/ StageMsvc(p) \/ MsiexecEnds(p)
           \/ ProbeArchive(p) \/ ProbeRust(p) \/ Assemble(p)
           \/ RecordArchive(p) \/ RecordRust(p) \/ RecordMsvc(p)
  BY <1>2, <1>6
     DEF StageArchive, StartRustup, RustupEnds, StageMsvc, MsiexecEnds, ProbeArchive, ProbeRust, Assemble,
         RecordArchive, RecordRust, RecordMsvc, Places
<1>7. CASE StageFails(p)
  BY <1>1, <1>2, <1>7 DEF StageFails, Places, Processes
<1>8. CASE Publish(p) \/ Preserve(p) \/ MoveStaged(p)
  BY <1>1, <1>2, <1>8 DEF Publish, Preserve, MoveStaged, Places, Processes
<1>9. CASE MoveFails(p) \/ ValidateTarget(p) \/ Undo(p) \/ PutBack(p) \/ CleanUp(p) \/ PathFails(p)
  BY <1>2, <1>9 DEF MoveFails, ValidateTarget, Undo, PutBack, CleanUp, PathFails, Places
<1>10. CASE Killed(p)
  BY <1>1, <1>10 DEF Killed, NewInstaller, Processes
<1> QED
  BY <1>3, <1>4, <1>5, <1>6, <1>7, <1>8, <1>9, <1>10 DEF InstallStep

(* `latest` means one version in a DataRoot for good, and whoever reports    *)
(* success for it has installed that one (archive_tool/selection.rs).        *)
THEOREM LatestIsOne == InstallSpec => OneLatest
<1> DEFINE Settled ==
      /\ selection # NoSelection => selection' = selection
      /\ \A p \in Installers :
           installer'[p].pc = "installed" /\ installer[p].pc # "installed" /\ installer[p].request = "latest"
             => selection'.version = Version(p)
<1>1. InstallInv /\ [InstallNext]_installVars => [Settled]_installVars
  <2> SUFFICES ASSUME InstallInv, InstallNext PROVE Settled
    OBVIOUS
  <2>1. CASE OrphanWrites
    BY <2>1 DEF OrphanWrites
  <2>2. CASE MeddleWithTarget
    <3>1. selection' = selection
      BY <2>2 DEF MeddleWithTarget
    <3>2. ASSUME NEW p \in Installers PROVE installer'[p].pc = installer[p].pc
      <4>1. PICK v \in Versions :
              installer' = [q \in Installers |-> [installer[q] EXCEPT !.seen = @ /\ Version(q) # v]]
        BY <2>2 DEF MeddleWithTarget
      <4>2. installer'[p] = [installer[p] EXCEPT !.seen = installer[p].seen /\ Version(p) # v]
        BY <4>1
      <4>3. installer[p] \in Processes
        BY Worker
      <4> QED
        BY <4>2, <4>3 DEF Processes
    <3> QED
      BY <3>1, <3>2
  <2>3. ASSUME NEW p \in Installers, InstallStep(p) PROVE Settled
    <3>1. installer \in [Installers -> Processes]
      BY Worker
    <3>2. \A q \in Installers, pc \in {"installed", "failed"} : q # p /\ Ends(p, pc) => installer'[q] = installer[q]
      BY <3>1 DEF Ends
    <3>3. CASE Finish(p)
      <4>1. selection' = selection
        BY <3>3 DEF Finish
      <4>2. CASE installer[p].request # "latest" \/ selection = Proposed(p)
        <5>1. Ends(p, "installed")
          <6>1. installer[p].pc \in Working
            BY <3>3 DEF Finish, Stands, Working, Places, Idle
          <6>2. Version(p) \in Versions
            BY <6>1, Worker
          <6>3. selection = Proposed(p) => selection # NoSelection
            BY <6>2, VersionAssumption DEF Proposed, NoSelection
          <6> QED
            BY <3>3, <4>2, <6>3 DEF Finish
        <5> QED
          BY <3>2, <4>1, <4>2, <5>1 DEF Proposed
      <4>3. CASE installer[p].request = "latest" /\ selection # Proposed(p)
        <5>1. Goes(p, "selecting") \/ Ends(p, "failed")
          BY <3>3, <4>3 DEF Finish
        <5>2. installer[p] \in Processes
          BY Worker
        <5>3. \A q \in Installers : installer'[q].pc = "installed" => installer[q].pc = "installed"
          BY <3>1, <5>1, <5>2 DEF Goes, Ends, NewInstaller, Processes
        <5> QED
          BY <4>1, <5>3
      <4> QED
        BY <4>2, <4>3
    <3>4. CASE Select(p)
      <4>1. /\ selection # NoSelection => selection' = selection
            /\ Ends(p, IF selection'.version = Version(p) /\ selection'.source = installer[p].source
                       THEN "installed" ELSE "failed")
        BY <3>4 DEF Select
      <4>2. CASE selection'.version = Version(p)
        BY <3>2, <4>1, <4>2
      <4>3. CASE selection'.version # Version(p)
        <5>1. Ends(p, "failed")
          BY <4>1, <4>3
        <5>2. installer'[p].pc = "failed"
          BY <3>1, <5>1 DEF Ends, NewInstaller
        <5> QED
          BY <3>2, <4>1, <5>1, <5>2
      <4> QED
        BY <4>2, <4>3
    <3>5. CASE ~Finish(p) /\ ~Select(p)
      BY <2>3, <3>5, Unselecting
    <3> QED
      BY <3>3, <3>4, <3>5
  <2> QED
    BY <2>1, <2>2, <2>3 DEF InstallNext
<1> QED
  BY <1>1, InstallInvariant, PTL DEF InstallSpec, OneLatest
=============================================================================
