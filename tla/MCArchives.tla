----------------------------- MODULE MCArchives ----------------------------
(* Small archives, small installations and small releases over which TLC    *)
(* evaluates what extraction, validation and resolution promise.            *)
EXTENDS ArchiveExtraction, ToolInventory, ReleaseResolution

CONSTANTS r1, r2, t1, d1, d2

-----------------------------------------------------------------------------
(* Entries: two spellings of one name, the directory Contents, a device,    *)
(* and what the decoding of a name below Contents may give.                 *)
a == Component("a", FALSE, "name")
A == Component("a", TRUE, "name")
contents == Component(ContentsId, TRUE, "name")
device   == Component("b", FALSE, "device")

MCNames ==
  {Name("plain", <<a>>, n) : n \in 0 .. 2}
    \cup {NoName, Name("absolute", <<a>>, 0), Name("plain", <<A, a>>, 0), Name("plain", <<device>>, 0),
          Name("plain", <<contents, a>>, 0), Name("plain", <<contents>>, 1)}

Decodings(name) ==
  IF InContents(name) /\ Len(name.parts) > 1
  THEN {Malformed, Name("plain", Tail(name.parts), name.slashes), Name("plain", <<A>>, 1),
        Name("plain", <<A, A>>, 0)}
  ELSE {NoName}

MCEntries ==
  {e \in [name : MCNames, decoded : UNION {Decodings(n) : n \in MCNames}, link : BOOLEAN,
          size : {0, 1, 3}, data : 0 .. 2] :
     /\ e.decoded \in Decodings(e.name)
     /\ e.link => e.size = 1
     /\ IsDirectory(e) => e.size = 0 /\ e.data = 0}

MCArchiveSet == {<<>>} \cup {<<e>> : e \in MCEntries} \cup {<<e, f>> : e, f \in MCEntries}
MCTrees      == {EmptyTree, Put(EmptyTree, <<"a">>, Directory), Put(EmptyTree, <<"a">>, File(1))}

(* Archives of up to two entries, into destinations that hold nothing, a    *)
(* directory or a file where an entry goes.                                 *)
ASSUME ExtractionHolds ==
  /\ ExtractionKeepsItsPromise(MCArchiveSet, MCTrees)
  /\ \E archive \in MCArchiveSet : Len(archive) = 2 /\ ArchiveExtracted(archive).ok
  /\ \E archive \in MCArchiveSet, tree \in MCTrees :
       tree # EmptyTree /\ PackageExtracted(archive, tree).ok

-----------------------------------------------------------------------------
MCRequired == <<r1, r2>>

MCDisks ==
  {disk \in [Paths -> [kind : FileKinds, length : 0 .. 1, digest : Digests, rustup : BOOLEAN]] :
     \A path \in Paths :
       /\ disk[path].kind \notin {"file", "link"} => disk[path].length = 0 /\ disk[path].digest = d1
       /\ disk[path].kind # "link" => ~ disk[path].rustup}

(* The path outside of the required ones is there as a file, as a link or   *)
(* not at all; the archive tools do not look at it.                         *)
Bare == {disk \in MCDisks : disk[t1].kind = "absent"}

Documents ==
  LET records == {Record(path, "file", n, d) : path \in Paths, n \in 0 .. 1, d \in {d1, "no digest"}}
  IN  {<<x, y>> : x, y \in records} \cup {RecordsOf(disk) : disk \in {e \in Bare : CanRecord(e, 1)}}

Toolchains == {disk \in MCDisks : CanRecordRust(disk)}

AnyOrder(records) ==
  CHOOSE files \in [1 .. Cardinality(records) -> records] : Unique(files)
RustDocumentOf(disk) == AnyOrder({RustRecord(disk, path) : path \in InventoryPaths(disk)})

(* Every document of two records against every disk; every document that    *)
(* the installation of a toolchain writes against every disk.               *)
ASSUME InventoryHolds ==
  /\ \A disk \in Bare : RoundTrip(disk, 1)
  /\ \A disk \in Bare, files \in Documents : AcceptedIsRecorded(disk, files)
  /\ \A before \in Toolchains : LET files == RustDocumentOf(before) IN
       /\ RustDocument(before, files)
       /\ Len(files) > Len(Required) => RustVerdict(before, files, before[Rustup].digest) = "ok"
       /\ \A disk \in MCDisks : AcceptedToolchain(disk, files, d1)

-----------------------------------------------------------------------------
MCGitHubReleases ==
  [tag : Versioned \cup {"foreign"},
   assets : {<<>>} \cup {<<x>> : x \in Assets} \cup {<<x, y>> : x, y \in Assets}]

(* Releases of up to two assets, requests and pins of every kind.           *)
ASSUME ReleasesHold ==
  /\ \A request \in Declarations, release \in MCGitHubReleases : PinDecides(request, release)
  /\ \A release \in MCGitHubReleases, hash \in Hashes : SelectionStandsForItsArchive(release, hash)
  /\ \E request \in Declarations, release \in MCGitHubReleases :
       RequestAccepted(request) /\ request.pin \in Hashes /\ ExactResolved(Resolved(request, Unselected), release).ok
=============================================================================
