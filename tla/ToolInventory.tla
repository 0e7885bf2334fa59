--------------------------- MODULE ToolInventory ---------------------------
(***************************************************************************)
(* Whether a directory is the installation that its metadata say            *)
(* (archive_tool/mod.rs and filesystem.rs, rust/store.rs, msvc.rs), and how *)
(* those metadata are written (install/stage.rs, rust/metadata.rs,          *)
(* msvc/install/metadata.rs).  What is not an installation is removed by    *)
(* the next Setup; what cannot be judged is an error that leaves it alone.  *)
(***************************************************************************)
EXTENDS Naturals, Sequences, FiniteSets

CONSTANTS Paths,      \* paths below an installation
          Required,   \* those that its tool cannot do without, in their order
          Proxies,    \* required paths that may be links to rustup
          Toolchain,  \* paths below the Rust toolchain's directory
          Rustup,     \* the path of rustup itself
          Digests     \* what files contain

Wanted == {Required[i] : i \in DOMAIN Required}

ASSUME InventoryAssumption ==
  /\ Required \in Seq(Paths) /\ \A i, j \in DOMAIN Required : Required[i] = Required[j] => i = j
  /\ Rustup \in Wanted \ Proxies /\ Proxies \subseteq Wanted \ Toolchain /\ Toolchain \subseteq Paths
  /\ "no digest" \notin Digests

(* What is at a path.  A link has the length and content of the file that   *)
(* it leads to; below a directory that is a link nothing is safe.           *)
FileKinds == {"absent", "file", "link", "directory", "below a link"}
OnDisk    == [kind : FileKinds, length : Nat, digest : Digests, rustup : BOOLEAN]
Disks     == [Paths -> OnDisk]

(* A record of the metadata; the digest of a document may be no digest.     *)
Record(path, kind, length, digest) ==
  [path |-> path, kind |-> kind, length |-> length, digest |-> digest]

Verdicts == {"ok", "missing storage", "unsafe", "mismatch", "stale", "duplicate", "no record",
             "invalid record", "invalid inventory"}

(* The first verdict that is not "ok" counts.                               *)
FirstOf(verdicts) ==
  LET bad == {i \in DOMAIN verdicts : verdicts[i] # "ok"}
  IN  IF bad = {} THEN "ok" ELSE verdicts[CHOOSE i \in bad : \A j \in bad : i <= j]

-----------------------------------------------------------------------------
(* open_regular_at_most: a link is opened as itself, and a file that is     *)
(* longer than expected is not a bounded regular file.                      *)
Opened(file, limit) ==
  CASE file.kind = "absent"                           -> "missing storage"
    [] file.kind = "file" /\ file.length <= limit     -> "ok"
    [] OTHER                                          -> "unsafe"

LengthVerdict(file, expected) ==
  CASE Opened(file, expected) # "ok"                  -> Opened(file, expected)
    [] expected = 0 \/ file.length # expected         -> "mismatch"
    [] OTHER                                          -> "ok"

ContentVerdict(file, expected, digest) ==
  CASE LengthVerdict(file, expected) # "ok"           -> LengthVerdict(file, expected)
    [] file.digest # digest                           -> "mismatch"
    [] OTHER                                          -> "ok"

(* regular_file_digest, when the metadata are written.                      *)
Digestible(file, limit) == Opened(file, limit) = "ok" /\ file.length > 0

-----------------------------------------------------------------------------
(* Archive tools and MSVC: a record for every required file and for no      *)
(* other.  install_metadata and metadata::write fail unless all of them can *)
(* be recorded.                                                             *)
CanRecord(disk, limit) == \A path \in Wanted : Digestible(disk[path], limit)

RecordsOf(disk) ==
  [i \in DOMAIN Required |->
     Record(Required[i], "file", disk[Required[i]].length, disk[Required[i]].digest)]

PathsOf(files) == {files[i].path : i \in DOMAIN files}
Unique(files)  == \A i, j \in DOMAIN files : files[i].path = files[j].path => i = j

(* Of several records for a path the last one counts, as in the map that    *)
(* the code builds; it is only asked where there is one.                    *)
RecordOf(files, path) == files[CHOOSE i \in DOMAIN files : files[i].path = path]

RequiredVerdict(disk, files, path) ==
  CASE path \notin PathsOf(files) -> "no record"
    [] path \in PathsOf(files)    ->
         LET record == RecordOf(files, path) IN
         IF record.length = 0 \/ record.digest \notin Digests THEN "invalid record"
         ELSE LengthVerdict(disk[path], record.length)

(* validate_records_and_lengths, then every digest.                         *)
ListedVerdict(disk, files) ==
  CASE Len(files) # Len(Required) -> "stale"
    [] Len(files) = Len(Required) /\ ~ Unique(files) -> "duplicate"
    [] OTHER ->
         LET lengths  == [i \in DOMAIN Required |-> RequiredVerdict(disk, files, Required[i])]
             contents == [i \in DOMAIN files |->
                            ContentVerdict(disk[files[i].path], files[i].length, files[i].digest)]
         IN  IF FirstOf(lengths) # "ok" THEN FirstOf(lengths) ELSE FirstOf(contents)

-----------------------------------------------------------------------------
(* Rust: the inventory is the required paths and whatever is below the      *)
(* toolchain's directory, whether a component put it there or not.          *)
InventoryPaths(disk) == Wanted \cup {path \in Toolchain : disk[path].kind \in {"file", "link"}}

IsProxyLink(disk, path) == disk[path].kind = "link" /\ path \in Proxies /\ disk[path].rustup

(* record of rust/metadata.rs: links that are rustup's proxies are recorded *)
(* with the digest of what they lead to and without a length.               *)
RustRecordable(disk, path) ==
  /\ disk[path].length > 0
  /\ disk[path].kind = "file" \/ IsProxyLink(disk, path)

RustRecord(disk, path) ==
  IF disk[path].kind = "link" THEN Record(path, "symlink", 0, disk[path].digest)
                              ELSE Record(path, "file", disk[path].length, disk[path].digest)

CanRecordRust(disk) == \A path \in InventoryPaths(disk) : RustRecordable(disk, path)

(* The order of the records is that of the paths, which no reader uses.     *)
RustDocument(disk, files) ==
  /\ Unique(files) /\ PathsOf(files) = InventoryPaths(disk)
  /\ \A i \in DOMAIN files : files[i] = RustRecord(disk, files[i].path)

(* validate_shape.                                                          *)
ShapeVerdict(disk, record) ==
  LET file == disk[record.path] IN
  CASE record.digest \notin Digests    -> "invalid inventory"
    [] record.digest \in Digests /\ file.kind = "below a link" -> "unsafe"
    [] record.digest \in Digests /\ file.kind = "absent" -> "missing storage"
    [] OTHER ->
         IF \/ /\ record.kind = "symlink" /\ record.length = 0
               /\ IsProxyLink(disk, record.path)
            \/ /\ record.kind = "file" /\ file.kind = "file"
               /\ file.length # 0 /\ file.length = record.length
         THEN "ok" ELSE "invalid inventory"

(* verify_hashes, which follows the links.                                  *)
RustContentVerdict(disk, record) ==
  LET file == disk[record.path] IN
  IF record.kind = "symlink"
  THEN IF file.length = 0 \/ file.digest # record.digest THEN "mismatch" ELSE "ok"
  ELSE ContentVerdict(file, record.length, record.digest)

(* validate_inventory, then verify_hashes.  `source` is the digest of the   *)
(* rustup-init that the metadata name.                                      *)
RustVerdict(disk, files, source) ==
  LET shapes   == [i \in DOMAIN files |-> ShapeVerdict(disk, files[i])]
      contents == [i \in DOMAIN files |-> RustContentVerdict(disk, files[i])]
  IN  CASE Len(files) <= Len(Required) \/ ~ Unique(files) -> "invalid inventory"
        [] Len(files) > Len(Required) /\ Unique(files) /\ FirstOf(shapes) # "ok" -> FirstOf(shapes)
        [] OTHER ->
             IF \/ ~ Wanted \subseteq PathsOf(files)
                \/ RecordOf(files, Rustup).digest # source
                \/ PathsOf(files) # InventoryPaths(disk)
             THEN "invalid inventory"
             ELSE FirstOf(contents)

-----------------------------------------------------------------------------
(* invalid_archive_candidate and its namesakes for Rust and MSVC: a         *)
(* directory with such a verdict is no installation and may be removed.     *)
Replaceable(verdict) == verdict \notin {"ok", "unsafe"}

(* What was recorded is accepted as long as nothing changes.                *)
RoundTrip(disk, limit) == CanRecord(disk, limit) => ListedVerdict(disk, RecordsOf(disk)) = "ok"

(* What is accepted contains what was recorded: the paths that the records  *)
(* name, with their length and content.                                     *)
AcceptedIsRecorded(disk, files) ==
  ListedVerdict(disk, files) = "ok" =>
    /\ PathsOf(files) = Wanted
    /\ \A i \in DOMAIN files :
         LET file == disk[files[i].path] IN
         file.kind = "file" /\ file.length = files[i].length /\ file.digest = files[i].digest

(* No other file is in an accepted toolchain, and rustup is the one that    *)
(* was downloaded.                                                          *)
AcceptedToolchain(disk, files, source) ==
  RustVerdict(disk, files, source) = "ok" =>
    /\ {path \in Toolchain : disk[path].kind \in {"file", "link"}} \subseteq PathsOf(files)
    /\ Wanted \subseteq PathsOf(files) /\ disk[Rustup].digest = source
    /\ \A i \in DOMAIN files :
         LET file == disk[files[i].path] IN
         file.digest = files[i].digest /\ (file.kind = "file" \/ IsProxyLink(disk, files[i].path))
=============================================================================
