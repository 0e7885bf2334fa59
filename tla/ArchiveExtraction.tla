------------------------- MODULE ArchiveExtraction -------------------------
(***************************************************************************)
(* What the extraction of a ZIP or VSIX archive makes of its entries        *)
(* (archive_tool/install/archive.rs).  All entries that are selected are    *)
(* inspected before the first is written; they are then written one after   *)
(* the other into a directory, which stays half filled when one fails.      *)
(***************************************************************************)
EXTENDS Naturals, Sequences, FiniteSets
LOCAL INSTANCE SequencesExt

CONSTANTS MaxEntries,     \* entries that an archive may have
          MaxFileBytes,   \* bytes that one entry may declare
          MaxTotalBytes   \* bytes that all of them may have together

ASSUME LimitAssumption == {MaxEntries, MaxFileBytes, MaxTotalBytes} \subseteq Nat

(* A component of a path: what it is called, how it is written, and whether *)
(* Windows would take it for something else than a name of its own.         *)
Component(id, upper, kind) == [id |-> id, upper |-> upper, kind |-> kind]
ComponentKinds == {"name", "empty", "relative", "ends with dot or space", "invalid character",
                   "device"}

(* A name: how it starts, its components, and the slashes after them.       *)
Name(start, parts, slashes) == [start |-> start, parts |-> parts, slashes |-> slashes]
NoName    == Name("empty", <<>>, 0)
Malformed == Name("malformed", <<>>, 0)

(* An entry: its name, what the percent decoding of the rest of the name    *)
(* after Contents/ gives, whether its Unix mode says that it is a link, the *)
(* size it declares and the number of bytes that it expands to.             *)
Entry(name, decoded, link, size, data) ==
  [name |-> name, decoded |-> decoded, link |-> link, size |-> size, data |-> data]

(* The ZIP reader goes by the name as it is written, before any decoding.   *)
IsDirectory(entry) == entry.name.slashes > 0

-----------------------------------------------------------------------------
ComponentSafe(component) == component.kind = "name"

(* windows_entry_path: no absolute name, backslash or NUL, at most one      *)
(* slash at the end, and only components that Windows takes for names.      *)
PathSafe(name) ==
  /\ name.start = "plain"
  /\ name.slashes <= 1 /\ name.parts # <<>>
  /\ \A i \in DOMAIN name.parts : ComponentSafe(name.parts[i])

(* Names that Windows takes for the same have the same key.                 *)
Key(name) == [i \in DOMAIN name.parts |-> name.parts[i].id]

(* inspect_entry after the selection gave it this name: what was inspected  *)
(* before is its total size and the keys seen.                              *)
Inspected(seen, entry, name) ==
  IF /\ seen.ok
     /\ PathSafe(name) /\ ~ entry.link
     /\ entry.size <= MaxFileBytes /\ seen.total + entry.size <= MaxTotalBytes
     /\ Key(name) \notin seen.keys
  THEN [ok |-> TRUE, total |-> seen.total + entry.size, keys |-> seen.keys \cup {Key(name)}]
  ELSE [seen EXCEPT !.ok = FALSE]

NothingSeen == [ok |-> TRUE, total |-> 0, keys |-> {}]

(* inspect, which a test of an archive runs over all entries.               *)
TestPasses(archive) ==
  /\ Len(archive) <= MaxEntries
  /\ FoldLeft(LAMBDA seen, entry : Inspected(seen, entry, entry.name), NothingSeen, archive).ok

(* extract_contents_file takes what is below Contents/, however that is     *)
(* written, and decodes the rest of the name before it is inspected.        *)
ContentsId == "contents"
InContents(name) ==
  /\ name.start = "plain" /\ name.parts # <<>> /\ name.parts[1].id = ContentsId
  /\ Len(name.parts) > 1 \/ name.slashes > 0

Selected(entry, vsix) ==
  CASE ~ vsix                              -> entry.name
    [] vsix /\ InContents(entry.name)      -> entry.decoded
    [] OTHER                               -> NoName

-----------------------------------------------------------------------------
(* A tree: the directories and the sizes of the files below the             *)
(* destination, by key.                                                     *)
Directory   == [kind |-> "directory", bytes |-> 0]
File(bytes) == [kind |-> "file", bytes |-> bytes]
EmptyTree == [key \in {} |-> Directory]
Put(tree, key, what) == [k \in DOMAIN tree \cup {key} |-> IF k = key THEN what ELSE tree[k]]

(* create_directory_chain: a directory that is there already is used.       *)
Chain(tree, key) ==
  LET new == {SubSeq(key, 1, n) : n \in 1 .. Len(key)} \ DOMAIN tree
  IN  [k \in DOMAIN tree \cup new |-> IF k \in new THEN Directory ELSE tree[k]]
ChainFree(tree, key) ==
  \A n \in 1 .. Len(key) :
    LET k == SubSeq(key, 1, n) IN k \in DOMAIN tree => tree[k] = Directory

(* copy_entry_bounded: the entry must expand to exactly the size that it    *)
(* declares.  A read is refused before its bytes are written, and a short   *)
(* entry is found when all of it is there.                                  *)
CopiedWhole(out, entry) == entry.data = entry.size /\ out.total + entry.data <= MaxTotalBytes

(* One round of the second loop of extract_selected.  What a failed round   *)
(* leaves goes with the work directory and is left out.                     *)
Written(out, entry, name) ==
  LET key    == Key(name)
      parent == Front(key)
      inside == Chain(out.tree, parent)
  IN  CASE ~ out.ok -> out
        [] out.ok /\ IsDirectory(entry) ->
             IF ChainFree(out.tree, key) THEN [out EXCEPT !.tree = Chain(@, key)]
             ELSE [out EXCEPT !.ok = FALSE]
        [] out.ok /\ ~ IsDirectory(entry) ->
             IF ChainFree(out.tree, parent) /\ key \notin DOMAIN inside /\ CopiedWhole(out, entry)
             THEN [ok |-> TRUE, tree |-> Put(inside, key, File(entry.data)), total |-> out.total + entry.data]
             ELSE [out EXCEPT !.ok = FALSE]

Failed(tree) == [ok |-> FALSE, tree |-> tree, taken |-> 0]

(* extract_selected: what is taken is inspected as a whole, then written.   *)
Extraction(archive, vsix, tree) ==
  LET taken  == SelectSeq(archive, LAMBDA entry : Selected(entry, vsix) # NoName)
      legal  == \A i \in DOMAIN taken : Selected(taken[i], vsix) # Malformed
      seen   == FoldLeft(LAMBDA s, entry : Inspected(s, entry, Selected(entry, vsix)), NothingSeen, taken)
      result == FoldLeft(LAMBDA out, entry : Written(out, entry, Selected(entry, vsix)),
                         [ok |-> TRUE, tree |-> tree, total |-> 0], taken)
  IN  IF Len(archive) > MaxEntries \/ (~ vsix /\ tree # EmptyTree) \/ ~ legal
      THEN Failed(tree)
      ELSE IF ~ seen.ok THEN Failed(tree)
      ELSE [ok |-> result.ok, tree |-> result.tree, taken |-> Len(taken)]

ArchiveExtracted(archive)    == Extraction(archive, FALSE, EmptyTree)
PackageExtracted(archive, tree) ==
  LET result == Extraction(archive, TRUE, tree) IN [result EXCEPT !.ok = @ /\ result.taken > 0]

-----------------------------------------------------------------------------
(* What the extraction promises, said without its steps: on success, what   *)
(* was there is unchanged, and what is new is exactly the selected entries  *)
(* and the directories above them, each file with the bytes that its entry  *)
(* has; every name is one that Windows takes for a path below the           *)
(* destination, no two entries share one, and the bytes are within limits.  *)
Promised(archive, vsix, tree, result) ==
  LET taken == SelectSeq(archive, LAMBDA entry : Selected(entry, vsix) # NoName)
      name(i) == Selected(taken[i], vsix)
      above(key) == {SubSeq(key, 1, n) : n \in 1 .. Len(key)}
  IN  /\ \A i \in DOMAIN taken : name(i) # Malformed /\ PathSafe(name(i)) /\ ~ taken[i].link
      /\ \A i, j \in DOMAIN taken : i # j => Key(name(i)) # Key(name(j))
      /\ DOMAIN result.tree = DOMAIN tree \cup UNION {above(Key(name(i))) : i \in DOMAIN taken}
      /\ \A key \in DOMAIN tree : result.tree[key] = tree[key]
      /\ \A i \in DOMAIN taken :
           result.tree[Key(name(i))] = IF IsDirectory(taken[i]) THEN Directory ELSE File(taken[i].data)
      /\ \A key \in DOMAIN result.tree : \A n \in 1 .. Len(key) - 1 :
           result.tree[SubSeq(key, 1, n)] = Directory
      /\ FoldLeft(LAMBDA sum, entry : sum + entry.data, 0,
                  SelectSeq(taken, LAMBDA e : ~ IsDirectory(e))) <= MaxTotalBytes

ExtractionKeepsItsPromise(archives, trees) ==
  \A archive \in archives :
    /\ ArchiveExtracted(archive).ok =>
         TestPasses(SelectSeq(archive, LAMBDA e : e.name # NoName))
           /\ Promised(archive, FALSE, EmptyTree, ArchiveExtracted(archive))
    /\ \A tree \in trees :
         PackageExtracted(archive, tree).ok =>
           Promised(archive, TRUE, tree, PackageExtracted(archive, tree))
=============================================================================
