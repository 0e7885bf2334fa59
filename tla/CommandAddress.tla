--------------------------- MODULE CommandAddress ---------------------------
(***************************************************************************)
(* Which directories below the command roots are commands, and how they are *)
(* addressed (catalog/address.rs and catalog/filesystem.rs).                *)
(***************************************************************************)
EXTENDS Naturals, Sequences, FiniteSets
LOCAL INSTANCE SequencesExt

CONSTANTS Words,   \* lower case words that may name a command
          Devices  \* those of them that Windows takes for a device

ASSUME WordAssumption == Devices \subseteq Words

Sources == {"control", "kernel", "action"}

(* The name of a directory: the signs it starts with and the rest, which is *)
(* a word or something else.                                                *)
Signs == {"", ".", "..", "-", "--", "_"}
NotAWord == "not a word"
DirectoryNames == [prefix : Signs, word : Words \cup {NotAWord}]

(* An address joins the names on the way from a root with dots.  No word    *)
(* has a dot, so that the names can be told from the address.               *)
Root == <<>>

IsNormal(word) == word \in Words \ Devices

(* child_address.                                                           *)
IsChildName(source, parent, name) ==
  IF source = "kernel" /\ parent = Root
  THEN \/ name.prefix \in {".", ".."} /\ IsNormal(name.word)
       \/ name.prefix \in {"-", "--"} /\ name.word \in Words
  ELSE name.prefix = "" /\ IsNormal(name.word)

ChildSource(source, parent, name) ==
  IF source = "kernel" /\ parent = Root /\ name.prefix = ".." THEN "control" ELSE source

(* parent_address: all but what follows the last dot, which for a command   *)
(* at the top may be the one that it starts with.                           *)
ParentAddress(address) == Front(address)

(* valid_provider_address: how manifests may refer to a command.            *)
IsProviderAddress(address) ==
  /\ address # Root /\ address[1].prefix \in {"", "."}
  /\ \A i \in DOMAIN address : address[i].word \in Words /\ (i > 1 => address[i].prefix = "")

-----------------------------------------------------------------------------
(* discover: from a root to the directories that may be reached through     *)
(* real directories with such names.  A tree has every path to its members. *)
SourceAt(root, path) ==
  IF root = "kernel" /\ path # Root THEN ChildSource(root, Root, path[1]) ELSE root

IsReached(root, tree, path) ==
  \A i \in DOMAIN path :
    LET above == SubSeq(path, 1, i - 1) IN
    /\ ~ tree[SubSeq(path, 1, i)].link
    /\ IsChildName(SourceAt(root, above), above, path[i])

(* The root of the project's actions is no command; that of the kernel is.  *)
Found(root, tree) ==
  {[source |-> SourceAt(root, path), address |-> path] :
     path \in {p \in DOMAIN tree : IsReached(root, tree, p) /\ (root = "action" => p # Root)}}

-----------------------------------------------------------------------------
(* An address tells the source of its command, and the command above it has *)
(* the same source or is the root: the maps of the catalog by address alone *)
(* are of one command each.                                                 *)
AddressesAreUnique(kernel, action) ==
  LET found == Found("kernel", kernel) \cup Found("action", action) IN
  /\ \A one, other \in found : one.address = other.address => one.source = other.source
  /\ \A one \in found : one.address # Root =>
       \/ ParentAddress(one.address) = Root
       \/ [one EXCEPT !.address = ParentAddress(@)] \in found
=============================================================================
