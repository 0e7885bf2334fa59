------------------------- MODULE ReleaseResolution -------------------------
(***************************************************************************)
(* From what a profile declares of an archive tool to the archive that is   *)
(* downloaded and the trust that is reported (archive_tool/mod.rs,          *)
(* github.rs, trust.rs, ArchiveSource of install/mod.rs).  A request names  *)
(* a version or `latest`, and may pin the archive's digest.                 *)
(***************************************************************************)
EXTENDS Naturals, Sequences, FiniteSets

CONSTANTS Versioned,  \* semantic versions, which `latest` may become
          Channels,  \* other names that an exact request may use
          Hashes     \* SHA-256 values

ASSUME ResolutionAssumption ==
  /\ Versioned \cap Channels = {} /\ {"latest", "unsafe"} \cap (Versioned \cup Channels) = {}
  /\ {"none", "malformed"} \cap Hashes = {}

Exact         == Versioned \cup Channels
Verifications == {"github", "project", "unverified"}

(* What is declared, and which of it ArchiveToolRequest::new accepts.       *)
Declarations == [version : Exact \cup {"latest", "unsafe"}, pin : Hashes \cup {"none", "malformed"}]

RequestAccepted(declared) ==
  /\ declared.version \in Exact \cup {"latest"}
  /\ declared.pin \in Hashes \cup {"none"}
  /\ declared.version = "latest" => declared.pin = "none"

(* A definition: the version, the digest and verification as far as they    *)
(* are known, and the pin it was made with.                                 *)
Definition(latest, version, hash, verification, pin) ==
  [latest |-> latest, version |-> version, hash |-> hash, verification |-> verification, pin |-> pin]

NoDefinition == Definition(FALSE, "none", "none", "unresolved", "none")
Unselected   == [version |-> "none", hash |-> "none", verification |-> "none"]

(* ArchiveToolStore::resolve: without the network.                          *)
Resolved(request, selection) ==
  CASE request.version # "latest" /\ request.pin # "none" ->
         Definition(FALSE, request.version, request.pin, "project", request.pin)
    [] request.version # "latest" /\ request.pin = "none" ->
         Definition(FALSE, request.version, "none", "unresolved", "none")
    [] request.version = "latest" /\ selection = Unselected -> NoDefinition
    [] OTHER -> Definition(TRUE, selection.version, selection.hash, selection.verification, "none")

-----------------------------------------------------------------------------
(* A release as GitHub describes it: its tag, and for each asset whether it *)
(* has the name and the URL of the tool's archive, and its digest.          *)
Assets       == [named : BOOLEAN, canonical : BOOLEAN, hash : Hashes \cup {"none", "malformed"}]
Refused      == [ok |-> FALSE, definition |-> NoDefinition, hash |-> "none", verification |-> "none"]

(* ArchiveSource::new: what counts as verified has a digest to verify with. *)
SourceAccepted(hash, verification) ==
  hash \in Hashes \/ (hash = "none" /\ verification = "unverified")

Source(definition, hash, verification) ==
  IF SourceAccepted(hash, verification)
  THEN [ok |-> TRUE, definition |-> definition, hash |-> hash, verification |-> verification]
  ELSE Refused

(* resolve_release: one asset with the tool's name, at its URL, whose       *)
(* digest does not contradict the pin.  The pin is worth more.              *)
ReleaseResolved(definition, release) ==
  LET matching == {i \in DOMAIN release.assets : release.assets[i].named}
      asset    == release.assets[CHOOSE i \in matching : TRUE]
      verdict  == IF definition.pin # "none" THEN <<definition.pin, "project">>
                  ELSE IF asset.hash # "none" THEN <<asset.hash, "github">>
                  ELSE <<"none", "unverified">>
  IN  IF \/ release.tag # definition.version \/ Cardinality(matching) # 1
         \/ ~ asset.canonical \/ asset.hash = "malformed"
         \/ {definition.pin, asset.hash} \subseteq Hashes /\ definition.pin # asset.hash
      THEN Refused
      ELSE Source([definition EXCEPT !.hash = verdict[1],
                     !.verification = IF verdict[1] = "none" THEN "unresolved" ELSE verdict[2]],
                  verdict[1], verdict[2])

ExactResolved(definition, release) ==
  IF definition.latest \/ definition.version \notin Exact THEN Refused
  ELSE ReleaseResolved(definition, release)

(* resolve_latest_document: the tag decides what `latest` is.               *)
LatestResolved(request, release) ==
  IF request.version # "latest" \/ release.tag \notin Versioned THEN Refused
  ELSE ReleaseResolved(Definition(TRUE, release.tag, "none", "unresolved", request.pin), release)

(* published_source: a selection stands for its archive without GitHub.     *)
PublishedSource(definition) ==
  IF \/ definition.version \notin Exact \/ ~ definition.latest
     \/ definition.verification \notin {"github", "unverified"} \/ definition.hash = "none"
  THEN Refused
  ELSE Source(definition, definition.hash, definition.verification)

(* trust::evaluate: what is installed, if anything, tells how it was        *)
(* verified; a pin is worth more.                                           *)
TrustLevel(definition, installed) ==
  LET verification == IF installed = "none" THEN definition.verification ELSE installed IN
  CASE definition.pin # "none"                             -> "pinned"
    [] definition.pin = "none" /\ verification = "github"  -> "upstream"
    [] OTHER                                               -> "unpinned"

-----------------------------------------------------------------------------
(* A pin decides: the archive of an accepted request that has one is        *)
(* fetched with that digest, whatever GitHub says, and reported as pinned.  *)
(* Nothing counts as verified that has no digest.                           *)
PinDecides(request, release) ==
  LET definition == Resolved(request, Unselected)
      source     == ExactResolved(definition, release)
  IN  RequestAccepted(request) /\ source.ok =>
        /\ request.pin \in Hashes => source.hash = request.pin /\ source.verification = "project"
        /\ source.verification # "unverified" => source.hash \in Hashes
        /\ source.definition.version = request.version
        /\ (TrustLevel(definition, source.verification) = "pinned") = (request.pin \in Hashes)

(* Whoever resolves `latest` after a selection was published gets the       *)
(* archive whose digest the selection records, without asking GitHub again. *)
SelectionStandsForItsArchive(release, downloaded) ==
  LET request   == [version |-> "latest", pin |-> "none"]
      first     == LatestResolved(request, release)
      hash      == IF first.hash = "none" THEN downloaded ELSE first.hash
      selection == [version |-> first.definition.version, hash |-> hash,
                    verification |-> first.verification]
      again     == PublishedSource(Resolved(request, selection))
  IN  first.ok => /\ again.ok /\ again.hash = hash
                  /\ again.verification = first.verification
                  /\ again.definition.version = release.tag
=============================================================================
