--------------------------- MODULE FacetResolution ---------------------------
(***************************************************************************)
(* The answer to a request for the document of a facet                      *)
(* (server/facet_resolution.rs and facet_resolution/collection.rs,          *)
(* subject.rs).  A facet of a command is looked up in the catalog; a facet  *)
(* of an instance through the collection that lists it.  The document is    *)
(* what the facet's command prints, run by a query.                         *)
(***************************************************************************)
EXTENDS Catalog
LOCAL INSTANCE SequencesExt

(* What a query came to: nothing usable, or an object that names its        *)
(* protocol once, and what it is when read as a collection.                 *)
Answer(ok, protocol, collection) == [ok |-> ok, protocol |-> protocol, collection |-> collection]
Instance(kind, id) == [kind |-> kind, id |-> id]
Collection(owner, facet, subjects) == [owner |-> owner, facet |-> facet, subjects |-> subjects]
NoCollection == Collection(Command("kernel", Root), "none", <<>>)
Subject(ref, facets) == [ref |-> ref, facets |-> facets]

(* SubjectCollection::validate.                                             *)
CollectionValid(c) ==
  /\ c.owner.type = "command" /\ (c.owner.address = Root => c.owner.source = "kernel")
  /\ c.facet \in Tokens
  /\ Distinct([i \in DOMAIN c.subjects |-> c.subjects[i].ref])
  /\ \A i \in DOMAIN c.subjects :
       /\ c.subjects[i].ref.kind \in Tokens
       /\ Len(c.subjects[i].facets) \in 1 .. MaxTemplates /\ Distinct(c.subjects[i].facets)
       /\ \A j \in DOMAIN c.subjects[i].facets : c.subjects[i].facets[j] \in Tokens

(* A result: the status, the document and the collection that it is.        *)
Failure(status) == [status |-> status, document |-> Answer(FALSE, "none", NoCollection)]
Success(answer) == [status |-> 200, document |-> answer]

-----------------------------------------------------------------------------
(* exact_runnable_command and resolve_command_document.                     *)
DocumentOf(nodes, answers, resolver) ==
  LET runnable == {n \in nodes : /\ n.address = resolver.address /\ n.source # "control"
                                 /\ n.runnable /\ ~ n.alias}
      answer   == answers[resolver.address, resolver.arguments]
  IN  CASE runnable = {}              -> Failure(404)
        [] Cardinality(runnable) > 1  -> Failure(422)
        [] OTHER ->
             IF /\ answer.ok /\ answer.protocol = resolver.returns
                /\ resolver.returns = "collection" => CollectionValid(answer.collection)
             THEN Success(answer) ELSE Failure(500)

(* resolve_declared_facet: only documents are read this way.                *)
ReadFacet(nodes, answers, facet) ==
  LET r == facet.resolver IN
  IF \/ facet.kind = "operation" \/ r.type # "command"
     \/ r.tail \/ r.confirmation # "none" \/ r.returns = "none"
     \/ (facet.kind = "collection") # (r.returns = "collection")
  THEN Failure(422)
  ELSE DocumentOf(nodes, answers, r)

(* command_facet.                                                           *)
NodesAt(nodes, source, address) ==
  {n \in nodes : n.source = source /\ n.address = address /\ ~ n.alias}

FacetsNamed(nodes, source, address, id) ==
  UNION {{f \in ToSet(Facets(nodes, n)) : f.id = id} : n \in NodesAt(nodes, source, address)}

(* collection_subject_kind and validate_collection_contract.                *)
KindsReferred(nodes, facet) ==
  UNION {{k \in SubjectKinds(nodes, n) : k.kind = facet.subject.kind} :
           n \in NodesAt(nodes, facet.subject.provider.source, facet.subject.provider.address)}

ContractHolds(nodes, facet, collection) ==
  \E k \in KindsReferred(nodes, facet) :
    \A i \in DOMAIN collection.subjects :
      /\ collection.subjects[i].ref.kind = k.kind
      /\ \A id \in ToSet(collection.subjects[i].facets) : id \in ToSet(Ids(k.facets))

(* What is listed must say whose it is.                                     *)
CollectionFits(nodes, facet, answer, subject, id) ==
  /\ answer.collection.owner = subject /\ answer.collection.facet = id
  /\ ContractHolds(nodes, facet, answer.collection)

(* resolve_request of a command.                                            *)
CommandFacetResolved(nodes, answers, source, address, id) ==
  LET named == FacetsNamed(nodes, source, address, id)
      facet == Only(named)
      read  == ReadFacet(nodes, answers, facet)
  IN  IF named = {} THEN Failure(404)
      ELSE IF /\ read.status = 200 /\ facet.kind = "collection"
              /\ ~ CollectionFits(nodes, facet, read.document, Command(source, address), id)
      THEN Failure(500) ELSE read

(* instance_facet, and resolve_request with what it finds.                  *)
InstanceFacetResolved(nodes, answers, ref, id, via, viaFacet) ==
  LET named == FacetsNamed(nodes, via.source, via.address, viaFacet)
      facet == Only(named)
      list  == ReadFacet(nodes, answers, facet)
      items == {s \in ToSet(list.document.collection.subjects) : s.ref = ref}
      kind  == Only(KindsReferred(nodes, facet))
      templates == {t \in ToSet(kind.facets) : t.id = id}
  IN  CASE named = {}                  -> Failure(404)
        [] named # {} /\ facet.kind # "collection" -> Failure(422)
        [] OTHER ->
             IF list.status # 200 THEN list
             ELSE IF ~ CollectionFits(nodes, facet, list.document, via, viaFacet) THEN Failure(500)
             ELSE IF items = {} \/ id \notin ToSet(Only(items).facets) \/ templates = {} THEN Failure(404)
             ELSE ReadFacet(nodes, answers, Instantiated(Only(templates), ref.id))

-----------------------------------------------------------------------------
(* Every document facet of a catalog can be read: its request fails only    *)
(* for what its command answers.  Operations and the children, which the    *)
(* catalog itself lists, are refused.                                       *)
DocumentsAreReadable(nodes, answers) ==
  \A n \in nodes : ~ n.alias =>
    \A f \in ToSet(Facets(nodes, n)) :
      LET status == CommandFacetResolved(nodes, answers, n.source, n.address, f.id).status
      IN  IF f.kind = "operation" \/ f.resolver.type = "catalog" THEN status = 422
          ELSE status \in {200, 500}

(* A collection that is answered belongs to the facet that was asked, and   *)
(* each facet that it lists for a subject can be asked for in turn and is   *)
(* answered by the template of the subject's kind with the subject's id: a  *)
(* document, or a refusal because it is an operation.                       *)
ListedFacetsAreReadable(nodes, answers) ==
  \A n \in nodes : ~ n.alias =>
    \A f \in ToSet(Facets(nodes, n)) :
      LET via  == Command(n.source, n.address)
          list == CommandFacetResolved(nodes, answers, n.source, n.address, f.id)
      IN  f.kind = "collection" /\ list.status = 200 =>
            /\ list.document.collection.owner = via /\ list.document.collection.facet = f.id
            /\ \A s \in ToSet(list.document.collection.subjects) :
                \A id \in ToSet(s.facets) :
                  \E k \in KindsReferred(nodes, f) : \E t \in ToSet(k.facets) :
                    /\ k.kind = s.ref.kind /\ t.id = id
                    /\ LET got == InstanceFacetResolved(nodes, answers, s.ref, id, via, f.id)
                       IN  IF t.kind = "operation" THEN got.status = 422
                           ELSE \/ got.status = 500
                                \/ /\ got.status = 200
                                   /\ got.document = answers[t.resolver.address,
                                        BoundTo(t.resolver, "subject id", Literal(s.ref.id)).arguments]
=============================================================================
