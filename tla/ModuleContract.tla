--------------------------- MODULE ModuleContract ---------------------------
(***************************************************************************)
(* What a command directory may declare in its _module.json: contracts that *)
(* it requires and provides, facets of the command and kinds of subjects    *)
(* with facets of their own (catalog/module_contract/validation.rs), and    *)
(* when a facet that is shown is valid (facet.rs, subject_kind.rs).         *)
(***************************************************************************)
EXTENDS CommandAddress

CONSTANTS Tokens,        \* valid identifiers of facets and kinds
          Contracts,     \* valid names of contracts
          Protocols,     \* protocols of documents other than collections
          MaxFacets,     \* MAX_FACETS
          MaxKinds,      \* MAX_SUBJECT_KINDS
          MaxTemplates,  \* the facets that a kind may have
          MaxArguments   \* MAX_ARGUMENTS

NotAToken == "not a token"

ASSUME ContractAssumption ==
  /\ NotAToken \notin Tokens /\ {"none", "collection", "not a text"} \cap Protocols = {}
  /\ {MaxFacets, MaxKinds, MaxTemplates, MaxArguments} \subseteq Nat
  /\ MaxFacets <= MaxTemplates

FacetKinds == {"collection", "operation", "projection"}
Renderers  == {"collection", "edit", "help", "overview", "run"}

(* Texts and long arguments are only told apart by whether they are within  *)
(* the limits.                                                              *)
Command(source, address) == [type |-> "command", source |-> source, address |-> address]
KindRef(kind, provider)  == [kind |-> kind, provider |-> provider]
NoKindRef == KindRef("none", Command("kernel", Root))

(* An argument is a literal, an address, or bound to the subject that has   *)
(* the facet.                                                               *)
Argument(bind, text, address, fits) == [bind |-> bind, text |-> text, address |-> address, fits |-> fits]
Literal(text)     == Argument("none", text, Root, TRUE)
TooLong           == Argument("none", "long", Root, FALSE)
Address(address)  == Argument("none", "", address, TRUE)
Bound(to)         == Argument(to, "", Root, TRUE)

Resolver(type, address, arguments, tail, confirmation, returns) ==
  [type |-> type, address |-> address, arguments |-> arguments, tail |-> tail,
   confirmation |-> confirmation, returns |-> returns]
NoResolver == Resolver("none", Root, <<>>, FALSE, "none", "none")
Children   == Resolver("catalog", Root, <<>>, FALSE, "none", "none")
Calls(address, arguments, tail, confirmation, returns) ==
  Resolver("command", address, arguments, tail, confirmation, returns)

Facet(id, kind, renderer, texts, subject, resolver) ==
  [id |-> id, kind |-> kind, renderer |-> renderer, texts |-> texts,
   subject |-> subject, resolver |-> resolver]

(* A manifest, whose lists may name something twice.                        *)
Manifest(schema, requires, provides, facets, kinds) ==
  [schema |-> schema, requires |-> requires, provides |-> provides,
   facets |-> facets, kinds |-> kinds]

Distinct(list) == \A i, j \in DOMAIN list : list[i] = list[j] => i = j
Ids(facets)    == [i \in DOMAIN facets |-> facets[i].id]

-----------------------------------------------------------------------------
(* SubjectKindRef::validate: a provider is a command, and only the kernel   *)
(* has one without an address.                                              *)
KindRefValid(ref) ==
  /\ ref.kind \in Tokens /\ ref.provider.type = "command"
  /\ ref.provider.address = Root => ref.provider.source = "kernel"

(* validate_resolver.                                                       *)
ReturnsFit(kind, returns) ==
  CASE kind = "collection" -> returns = "collection"
    [] kind = "projection" -> returns \notin {"none", "collection"}
    [] OTHER               -> returns = "none"

ArgumentsFit(arguments) ==
  Len(arguments) <= MaxArguments /\ \A i \in DOMAIN arguments : arguments[i].fits

ResolverValid(facet, scope) ==
  LET r == facet.resolver IN
  /\ IsProviderAddress(r.address)
  /\ ArgumentsFit(r.arguments)
  /\ \A i \in DOMAIN r.arguments : r.arguments[i].bind \in {"none", scope}
  /\ r.confirmation # "not a text"
  /\ ~ (r.tail /\ r.confirmation # "none")
  /\ ReturnsFit(facet.kind, r.returns)
  /\ facet.kind # "operation" => ~ r.tail /\ r.confirmation = "none"
  /\ r.returns # "not a text"

(* validate_facet_shape, for a facet of a command or of a kind's subjects.  *)
DeclaredRenderer == [kind \in FacetKinds |->
  CASE kind = "collection" -> "collection" [] kind = "operation" -> "run" [] OTHER -> "overview"]

ShapeValid(facet, scope) ==
  /\ facet.renderer = DeclaredRenderer[facet.kind]
  /\ IF scope = "command address"
     THEN IF facet.kind = "collection" THEN KindRefValid(facet.subject) ELSE facet.subject = NoKindRef
     ELSE facet.subject = NoKindRef /\ facet.kind # "collection"
  /\ facet.resolver.type = "command"
  /\ ResolverValid(facet, scope)

(* validate_facets.                                                         *)
FacetsValid(facets, scope) ==
  /\ Len(facets) <= MaxFacets /\ Distinct(Ids(facets))
  /\ \A i \in DOMAIN facets :
       facets[i].id \in Tokens /\ facets[i].texts /\ ShapeValid(facets[i], scope)

KindsValid(kinds) ==
  /\ Len(kinds) <= MaxKinds /\ Distinct([i \in DOMAIN kinds |-> kinds[i].kind])
  /\ \A i \in DOMAIN kinds :
       kinds[i].kind \in Tokens /\ kinds[i].facets # <<>> /\ FacetsValid(kinds[i].facets, "subject id")

(* validate_manifest.                                                       *)
ManifestValid(m) ==
  /\ m.schema
  /\ <<m.requires, m.provides, m.facets, m.kinds>> # <<<<>>, <<>>, <<>>, <<>>>>
  /\ Distinct(m.requires)
  /\ \A i \in DOMAIN m.requires :
       IsProviderAddress(m.requires[i].provider) /\ m.requires[i].contract \in Contracts
  /\ Distinct(m.provides) /\ \A i \in DOMAIN m.provides : m.provides[i] \in Contracts
  /\ KindsValid(m.kinds)
  /\ FacetsValid(m.facets, "command address")

-----------------------------------------------------------------------------
(* Facet::validate, of what is shown.                                       *)
CommandResolverValid(facet) ==
  LET r == facet.resolver IN
  /\ r.address # Root /\ ArgumentsFit(r.arguments)
  /\ r.confirmation # "not a text" /\ r.returns # "not a text"
  /\ ~ (r.tail /\ r.confirmation # "none")
  /\ ReturnsFit(facet.kind, r.returns)
  /\ facet.kind # "operation" => ~ r.tail /\ r.confirmation = "none"

FacetValid(facet, help) ==
  /\ facet.id \in Tokens /\ facet.texts
  /\ CASE facet.kind = "collection" -> facet.renderer = "collection"
       [] facet.kind = "projection" -> facet.renderer = "overview"
       [] OTHER                     -> facet.renderer \notin {"collection", "overview"}
  /\ CASE facet.kind = "collection" /\ facet.resolver.type = "command" -> KindRefValid(facet.subject)
       [] OTHER -> facet.subject = NoKindRef
  /\ CASE facet.resolver.type = "none"    -> FALSE
       [] facet.resolver.type = "catalog" -> facet.kind = "collection" /\ facet.resolver = Children
       [] OTHER                           -> CommandResolverValid(facet)
  /\ facet.renderer = "help" => facet.resolver.type = "command" /\ facet.resolver.address = help

(* instantiate: a template becomes a facet of one subject.                  *)
BoundTo(resolver, bind, argument) ==
  LET given == resolver.arguments
  IN  [resolver EXCEPT !.arguments =
         [i \in DOMAIN given |-> IF given[i].bind = bind THEN argument ELSE given[i]]]

Instantiated(template, id) ==
  [template EXCEPT !.subject = NoKindRef, !.resolver = BoundTo(@, "subject id", Literal(id))]

(* SubjectFacetTemplate::validate and SubjectKind::validate.                *)
TemplateValid(template, help) ==
  /\ FacetValid(Instantiated(template, "subject"), help)
  /\ template.kind # "collection"
  /\ template.kind = "operation" => template.renderer = "run"

KindValid(kind, facets, help) ==
  /\ kind \in Tokens /\ Len(facets) \in 1 .. MaxTemplates /\ Distinct(Ids(facets))
  /\ \A i \in DOMAIN facets : TemplateValid(facets[i], help)

-----------------------------------------------------------------------------
ShownValid(facet, help) ==
  /\ FacetValid(facet, help)
  /\ \A i \in DOMAIN facet.resolver.arguments : facet.resolver.arguments[i].bind = "none"

(* The two validations agree: what a valid manifest declares is valid when  *)
(* it is shown, with every argument bound to the subject it is shown for,   *)
(* so that no command of the catalog has a facet that its readers refuse.   *)
DeclaredIsValid(m, owner, id, help) ==
  ManifestValid(m) =>
    /\ \A i \in DOMAIN m.facets :
         ShownValid([m.facets[i] EXCEPT !.resolver = BoundTo(@, "command address", Address(owner))], help)
    /\ \A k \in DOMAIN m.kinds :
         /\ KindValid(m.kinds[k].kind, m.kinds[k].facets, help)
         /\ \A i \in DOMAIN m.kinds[k].facets : ShownValid(Instantiated(m.kinds[k].facets[i], id), help)
=============================================================================
