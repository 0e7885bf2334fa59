------------------------------- MODULE Catalog -------------------------------
(***************************************************************************)
(* The catalog of commands, as it is discovered below the command roots     *)
(* (catalog.rs, catalog/entry.rs, catalog/view.rs, catalog/subject_kind.rs, *)
(* catalog/facet.rs and facet/defaults.rs).  What is wrong with a command   *)
(* makes it a command that does not run, with a diagnostic; what is wrong   *)
(* with a root is an error.                                                 *)
(***************************************************************************)
EXTENDS ModuleContract
LOCAL INSTANCE SequencesExt

CONSTANTS Help, Check, RunsCommand,  \* the addresses .help, .check and .runs
          HelpAliases,               \* .h, -h and --help
          Settings,                  \* addresses of profile settings
          BuiltIn                    \* the handler of each built-in Kernel command

RunKind       == "run"
MetaHandlers  == {"meta.check", "meta.help", "meta.runs"}
EntryHandlers == {"entry.claim", "entry.profile.set"}
CoreHandlers  == MetaHandlers \cup EntryHandlers \cup {BuiltIn[a] : a \in DOMAIN BuiltIn}
ToolchainHandlers == {"dev.setup", "dev.status"}
Adapters == {"core", "toolchain", "exe", "bun", "python", "pwsh", "cmd"}

(* A file or directory of the name that is looked for, in whatever case.    *)
(* There may be one only, with the canonical name, that is not a link.      *)
Unreadable(found) == Cardinality(found) > 1 \/ \E f \in found : ~ f.canonical \/ f.link

Only(found) == CHOOSE f \in found : TRUE

(* A directory: the run entries, manifests, help and view in it.            *)
Directory(link, entries, modules, helps, views) ==
  [link |-> link, entries |-> entries, modules |-> modules, helps |-> helps, views |-> views]
EmptyDirectory == Directory(FALSE, {}, {}, {}, {})

-----------------------------------------------------------------------------
(* read_handler_manifest, of an entry that names a handler.                 *)
HandlerAccepted(entry) ==
  CASE entry.adapter = "core"      -> entry.schema /\ entry.handler \in CoreHandlers
    [] entry.adapter = "toolchain" -> entry.schema /\ entry.handler \in ToolchainHandlers
    [] OTHER                       -> TRUE

(* resolve_entry: one run entry of all adapters together.                   *)
EntryRefused(entries) ==
  \/ \E a \in Adapters : Unreadable({e \in entries : e.adapter = a})
  \/ \E e \in entries : ~ HandlerAccepted(e)
  \/ Cardinality(entries) > 1

(* has_valid_core_owner.                                                    *)
IsCoreOwner(source, address, handler) ==
  CASE source = "control" -> handler \notin MetaHandlers
    [] source = "kernel"  -> \/ address \in DOMAIN BuiltIn /\ handler = BuiltIn[address]
                             \/ handler = "entry.profile.set" /\ address \in Settings
    [] OTHER              -> FALSE

(* scan_node: which commands an adapter may run.                            *)
EntryAllowed(entry, source, address, pwsh) ==
  CASE entry.adapter = "core"      -> IsCoreOwner(source, address, entry.handler)
    [] entry.adapter = "toolchain" -> source = "kernel"
    [] entry.adapter = "bun"       -> source = "action"
    [] entry.adapter = "python"    -> FALSE
    [] entry.adapter = "pwsh"      -> pwsh = "enabled" /\ source # "control"
    [] OTHER                       -> source # "control"

(* read_local_module_contract.                                              *)
ContractRefused(modules) ==
  \/ Unreadable(modules)
  \/ modules # {} /\ (~ Only(modules).parsed \/ ~ ManifestValid(Only(modules).manifest))

NoManifest == Manifest(FALSE, <<>>, <<>>, <<>>, <<>>)

(* find_help_file and read_local_help: English readers without an English   *)
(* help file read the Chinese one.                                          *)
HelpFiles(folder, language) == {f \in folder.files : f.language = language}

HelpFile(folder, language) ==
  IF language = "en" /\ HelpFiles(folder, "en") = {} THEN HelpFiles(folder, "zh-CN")
                                                     ELSE HelpFiles(folder, language)

HelpRefused(helps, language) ==
  \/ Unreadable(helps)
  \/ helps # {} /\ LET file == HelpFile(Only(helps), language) IN
                   Unreadable(file) \/ (file # {} /\ Only(file).blank)

HasHelp(helps, language) ==
  ~ HelpRefused(helps, language) /\ helps # {} /\ HelpFile(Only(helps), language) # {}

(* validate_run and read_local_web_view.                                    *)
RunViewValid(operations) ==
  /\ Len(operations) \in 1 .. 8 /\ Distinct(Ids(operations))
  /\ \A i \in DOMAIN operations : operations[i].id \in Tokens /\ operations[i].texts

ViewValid(view) ==
  /\ view.schema
  /\ view.column \/ view.run
  /\ view.run => RunViewValid(view.operations)

ViewRefused(views) ==
  \/ Unreadable(views)
  \/ views # {} /\ LET files == Only(views).files IN
                   Unreadable(files) \/ (files # {} /\ ~ ViewValid(Only(files).view))

(* command_alias.                                                           *)
IsAlias(source, address) == source = "kernel" /\ address \in HelpAliases

(* scan_node.                                                               *)
Node(where, directory, pwsh, language) ==
  LET source  == where.source
      address == where.address
      refused == EntryRefused(directory.entries)
      invalid == ContractRefused(directory.modules)
      entry   == Only(directory.entries)
      there   == ~ refused /\ directory.entries # {}
      allowed == there /\ EntryAllowed(entry, source, address, pwsh)
      runs    == allowed /\ ~ invalid
  IN  [source |-> source, address |-> address, alias |-> IsAlias(source, address),
       runnable |-> runs,
       handler |-> IF runs /\ entry.adapter \in {"core", "toolchain"} THEN entry.handler ELSE "none",
       contract |-> directory.modules # {} /\ ~ invalid,
       module |-> IF directory.modules # {} /\ ~ invalid THEN Only(directory.modules).manifest
                                                         ELSE NoManifest,
       help |-> HasHelp(directory.helps, language),
       helpRefused |-> HelpRefused(directory.helps, language),
       diagnosed |-> \/ invalid \/ refused \/ (there /\ ~ allowed)
                     \/ HelpRefused(directory.helps, language) \/ ViewRefused(directory.views)]

(* discover_optional_roots, for a kernel root and an action root that are   *)
(* directories.  Without a profile there is no action root.                 *)
Discovered(kernel, action, pwsh, language) ==
  {Node(where, kernel[where.address], pwsh, language) : where \in Found("kernel", kernel)}
    \cup {Node(where, action[where.address], pwsh, language) : where \in Found("action", action)}

-----------------------------------------------------------------------------
(* ResolverCapability: the commands that the console may run, by address.   *)
WebRunnable(nodes, address) ==
  \E n \in nodes : n.address = address /\ n.runnable /\ ~ n.alias /\ n.source # "control"

(* resolve_subject_kinds: a kind that two modules declare is nobody's, and  *)
(* a template that cannot be resolved takes its kind with it.               *)
KindsOf(node) == {node.module.kinds[i] : i \in DOMAIN node.module.kinds}

Owners(nodes, kind) == {n \in nodes : \E k \in KindsOf(n) : k.kind = kind}

KindResolves(nodes, kind) ==
  /\ Cardinality(Owners(nodes, kind.kind)) = 1
  /\ \A i \in DOMAIN kind.facets : /\ kind.facets[i].resolver.type = "command"
                                   /\ WebRunnable(nodes, kind.facets[i].resolver.address)
  /\ KindValid(kind.kind, kind.facets, Help)

SubjectKinds(nodes, node) == {k \in KindsOf(node) : KindResolves(nodes, k)}

(* The provider of each kind.                                               *)
Provides(nodes, ref) ==
  \E n \in nodes : /\ ref.provider = Command(n.source, n.address)
                   /\ \E k \in SubjectKinds(nodes, n) : k.kind = ref.kind

-----------------------------------------------------------------------------
(* children_facet and default_facets.                                       *)
ChildrenFacet == Facet("children", "collection", "collection", TRUE, NoKindRef, Children)

Operation(id, renderer, resolver) == Facet(id, "operation", renderer, TRUE, NoKindRef, resolver)

EditFacet(n) == Operation("edit", "edit", Calls(n.address, <<>>, FALSE, "none", "none"))
HelpFacet(n) == Operation("help", "help",
                  Calls(Help, IF n.address = Root THEN <<>> ELSE <<Address(n.address)>>, FALSE, "none", "none"))
CheckFacet(n) == Facet("check", "projection", "overview", TRUE, NoKindRef,
                   Calls(Check, <<Address(n.address), Literal("--json")>>, FALSE, "none", "module check"))
RunKindRef == KindRef(RunKind, Command("kernel", RunsCommand))
RunsFacet(n) == Facet("runs", "collection", "collection", TRUE, RunKindRef,
                  Calls(RunsCommand, <<Literal("--json"), Literal(n.source), Address(n.address)>>,
                       FALSE, "none", "collection"))
RunFacet(n) == Operation("run", "run", Calls(n.address, <<>>, TRUE, "none", "none"))

Shown(facet, shown) == IF shown THEN <<facet>> ELSE <<>>

DefaultFacets(nodes, n) ==
  LET ordinary == n.source # "control" /\ n.address # Root /\ ~ n.alias IN
    Shown(EditFacet(n), n.handler = "entry.profile.set")
    \o Shown(HelpFacet(n), WebRunnable(nodes, Help))
    \o Shown(CheckFacet(n), /\ WebRunnable(nodes, Check) /\ ordinary
                            /\ n.runnable \/ n.contract \/ n.diagnosed)
    \o Shown(RunsFacet(n), /\ WebRunnable(nodes, RunsCommand) /\ ordinary /\ n.runnable
                           /\ Provides(nodes, RunKindRef))
    \o Shown(RunFacet(n), ordinary /\ n.runnable)

(* resolve_declared_facet.                                                  *)
FacetResolves(nodes, facet) ==
  /\ facet.subject # NoKindRef => Provides(nodes, facet.subject)
  /\ facet.resolver.type = "command" => WebRunnable(nodes, facet.resolver.address)

(* resolve_command_facets and append_core_facet: a module may replace what  *)
(* every command has.  A replacement that does not resolve leaves nothing.  *)
Facets(nodes, n) ==
  LET declared == n.module.facets
      children == Shown(ChildrenFacet, \E c \in nodes : c.address # Root /\ ParentAddress(c.address) = n.address)
      defaults == DefaultFacets(nodes, n)
      Named(id) == {i \in DOMAIN declared : declared[i].id = id}
      Final(i)  == [declared[i] EXCEPT !.resolver = BoundTo(@, "command address", Address(n.address))]
      Core(c)   == IF Named(c.id) = {} THEN <<c>>
                   ELSE LET i == Only(Named(c.id)) IN Shown(Final(i), FacetResolves(nodes, declared[i]))
      Own(d)    == IF \E c \in ToSet(children \o defaults) : c.id = d.id THEN <<>>
                   ELSE LET i == Only(Named(d.id)) IN Shown(Final(i), FacetResolves(nodes, d))
  IN  FlattenSeq([i \in DOMAIN children |-> Core(children[i])])
        \o FlattenSeq([i \in DOMAIN declared |-> Own(declared[i])])
        \o FlattenSeq([i \in DOMAIN defaults |-> Core(defaults[i])])

-----------------------------------------------------------------------------
(* In every catalog: a facet's name means one facet of its command; what is *)
(* shown is valid; and each facet that runs a command names one that the    *)
(* console may run, each collection a kind that exactly one command of the  *)
(* catalog provides.  The exception is the setting of a command of the      *)
(* Entry itself, which is not run through its facet.                        *)
CatalogHolds(kernel, action, pwsh, language) ==
  LET nodes == Discovered(kernel, action, pwsh, language) IN
  /\ AddressesAreUnique(kernel, action)
  /\ \A n \in nodes :
       LET facets == Facets(nodes, n) IN
       /\ Distinct(Ids(facets))
       /\ \A i \in DOMAIN facets :
            LET f == facets[i] IN
            /\ FacetValid(f, Help)
            /\ f.resolver.type = "command" /\ ~ (f = EditFacet(n) /\ n.source = "control") =>
                 WebRunnable(nodes, f.resolver.address)
            /\ f.kind = "collection" /\ f.resolver.type = "command" =>
                 {Command(p.source, p.address) :
                    p \in {q \in nodes : \E k \in SubjectKinds(nodes, q) : k.kind = f.subject.kind}}
                   = {f.subject.provider}
=============================================================================
