------------------------------ MODULE MCCatalog ------------------------------
(* The catalog, its help pages and the resolution of its facets over small  *)
(* command trees.  The kernel's help, check, runs and settings are in every *)
(* tree; the run records, an Entry command and two of the project's actions *)
(* vary: what runs in them and what their modules declare.                  *)
EXTENDS FacetResolution, HelpPages

Named(sign, word) == [prefix |-> sign, word |-> word]

HelpAt  == <<Named(".", "help")>>
CheckAt == <<Named(".", "check")>>
RunsAt  == <<Named(".", "runs")>>
SetAt   == <<Named(".", "dev"), Named("", "set")>>
EntryAt == <<Named("..", "entry")>>
Action  == <<Named("", "dev")>>
Inner   == <<Named("", "dev"), Named("", "set")>>
ShortHelp == <<Named(".", "h")>>
AliasesAt == {ShortHelp, <<Named("--", "help")>>}
SettingsAt == {SetAt}
BuiltInAt == [a \in {HelpAt, CheckAt, RunsAt} |->
  CASE a = HelpAt -> "meta.help" [] a = CheckAt -> "meta.check" [] OTHER -> "meta.runs"]

-----------------------------------------------------------------------------
Entry(adapter, handler) ==
  [adapter |-> adapter, canonical |-> TRUE, link |-> FALSE, schema |-> TRUE, handler |-> handler]
ModuleFile(m) == [canonical |-> TRUE, link |-> FALSE, parsed |-> TRUE, manifest |-> m]
HelpFolder(blank) ==
  [canonical |-> TRUE, link |-> FALSE,
   files |-> {[language |-> "zh-CN", canonical |-> TRUE, link |-> FALSE, blank |-> blank]}]
With(entries, modules) == Directory(FALSE, entries, modules, {HelpFolder(FALSE)}, {})

KindOf(kind, facets) == [kind |-> kind, facets |-> facets]
Shows(address) == Facet("x", "projection", "overview", TRUE, NoKindRef,
                    Calls(address, <<Bound("subject id")>>, FALSE, "none", "p"))
Acts(address) == Facet("run", "operation", "run", TRUE, NoKindRef,
                   Calls(address, <<Bound("subject id")>>, FALSE, "text", "none"))
RunKinds == <<KindOf("run", <<Shows(HelpAt), Acts(Action)>>)>>
KindLists == {<<>>, RunKinds, <<KindOf("ctx", <<Shows(Action)>>)>>}

Lists(kind, provider, address) ==
  Facet("x", "collection", "collection", TRUE, KindRef(kind, provider),
        Calls(address, <<Bound("command address")>>, FALSE, "none", "collection"))
Projects(id, address) ==
  Facet(id, "projection", "overview", TRUE, NoKindRef, Calls(address, <<>>, FALSE, "none", "p"))
FacetLists == {<<>>, <<Lists("run", Command("kernel", RunsAt), RunsAt)>>,
               <<Lists("ctx", Command("action", Action), Action)>>,
               <<Projects("help", Inner)>>, <<Projects("x", SubSeq(SetAt, 1, 1)), Projects("runs", HelpAt)>>}

ModuleFiles == {{}, {[ModuleFile(NoManifest) EXCEPT !.parsed = FALSE]}}
                 \cup {{ModuleFile(Manifest(TRUE, <<>>, <<>>, f, k))} : f \in FacetLists, k \in KindLists}
EntryFiles == {{}, {Entry("exe", "none")}, {Entry("bun", "none")}, {Entry("exe", "none"), Entry("bun", "none")}}

Setting == With({Entry("core", "entry.profile.set")}, {})

KernelTree(runs, entry) ==
  [p \in {Root, HelpAt, CheckAt, RunsAt, SubSeq(SetAt, 1, 1), SetAt, EntryAt, ShortHelp,
          Append(ShortHelp, Named("", "set")), <<Named("_", "help")>>, <<Named(".", "con")>>} |->
     CASE p = HelpAt  -> With({Entry("core", "meta.help")}, {})
       [] p = CheckAt -> Directory(FALSE, {Entry("core", "meta.check")}, {}, {HelpFolder(TRUE)}, {})
       [] p = RunsAt  -> runs
       [] p = SetAt   -> Setting
       [] p = EntryAt -> entry
       [] OTHER       -> EmptyDirectory]

ActionTree(outer, inner) ==
  [p \in {Root, Action, Inner, SubSeq(SetAt, 1, 1)} |->
     CASE p = Action -> outer [] p = Inner -> inner [] OTHER -> EmptyDirectory]

TreesOf(outers) ==
  {<<KernelTree(runs, entry), ActionTree(outer, inner)>> :
     runs  \in {With({Entry("core", "meta.runs")}, m) :
                  m \in {{}, {ModuleFile(Manifest(TRUE, <<>>, <<>>, <<>>, RunKinds))}}},
     entry \in {Setting, With({Entry("exe", "none")}, {})},
     outer \in outers,
     inner \in {With({Entry("exe", "none")}, m) :
                  m \in {{}, {ModuleFile(Manifest(TRUE, <<>>, <<>>, <<>>, <<KindOf("ctx", <<Shows(Action)>>)>>))}}}}

CommandTrees == TreesOf({With(e, m) : e \in EntryFiles, m \in ModuleFiles})

ASSUME CatalogAssumption ==
  \A tree \in CommandTrees :
    /\ CatalogHolds(tree[1], tree[2], "enabled", "en")
    /\ EveryCommandIsListedOnce(Discovered(tree[1], tree[2], "enabled", "en"))

-----------------------------------------------------------------------------
(* What the commands print: the run records and the action a collection or  *)
(* a document, the others their document.                                   *)
Addresses == {HelpAt, CheckAt, RunsAt, SetAt, Action, Inner}
ArgumentLists ==
  {<<>>, <<Literal("i1")>>} \cup {<<Address(a)>> : a \in Addresses}
    \cup {<<Address(a), Literal("--json")>> : a \in Addresses \cup {SubSeq(SetAt, 1, 1)}}
    \cup {<<Literal("--json"), Literal(s), Address(a)>> : s \in {"kernel", "action"}, a \in Addresses}

CollectionsPrinted ==
  {Collection(Command("action", Action), f, <<Subject(Instance(k, "i1"), ids)>>) :
     f \in {"runs", "x"}, k \in {"run", "ctx"}, ids \in {<<"x">>, <<"run", "x">>}}

Answers(protocol, collection) ==
  [a \in Addresses, list \in ArgumentLists |->
     CASE a = CheckAt                                -> Answer(TRUE, "module check", NoCollection)
       [] a = HelpAt \/ (a # CheckAt /\ list = <<Literal("i1")>>) -> Answer(TRUE, "p", NoCollection)
       [] OTHER                                      -> Answer(TRUE, protocol, collection)]

ASSUME ResolutionHolds ==
  \A tree \in TreesOf({With({Entry("exe", "none")}, m) : m \in ModuleFiles}) :
    LET nodes == Discovered(tree[1], tree[2], "enabled", "en") IN
    \A protocol \in {"collection", "p"}, collection \in CollectionsPrinted :
      /\ DocumentsAreReadable(nodes, Answers(protocol, collection))
      /\ ListedFacetsAreReadable(nodes, Answers(protocol, collection))

-----------------------------------------------------------------------------
(* Every way to declare one facet.                                          *)
Declared ==
  [id : {"x", NotAToken}, kind : FacetKinds, renderer : Renderers, texts : BOOLEAN,
   subject : {NoKindRef, KindRef("run", Command("kernel", RunsAt))},
   resolver : {NoResolver, Children} \cup
     {Calls(a, list, tail, c, p) :
        a \in {Root, Action, EntryAt}, tail \in BOOLEAN, c \in {"none", "text", "not a text"},
        list \in {<<>>, <<Bound("subject id")>>, <<Bound("command address")>>, <<TooLong>>},
        p \in {"none", "collection", "p", "not a text"}}]

ASSUME ValidationsAgree ==
  \A f \in Declared :
    /\ DeclaredIsValid(Manifest(TRUE, <<>>, <<>>, <<f>>, <<>>), Action, "i1", HelpAt)
    /\ DeclaredIsValid(Manifest(TRUE, <<>>, <<>>, <<>>, <<KindOf("ctx", <<f>>)>>), Action, "i1", HelpAt)
=============================================================================
