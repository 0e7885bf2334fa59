------------------------------ MODULE HelpPages ------------------------------
(***************************************************************************)
(* The pages of .help (help.rs): the help text of one command and a row for *)
(* each command directly below it.                                          *)
(***************************************************************************)
EXTENDS Catalog

(* find_target: the root's page is the kernel's, and an address names one   *)
(* command or the request is refused.                                       *)
Targets(nodes, address) ==
  {n \in nodes : n.address = address /\ (address = Root => n.source = "kernel")}

(* direct_children: the root lists those of all sources.                    *)
Rows(nodes, target) ==
  {n \in nodes : /\ ~ n.alias /\ n.address # Root
                 /\ ParentAddress(n.address) = target.address
                 /\ target.address = Root \/ n.source = target.source}

(* The sections of a page.                                                  *)
Sections(nodes, target) ==
  IF target.address = Root THEN {{n \in Rows(nodes, target) : n.source = s} : s \in Sources}
                           ELSE {Rows(nodes, target)}

(* display_address: the other names of a command, shown in its row.         *)
AliasesShown(nodes, node) ==
  {n \in nodes : n.source = node.source /\ n.alias /\ node.address = Help}

(* summary: what a row says when there is no help to say it.                *)
RowSays(node) ==
  CASE node.helpRefused                                  -> "help protocol error"
    [] ~ node.helpRefused /\ node.help                   -> "summary"
    [] ~ node.helpRefused /\ ~ node.help /\ node.diagnosed -> "protocol error"
    [] OTHER -> IF node.runnable THEN "handled by command" ELSE "group"

(* render_help.                                                             *)
Page(nodes, address) ==
  LET target == Only(Targets(nodes, address)) IN
  CASE Targets(nodes, address) = {}               -> "not found"
    [] Cardinality(Targets(nodes, address)) > 1   -> "ambiguous"
    [] OTHER -> IF target.helpRefused THEN "invalid"
                ELSE IF ~ target.help THEN "unavailable" ELSE "page"

-----------------------------------------------------------------------------
(* Every command has a page of its own, if it has help, and is listed on    *)
(* exactly one other, the page of the command above it: as itself or, with  *)
(* an alias, in the row of what it stands for.                              *)
EveryCommandIsListedOnce(nodes) ==
  \A n \in nodes :
    /\ Page(nodes, n.address) \notin {"not found", "ambiguous"}
    /\ n.help => Page(nodes, n.address) = "page"
    /\ n.address # Root /\ (\E h \in nodes : h.address = Help) =>
         Cardinality({t \in nodes : n \in Rows(nodes, t)})
           + Cardinality({t \in nodes : n \in AliasesShown(nodes, t)}) = 1
=============================================================================
