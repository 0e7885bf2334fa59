------------------------------- MODULE MCEntry -------------------------------
(* The model-checking instance of what one Entry does for its users: Setup, *)
(* a command run from the console, a facet query and the saved contexts.  A *)
(* behaviour is about one of them.                                          *)
EXTENDS Setup, CommandExecution, FacetQuery, ContextStore, MCCatalog, TLC

VARIABLE part

Parts == {"setup", "execution", "query", "contexts"}

MCInit ==
  /\ part \in Parts
  /\ SetupInit /\ (part # "setup" => profileFile = NoProfile)
  /\ ExecutionInit /\ QueryInit /\ ContextInit

Others(p) ==
  /\ p # "setup"     => UNCHANGED setupVars
  /\ p # "execution" => UNCHANGED executionVars
  /\ p # "query"     => UNCHANGED queryVars
  /\ p # "contexts"  => UNCHANGED contextVars

MCNext ==
  /\ UNCHANGED part
  /\ \/ part = "setup"     /\ SetupNext
     \/ part = "execution" /\ ExecutionNext
     \/ part = "query"     /\ QueryNext
     \/ part = "contexts"  /\ ContextNext
  /\ Others(part)

MCSpec ==
  MCInit /\ [][MCNext]_<<part, setupVars, executionVars, queryVars, contextVars>>

Symmetry == Permutations(Actors) \cup Permutations(Inputs)

(* Every variable of the part has its type.                                  *)
EntryTypeOK ==
  CASE part = "setup"     -> SetupTypeOK
    [] part = "execution" -> ExecutionTypeOK
    [] part = "query"     -> QueryTypeOK
    [] part = "contexts"  -> ContextTypeOK
=============================================================================
