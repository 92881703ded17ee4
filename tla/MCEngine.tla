------------------------------ MODULE MCEngine ------------------------------
(***************************************************************************)
(* Instances of Engine and of EngineRefinement: two operand values, so     *)
(* that a word that lands in the wrong place shows.  main calls callee,    *)
(* whose result is two words over one parameter word, in a module so far   *)
(* away that the frame's module_delta wraps.                               *)
(***************************************************************************)
EXTENDS EngineRefinement

MCModules == {0, 200}
MCFuncs == {"main", "callee"}
MCModuleOf == [f \in MCFuncs |-> IF f = "callee" THEN 200 ELSE 0]
MCParamWords == [f \in MCFuncs |-> IF f = "main" THEN 0 ELSE 1]
MCLocalWords == [f \in MCFuncs |-> IF f = "main" THEN 1 ELSE 0]
MCStackUsage == [f \in MCFuncs |-> 2]
MCResultWords == [f \in MCFuncs |-> IF f = "main" THEN 1 ELSE 2]
MCHosts == {"host"}
MCHostParams == [h \in MCHosts |-> 0]
MCHostResult == [h \in MCHosts |-> 1]
MCMemoryOf == [m \in MCModules |-> IF m = 0 THEN "memory0" ELSE "memory200"]
MCTableOf == [m \in MCModules |-> IF m = 0 THEN "table0" ELSE "table200"]
=============================================================================
