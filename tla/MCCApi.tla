------------------------------- MODULE MCCApi -------------------------------
(* "app" imports a host function and exports it beside its own function    *)
(* and a global; "user" imports the function of app, which it starts with. *)
EXTENDS CApi, TLC

CONSTANTS a1, a2, hostname, app, sym

Function(params, returns, stack) == [params |-> params, returns |-> returns, stack |-> stack]
Import(module, params, returns) ==
  [module |-> module, name |-> sym, type |-> [params |-> params, returns |-> returns]]
Export(name, kind, index) == [name |-> name, kind |-> kind, index |-> index]

ModuleImages == {
  [imports |-> <<Import(hostname, <<"I32">>, <<>>)>>,
   functions |-> <<Function(<<>>, <<>>, 2), Function(<<"I64">>, <<"I32">>, 3)>>,
   globals |-> <<[ty |-> "I32", mutable |-> TRUE], [ty |-> "I64", mutable |-> FALSE]>>,
   memory |-> 1, start |-> 1, words |-> 1,
   exports |-> <<Export(sym, "Func", 1), Export(app, "Func", 0), Export(hostname, "Global", 1)>>],
  [imports |-> <<Import(app, <<>>, <<>>)>>,
   functions |-> <<Function(<<>>, <<"I64">>, 3)>>,
   globals |-> <<>>, memory |-> 0, start |-> 0, words |-> 1,
   exports |-> <<Export(sym, "Func", 1)>>]}

(* The arguments of a call: good ones, and each argument gone wrong.       *)
ModuleArguments ==
  {[name |-> n, max_functions |-> 1, heap |-> "OK"] : n \in {hostname, LongName, Null}}
    \cup {[name |-> hostname, max_functions |-> 1, heap |-> "OutOfMemory"]}

GoodFunctions == {[idx |-> 0, name |-> sym, params |-> p, returns |-> r, f |-> "pointer", heap |-> "OK"] :
  p \in {<<>>, <<"i">>}, r \in {<<>>, <<"i">>}}

FunctionArguments == GoodFunctions \cup UNION {
  {[f EXCEPT !.idx = 1], [f EXCEPT !.name = LongName], [f EXCEPT !.name = BadUtf8],
   [f EXCEPT !.params = Null], [f EXCEPT !.params = <<"i", "?">>],
   [f EXCEPT !.params = <<"i", "i", "?">>], [f EXCEPT !.returns = <<"I", "i">>],
   [f EXCEPT !.f = Null], [f EXCEPT !.heap = "OutOfMemory"]} : f \in GoodFunctions}

GoodLoads == {[name |-> n, read |-> "pointer", image |-> i, fault |-> Complete] :
  n \in {app, sym}, i \in ModuleImages}

LoadArguments == GoodLoads \cup UNION {
  {[l EXCEPT !.name = Null], [l EXCEPT !.name = hostname], [l EXCEPT !.read = Null],
   [l EXCEPT !.fault = Fault("early", "READER_ERROR")],
   [l EXCEPT !.fault = Fault("late", "MALFORMED")],
   [l EXCEPT !.fault = Fault("late", "OutOfMemory")]} : l \in GoodLoads}

SignatureArguments == {[params |-> p, returns |-> r] :
  p \in {<<"I">>, <<"i", "?">>, BadUtf8}, r \in {<<>>, <<"i">>}}

ArgumentLists == {<<>>, <<[tag |-> "I64", v |-> 0]>>, <<[tag |-> "I32", v |-> 0]>>,
  <<[tag |-> "invalid", v |-> 0]>>, <<[tag |-> "I64", v |-> 0], [tag |-> "I64", v |-> 0]>>}

(* The last answer is read by no action: states that differ only in it are *)
(* one, while the properties still see every step with its answer.         *)
StateView == <<allocators, host, engine, running, callback, taken, panicked, Trapped>>
AllocatorSymmetry == Permutations(Allocators)
=============================================================================
