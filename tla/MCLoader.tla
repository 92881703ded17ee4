------------------------------ MODULE MCLoader ------------------------------
(* Small instances of Loader. *)
EXTENDS Loader

Limit(min) == [min |-> min, max |-> None]

(* A host module with a function and a table, and one with a function, a   *)
(* global and a table of one name.                                         *)
MCHostModule ==
  [name |-> "host", Func |-> <<[name |-> "f", ty |-> StartType]>>, Global |-> <<>>,
   Table |-> <<[name |-> "t", limits |-> Limit(1)]>>, Memory |-> <<>>]
MCSameName ==
  [MCHostModule EXCEPT
     !.Global = <<[name |-> "f", ty |-> CHOOSE ty \in Types : ty # StartType]>>,
     !.Table = <<[name |-> "f", limits |-> Limit(1)]>>]

(* Three modules, none of which imports from another, that write into      *)
(* tables and run.                                                         *)
MCTables ==
  [hosts |-> <<MCHostModule>>, names |-> {"host", NoName}, symbols |-> {"t"},
   sections |-> {2, 3, 4, 9, 10}, failures |-> {"allocation", "malformed"},
   imports |-> 1, loads |-> 3, runs |-> TRUE]
(* Two modules, of which the second links to the first. *)
MCLinks ==
  [hosts |-> <<MCSameName>>, names |-> {"host", "a", NoName}, symbols |-> {"f"},
   sections |-> {2, 3, 5, 7, 8, 10}, failures |-> {}, imports |-> 2, loads |-> 2, runs |-> FALSE]
(* Memories and their imports. *)
MCMemories ==
  [hosts |-> <<MCHostModule>>, names |-> {"host", "a", NoName}, symbols |-> {"f"},
   sections |-> {2, 3, 5, 7, 10}, failures |-> {}, imports |-> 1, loads |-> 2, runs |-> FALSE]

(* More host modules than references tell apart: an import of the third is *)
(* linked to the first, which lacks the function and the table, and has a  *)
(* global of another type and a smaller memory.                            *)
MCManyHosts ==
  LET first == [name |-> "first", Func |-> <<>>, Global |-> <<[name |-> "g", ty |-> StartType]>>,
                Table |-> <<>>, Memory |-> <<[name |-> "g", limits |-> Limit(0)]>>]
      third == [MCSameName EXCEPT !.Memory = <<[name |-> "f", limits |-> Limit(1)]>>]
  IN [hosts |-> <<first, [first EXCEPT !.name = "second"], third>>,
      names |-> {"host", "a", NoName}, symbols |-> {"f"}, sections |-> {2, 3, 4, 7, 9, 10},
      failures |-> {"malformed"}, imports |-> 1, loads |-> 2, runs |-> TRUE]

MCEngines == {MCTables, MCLinks, MCManyHosts}
MCEnginesShortOfMemory == {[MCTables EXCEPT !.failures = {"allocation"}]}
MCEnginesWithMemories == {MCMemories}

(* Of two loads the first has a name, by which the second may import from  *)
(* it; nothing is imported from the second, which needs none.              *)
FirstIsNamed ==
  engine.loads = 2 /\ load # None /\ loads = 1 => load.module.name # NoName

OneLimit == {Limit(1)}
=============================================================================
