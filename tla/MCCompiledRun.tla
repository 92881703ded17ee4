--------------------------- MODULE MCCompiledRun ----------------------------
(* Instances of CompiledRun: constants of one and two words, in bodies of  *)
(* nested blocks and branches, and in shorter ones with loops and code     *)
(* that is never reached.                                                  *)
EXTENDS CompiledRun

MCOps == {[pops |-> <<>>, pushes |-> <<"i32">>, words |-> 1],
          [pops |-> <<>>, pushes |-> <<"i64">>, words |-> 1]}
MCBodies ==
  {[opcodes |-> {"block", "if", "else", "br_if", "br_table"},
    types |-> {"none", "i32"}, frames |-> 3, words |-> 11],
   [opcodes |-> {"drop", "select", "return", "unreachable", "loop", "br"},
    types |-> {"i32"}, frames |-> 2, words |-> 6]}
=============================================================================
