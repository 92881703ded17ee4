---------------------------- MODULE CompiledRun -----------------------------
(***************************************************************************)
(* A compiled body, executed: Compiler composed with the part of the       *)
(* interpreter (src/interpreter.rs) that follows labels.  The IR that the  *)
(* compiler wrote is all that the interpreter sees; the operand words of   *)
(* the one activation are marked with the type that produced them.         *)
(***************************************************************************)
EXTENDS Compiler

VARIABLES
  pc,      \* address of the next instruction
  stack,   \* the operand words of the activation, sp at the end
  state    \* "idle", "running", "returned" or "trapped"

rvars == <<pc, stack, state>>
vars == <<cvars, rvars>>

-----------------------------------------------------------------------------
TopWords(s, n) == SubSeq(s, Len(s) - n + 1, Len(s))
Drop(s, n) == SubSeq(s, 1, Len(s) - n)
AllWords(ts) == FoldLeft(LAMBDA ws, t : ws \o WordsOf(t), <<>>, ts)

Instruction(name) == pc \in DOMAIN code /\ "op" \in DOMAIN code[pc] /\ code[pc].op = name
Arg == code[pc].arg

Fall(n) == pc' = pc + n

(* return_: the result words go to the caller. *)
Return(s, size) ==
  /\ stack' = TopWords(s, size)
  /\ state' = "returned"
  /\ UNCHANGED pc

(* br_impl, for the label that is offset words after the instruction. *)
br_impl(offset, s) ==
  LET label == code[pc + offset]
  IN IF label.jump = 0 THEN Return(s, label.arity)
     ELSE /\ stack' = Drop(s, label.depth) \o TopWords(s, label.arity)
          /\ pc' = pc + offset + label.jump
          /\ UNCHANGED state

-----------------------------------------------------------------------------
(* The instructions.  A condition or a table index may have any value.     *)

Operate ==
  /\ Instruction("op")
  /\ stack' = Drop(stack, Len(AllWords(Arg.pops))) \o AllWords(Arg.pushes)
  /\ Fall(Arg.words) /\ UNCHANGED state

DropOperand ==
  /\ Instruction("drop")
  /\ stack' = Drop(stack, Len(WordsOf(Arg)))
  /\ Fall(1) /\ UNCHANGED state

Select ==
  /\ Instruction("select")
  /\ LET s == Drop(stack, 1)
         w == Len(WordsOf(Arg))
     IN \/ stack' = Drop(s, w)
        \/ stack' = Drop(s, 2 * w) \o TopWords(s, w)
  /\ Fall(1) /\ UNCHANGED state

Unreachable ==
  /\ Instruction("unreachable")
  /\ state' = "trapped"
  /\ UNCHANGED <<pc, stack>>

If ==
  /\ Instruction("if")
  /\ stack' = Drop(stack, 1)
  /\ Fall(3) \/ pc' = pc + 1 + code[pc + 1].jump
  /\ UNCHANGED state

Br == Instruction("br") /\ br_impl(1, stack)

BrIf ==
  /\ Instruction("br_if")
  /\ \/ br_impl(1, Drop(stack, 1))
     \/ stack' = Drop(stack, 1) /\ Fall(3) /\ UNCHANGED state

(* The label of case v, or the default after the Arg cases. *)
BrTable ==
  /\ Instruction("br_table")
  /\ \E v \in 0..Arg : br_impl(OpcodeWords(Arg) + 2 * v, Drop(stack, 1))

ReturnInstr == Instruction("return") /\ Return(stack, Arg)

(* invoke: the body starts with no operands. *)
Invoke ==
  /\ status = "compiled" /\ state = "idle"
  /\ state' = "running"
  /\ UNCHANGED <<pc, stack>>

Execute ==
  /\ \/ Invoke
     \/ /\ state = "running"
        /\ \/ Operate \/ DropOperand \/ Select \/ Unreachable
           \/ If \/ Br \/ BrIf \/ BrTable \/ ReturnInstr
  /\ UNCHANGED cvars

Init == CompilerInit /\ pc = 0 /\ stack = <<>> /\ state = "idle"
Next == (Compile /\ UNCHANGED rvars) \/ Execute
Spec == Init /\ [][Next]_vars

-----------------------------------------------------------------------------
(* Properties *)

TypeOK ==
  /\ body \in Bodies /\ here \in 0..body.words /\ DOMAIN code \subseteq 0..(body.words - 1)
  /\ Len(frames) <= body.frames
  /\ \A i \in DOMAIN frames : frames[i].kind \in {"Block", "Loop", "If"}
  /\ value_stack \in Seq(ValType \cup {Unknown}) /\ Len(value_stack) <= MaxStackDepth
  /\ status \in {"compiling", "compiled"}
  /\ DOMAIN goal \subseteq Labels(code) /\ DOMAIN typing \subseteq DOMAIN code
  /\ state \in {"idle", "running", "returned", "trapped"}

(* The branches that wait for the end of an open block are exactly the     *)
(* ones on its chain: nesting, else and dead code never lose a branch, nor *)
(* hand it to another block's chain (write_label_target and                *)
(* pop_control_and_patch_if share the label words between both uses).      *)
PendingBranchesLinked ==
  /\ TypeOK
  /\ status = "compiling" =>
    \A i \in DOMAIN frames :
      frames[i].kind # "Loop" => Chain(code, frames[i].target) = frames[i].branches

(* Every branch leads to the end of the block it named (to the start of a  *)
(* loop, to the else arm), never to the next link of a chain; and none is  *)
(* left pending in a body that is accepted.                                *)
BranchesReachTheirBlock ==
  /\ \A a \in DOMAIN goal :
       code[a].jump = IF goal[a] = EarlyReturn THEN 0 ELSE goal[a] - a
  /\ status = "compiled" => Labels(code) = DOMAIN goal

(* What the validator derived for straight-line code is what the           *)
(* interpreter finds there along every path: only validated instructions   *)
(* are executed, on operands of the validated types, within the high-water *)
(* mark that Func::stack_usage reports to the capacity check of a call; and *)
(* whichever of return, a branch to the outermost label or the end of the  *)
(* body is taken, the words of the declared result are on top.             *)
ExecutionMatchesValidation ==
  /\ state = "running" =>
       /\ pc \in DOMAIN typing
       /\ stack = StackWords(typing[pc])
       /\ Len(stack) <= stack_highwater
  /\ state = "returned" => stack = AllWords(Result(ReturnType))
=============================================================================
