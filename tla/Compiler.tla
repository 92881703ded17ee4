------------------------------ MODULE Compiler ------------------------------
(***************************************************************************)
(* The one-pass compiler of a function body: the handlers of `Compiler`    *)
(* (src/compiler.rs) over `TextBuilder` and `CodeBuilder` (src/text.rs).   *)
(* Validation, code generation and branch resolution happen together: a    *)
(* forward branch is written before its target is known, and the branches  *)
(* that wait for the end of one block are linked through their own label   *)
(* words, newest first, from ControlFrame::target to a label whose jump is *)
(* 0.                                                                      *)
(*                                                                         *)
(* The bytes of the body are any sequence of handler calls the decoder     *)
(* (Reader::read_code) can make.  A call that returns Err ends the loading *)
(* of the module, and the body is never executed: a handler below is       *)
(* enabled when the code accepts the call.  IR addresses are linear        *)
(* (paging only splits them into 24 and 8 bits) and relative to Expr, the  *)
(* address at which the body starts.                                       *)
(***************************************************************************)
EXTENDS Integers, FiniteSets, SequencesExt

CONSTANTS
  ReturnType,        \* Func::return_ty
  Ops,               \* the instructions that neither branch nor look at types:
                     \* [pops, pushes : Seq(ValType), words : their IR words]
  Bodies,            \* the bodies enumerated (bounds) and what they are compiled
                     \* with: [opcodes : the other opcodes they contain,
                     \*  types : the result types of their blocks,
                     \*  frames : MAX_CONTROL_FRAMES,
                     \*  words : 256 * CompilerOptions::max_code_pages]
  MaxStackDepth,     \* MAX_STACK_DEPTH
  JumpRange,         \* 2^21: a jump is a signed number of 22 bits
  DepthRange,        \* 2^8: a label's depth is a number of 8 bits
  ImmRange,          \* 255: a longer br_table needs a second opcode word
  MaxBackpatch,      \* CompilerOptions::max_backpatch_iterations
  MaxCases           \* longest br_table enumerated (a bound)

ValType == {"i32", "i64"}
None == "none"
Unknown == "unknown"
SENTINEL == -1
EarlyReturn == -2       \* a branch to the implicit frame of the function

ASSUME CompilerAssumption ==
  /\ \A b \in Bodies : /\ b.types \subseteq ValType \cup {None}
                       /\ b.frames \in Nat \ {0} /\ b.words \in Nat
  /\ ReturnType \in ValType \cup {None}
  /\ \A o \in Ops : /\ o.pops \in Seq(ValType) /\ o.pushes \in Seq(ValType)
                    /\ o.words \in Nat \ {0}
  /\ {MaxStackDepth, JumpRange, DepthRange, ImmRange, MaxBackpatch, MaxCases} \subseteq Nat

VARIABLES
  body,              \* one of Bodies
  here,              \* CodeBuilder::pc, the next word to be written
  code,              \* the opcodes and the labels written, by address
  frames,            \* control_frames
  value_stack, stack_highwater,
  cases,             \* labels the br_table being read still needs
  br_table_result,   \* <<>>, or the type the cases read so far agreed on
  status,            \* "compiling" or "compiled"
  goal,              \* where each resolved branch has to lead (history)
  typing             \* the operands validated at each instruction (history)

cvars == <<body, here, code, frames, value_stack, stack_highwater, cases,
           br_table_result, status, goal, typing>>

-----------------------------------------------------------------------------
(* Operands.  A stack function returns Invalid where the code returns Err. *)

Invalid == <<"invalid">>
Frame == Last(frames)

WordsOf(t) == CASE t = "i32" -> <<"i32">> [] t = "i64" -> <<"i64lo", "i64hi">>

(* The operands above which nothing is known take no words. *)
KnownPart(vs) ==
  LET first == SelectInSeq(vs, LAMBDA t : t = Unknown)
  IN IF first = 0 THEN vs ELSE SubSeq(vs, 1, first - 1)
StackWords(vs) == FoldLeft(LAMBDA ws, t : ws \o WordsOf(t), <<>>, KnownPart(vs))
stack_height(vs) == Len(StackWords(vs))

Result(rt) == IF rt = None THEN <<>> ELSE <<rt>>
Arity(rt) == IF rt = None THEN 0 ELSE Len(WordsOf(rt))

TypeAtTop(vs) == IF Len(vs) = Frame.height THEN Unknown ELSE Last(vs)

pop_stack(vs, expect) ==
  CASE vs = Invalid -> Invalid
    [] vs # Invalid /\ Len(vs) = Frame.height ->
         IF Frame.unreachable THEN vs ELSE Invalid
    [] OTHER -> IF {expect, Last(vs)} \cap {Unknown} # {} \/ expect = Last(vs)
                THEN Front(vs) ELSE Invalid
PopAll(vs, ts) ==
  LET left[n \in 0..Len(ts)] ==
        IF n = 0 THEN vs ELSE pop_stack(left[n - 1], ts[n])
  IN left[Len(ts)]

PushAll(vs, ts) ==
  IF vs = Invalid \/ Len(vs) + Len(ts) > MaxStackDepth THEN Invalid ELSE vs \o ts

push_stack_by_count(vs) ==                                          \* mutant
  /\ vs # Invalid
  /\ value_stack' = vs
  /\ stack_highwater' = IF Len(vs) > stack_highwater THEN Len(vs)
                        ELSE stack_highwater

push_stack(vs) ==
  /\ vs # Invalid
  /\ value_stack' = vs
  /\ stack_highwater' = IF stack_height(vs) > stack_highwater
                        THEN stack_height(vs) ELSE stack_highwater

mark_unreachable(vs, fs) ==
  /\ vs # Invalid
  /\ value_stack' = SubSeq(vs, 1, Frame.height)
  /\ frames' = [fs EXCEPT ![Len(fs)].unreachable = TRUE]
  /\ UNCHANGED stack_highwater

-----------------------------------------------------------------------------
(* Labels and the chains of pending branches *)

(* f, with the value v at the points of A. *)
Put(f, A, v) == [a \in DOMAIN f \cup A |-> IF a \in A THEN v ELSE f[a]]

Op(name, arg) == [op |-> name, arg |-> arg]
Label(rt, depth, jump) == [arity |-> Arity(rt), depth |-> depth, jump |-> jump]

Labels(c) == {a \in DOMAIN c : "jump" \in DOMAIN c[a]}
with_jump(label, jump) == [label EXCEPT !.jump = jump]

(* JumpOffset::new: the sentinel, or a distance that fits the label. *)
Jump(from, to) == IF to = SENTINEL THEN 0 ELSE to - from
JumpFits(from, to) == Jump(from, to) \in -JumpRange..(JumpRange - 1)

(* The labels reached from head by following the jumps to a jump of 0. *)
Chain(c, head) ==
  {a \in Labels(c) : head # SENTINEL /\
     \A S \in SUBSET Labels(c) :
        (/\ head \in S
         /\ \A b \in S : c[b].jump # 0 => b + c[b].jump \in S) => a \in S}

(* The walk gives up when it follows more than MaxBackpatch links. *)
WithinLimit(chain) == Cardinality(chain) - 1 <= MaxBackpatch

(* backpatch with a function that makes every label jump to pc. *)
Patched(c, chain, pc) ==
  [a \in DOMAIN c |->
     IF a \in chain THEN with_jump(c[a], Jump(a, pc)) ELSE c[a]]
Patchable(chain, pc) ==
  WithinLimit(chain) /\ \A a \in chain : JumpFits(a, pc)

(* A new control frame.  branches (history) are the labels that branch to  *)
(* the end of the frame, start the address at which it was entered.        *)
ControlFrame(kind, label, out, vs, target, branches) ==
  [kind |-> kind, label |-> label, out |-> out, height |-> Len(vs),
   target |-> target, unreachable |-> FALSE, branches |-> branches,
   start |-> here]

push_control(fs, frame) ==
  /\ Len(fs) < body.frames
  /\ frames' = Append(fs, frame)

(* Write a label that branches l frames out at address a, with vs the      *)
(* operands at that point.                                                 *)
Index(l) == Len(frames) - l
IsFunction(l) == Index(l) = 1
IsLoop(l) == ~IsFunction(l) /\ frames[Index(l)].kind = "Loop"
IsForward(l) == ~IsFunction(l) /\ frames[Index(l)].kind # "Loop"

LabelType(l) ==
  IF IsFunction(l) THEN ReturnType
  ELSE IF IsLoop(l) THEN None ELSE frames[Index(l)].label

Depth(l, vs) ==
  stack_height(vs) - stack_height(SubSeq(vs, 1, frames[Index(l)].height))

LabelAt(l, a, vs) ==
  IF IsFunction(l) THEN Label(ReturnType, 0, 0)
  ELSE Label(IF IsLoop(l) THEN None ELSE frames[Index(l)].out,
             Depth(l, vs), Jump(a, frames[Index(l)].target))

LabelAccepted(l, a, vs) ==
  /\ l < Len(frames)
  /\ IsFunction(l) \/ /\ Depth(l, vs) < DepthRange
                      /\ JumpFits(a, frames[Index(l)].target)

(* The label becomes the new head of the chain of its frame. *)
Linked(l, a) ==
  IF IsForward(l)
  THEN [frames EXCEPT ![Index(l)].target = a,
                      ![Index(l)].branches = @ \cup {a}]
  ELSE frames

GoalOf(l, a) ==
  IF IsFunction(l) THEN Put(goal, {a}, EarlyReturn)
  ELSE IF IsLoop(l) THEN Put(goal, {a}, frames[Index(l)].start)
  ELSE goal

(* Append an opcode, and the label that follows it. *)
Room(n) == here + n <= body.words
Advance(n) == Room(n) /\ here' = here + n
Validated ==
  typing' = IF Frame.unreachable THEN typing ELSE Put(typing, {here}, value_stack)

Instr(name, arg, n) ==
  /\ Advance(n)
  /\ code' = Put(code, {here}, Op(name, arg))
  /\ Validated

InstrLabel(name, l, vs) ==
  /\ LabelAccepted(l, here + 1, vs)
  /\ Advance(3)
  /\ code' = Put(Put(code, {here}, Op(name, None)), {here + 1}, LabelAt(l, here + 1, vs))
  /\ goal' = GoalOf(l, here + 1)
  /\ Validated

-----------------------------------------------------------------------------
(* The handlers *)

Visiting == status = "compiling" /\ cases = 0
Quiet == UNCHANGED <<cases, br_table_result, status>>

op(o) ==
  /\ push_stack(PushAll(PopAll(value_stack, o.pops), o.pushes))
  /\ Instr("op", o, o.words)
  /\ UNCHANGED <<frames, goal>> /\ Quiet

drop ==
  /\ push_stack(pop_stack(value_stack, Unknown))
  /\ LET t == TypeAtTop(value_stack)
     IN Instr("drop", IF t = Unknown THEN "i32" ELSE t, 1)
  /\ UNCHANGED <<frames, goal>> /\ Quiet

(* The operator is polymorphic: the type of the result is the one that is  *)
(* known of its two operands, if one is.                                   *)
select ==
  LET vs0 == pop_stack(value_stack, "i32")
      t1 == TypeAtTop(vs0)
      vs1 == pop_stack(vs0, Unknown)
      t2 == IF TypeAtTop(vs1) = Unknown THEN t1 ELSE TypeAtTop(vs1)
  IN /\ vs0 # Invalid /\ vs1 # Invalid
     /\ push_stack(PushAll(pop_stack(vs1, t1), <<t2>>))
     /\ Instr("select", IF t2 = Unknown THEN "i32" ELSE t2, 1)
     /\ UNCHANGED <<frames, goal>> /\ Quiet

unreachable ==
  /\ Instr("unreachable", None, 1)
  /\ mark_unreachable(value_stack, frames)
  /\ UNCHANGED goal /\ Quiet

enter_block(rt) ==
  /\ push_control(frames,
       ControlFrame("Block", rt, rt, value_stack, SENTINEL, {}))
  /\ UNCHANGED <<here, code, value_stack, stack_highwater, goal, typing>> /\ Quiet

loop_(rt) ==
  /\ push_control(frames, ControlFrame("Loop", None, rt, value_stack, here, {}))
  /\ UNCHANGED <<here, code, value_stack, stack_highwater, goal, typing>> /\ Quiet

(* The label of the false branch is the tail of the chain of the if. *)
if_(rt) ==
  LET vs == pop_stack(value_stack, "i32")
  IN /\ push_stack(vs)
     /\ Advance(3)
     /\ code' = Put(Put(code, {here}, Op("if", None)), {here + 1}, Label(rt, 0, 0))
     /\ Validated
     /\ push_control(frames,
          [ControlFrame("If", rt, rt, vs, here + 1, {here + 1})
             EXCEPT !.start = here + 3])
     /\ UNCHANGED goal /\ Quiet

(* Patch the tail of the chain, the false branch of the if, to pc, and     *)
(* make the label that links to it the new tail.                           *)
FalseBranch(c, chain) == CHOOSE a \in chain : c[a].jump = 0

PatchedIf_keeping_link(c, chain, pc) ==                             \* mutant
  LET tail == FalseBranch(c, chain)
  IN [c EXCEPT ![tail] = with_jump(@, pc - tail)]

PatchedIf(c, chain, pc) ==
  LET tail == FalseBranch(c, chain)
      isPrev(a) == a \in chain \ {tail} /\ a + c[a].jump = tail
  IN [a \in DOMAIN c |->
        IF a = tail THEN with_jump(c[a], Jump(a, pc))
        ELSE IF isPrev(a) THEN with_jump(c[a], 0) ELSE c[a]]

(* A branch over the else arm ends the then arm; it and the earlier        *)
(* branches of the if wait for the end of the else.                        *)
else_ ==
  LET site == here + 1
      pc == here + 3
      written == Put(Put(code, {here}, Op("br", None)), {site}, LabelAt(0, site, value_stack))
      chain == Chain(written, site)
      tail == FalseBranch(written, chain)
      vs == PopAll(value_stack, Result(Frame.out))
  IN /\ Frame.kind = "If"
     /\ LabelAccepted(0, site, value_stack)
     /\ vs # Invalid /\ Len(vs) = Frame.height
     /\ Advance(3)
     /\ WithinLimit(chain) /\ JumpFits(tail, pc)
     /\ code' = PatchedIf(written, chain, pc)
     /\ goal' = Put(goal, {tail}, pc)
     /\ push_control(Front(frames),
          [ControlFrame("Block", Frame.out, Frame.out, vs, site,
                        (Frame.branches \ {tail}) \cup {site}) EXCEPT !.start = pc])
     /\ value_stack' = vs
     /\ Validated
     /\ UNCHANGED stack_highwater /\ Quiet

(* pop_control: the block leaves exactly its results, and the branches     *)
(* that wait for its end jump here.                                        *)
pop_control_keeping_chain(vs) ==                                    \* mutant
  /\ vs # Invalid /\ Len(vs) = Frame.height
  /\ Frame.kind = "If" => Frame.out = None
  /\ code' = code
  /\ goal' = Put(goal, Frame.branches, here)
  /\ frames' = Front(frames)

pop_control(vs) ==
  LET chain == Chain(code, IF Frame.kind = "Loop" THEN SENTINEL ELSE Frame.target)
  IN /\ vs # Invalid /\ Len(vs) = Frame.height
     /\ Frame.kind = "If" => Frame.out = None
     /\ Patchable(chain, here)
     /\ code' = Patched(code, chain, here)
     /\ goal' = Put(goal, Frame.branches, here)
     /\ frames' = Front(frames)

exit_block ==
  LET vs == PopAll(value_stack, Result(Frame.out))
  IN /\ Len(frames) > 1
     /\ pop_control(vs)
     /\ push_stack(PushAll(vs, Result(Frame.out)))
     /\ UNCHANGED <<here, typing>> /\ Quiet

(* The last `end` of the body: RETURN follows. *)
finish ==
  LET vs == PopAll(value_stack, Result(Frame.out))
  IN /\ Len(frames) = 1
     /\ vs # Invalid /\ Len(vs) = Frame.height
     /\ frames' = <<>>
     /\ value_stack' = vs
     /\ Instr("return", Arity(ReturnType), 1)
     /\ status' = "compiled"
     /\ UNCHANGED <<stack_highwater, goal, cases, br_table_result>>

br(l) ==
  /\ InstrLabel("br", l, value_stack)
  /\ mark_unreachable(PopAll(value_stack, Result(LabelType(l))), Linked(l, here + 1))
  /\ Quiet

br_if(l) ==
  LET vs == pop_stack(value_stack, "i32")
      results == Result(LabelType(l))
  IN /\ vs # Invalid
     /\ InstrLabel("br_if", l, vs)
     /\ frames' = Linked(l, here + 1)
     /\ push_stack(PushAll(PopAll(vs, results), results))
     /\ Quiet

return_ ==
  /\ Instr("return", Arity(ReturnType), 1)
  /\ mark_unreachable(PopAll(value_stack, Result(ReturnType)), frames)
  /\ UNCHANGED goal /\ Quiet

(* br_table arrives in pieces: the number n of cases, a label for each,    *)
(* the default label.  All have to expect the same result.                 *)
OpcodeWords(n) == IF n < ImmRange THEN 1 ELSE 2

br_table_start(n) ==
  /\ push_stack(pop_stack(value_stack, "i32"))
  /\ Instr("br_table", n, OpcodeWords(n))
  /\ cases' = n + 1
  /\ UNCHANGED <<frames, goal, br_table_result, status>>

CaseLabel(l) ==
  /\ LabelAccepted(l, here, value_stack)
  /\ Advance(2)
  /\ code' = Put(code, {here}, LabelAt(l, here, value_stack))
  /\ goal' = GoalOf(l, here)
  /\ br_table_result \in {<<>>, <<LabelType(l)>>}
  /\ cases' = cases - 1

br_table_branch(l) ==
  /\ CaseLabel(l)
  /\ frames' = Linked(l, here)
  /\ br_table_result' = <<LabelType(l)>>
  /\ UNCHANGED <<value_stack, stack_highwater, status, typing>>

br_table_finish(l) ==
  /\ CaseLabel(l)
  /\ mark_unreachable(PopAll(value_stack, Result(LabelType(l))), Linked(l, here))
  /\ br_table_result' = <<>>
  /\ UNCHANGED <<status, typing>>

Reads(opcode) == opcode \in body.opcodes

Handle ==
  \/ /\ Visiting
     /\ \/ \E o \in Ops : op(o)
        \/ Reads("drop") /\ drop
        \/ Reads("select") /\ select
        \/ Reads("unreachable") /\ unreachable
        \/ Reads("return") /\ return_
        \/ \E rt \in body.types : \/ Reads("block") /\ enter_block(rt)
                                  \/ Reads("loop") /\ loop_(rt)
                                  \/ Reads("if") /\ if_(rt)
        \/ Reads("else") /\ else_
        \/ exit_block
        \/ finish
        \/ \E l \in 0..(Len(frames) - 1) : \/ Reads("br") /\ br(l)
                                           \/ Reads("br_if") /\ br_if(l)
        \/ \E n \in 0..MaxCases : Reads("br_table") /\ br_table_start(n)
  \/ /\ status = "compiling" /\ cases > 1
     /\ \E l \in 0..(Len(frames) - 1) : br_table_branch(l)
  \/ /\ status = "compiling" /\ cases = 1
     /\ \E l \in 0..(Len(frames) - 1) : br_table_finish(l)

Compile == Handle /\ UNCHANGED body

(* TextBuilder::new pushes the implicit frame of the function. *)
CompilerInit ==
  /\ body \in Bodies
  /\ here = 0 /\ code = <<>>
  /\ frames = <<[kind |-> "Block", label |-> ReturnType, out |-> ReturnType,
                 height |-> 0, target |-> SENTINEL, unreachable |-> FALSE,
                 branches |-> {}, start |-> 0]>>
  /\ value_stack = <<>> /\ stack_highwater = 0
  /\ cases = 0 /\ br_table_result = <<>>
  /\ status = "compiling" /\ goal = <<>> /\ typing = <<>>
=============================================================================
