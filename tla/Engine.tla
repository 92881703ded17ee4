------------------------------- MODULE Engine -------------------------------
(***************************************************************************)
(* The execution engine: `Engine` (src/engine.rs), its life cycle          *)
(* (Engine::new, reset in src/store.rs) and the interpreter that drives it *)
(* (src/interpreter.rs).                                                   *)
(*                                                                         *)
(* One linear array of words, `stack`, holds the parameters, the call      *)
(* frames, the locals and the operands of every live call:                 *)
(*                                                                         *)
(*    ... | parameters | frame | return pc | locals | operands | ...       *)
(*                       ^ fp                                    ^ sp      *)
(*                                                                         *)
(* The IR words are not modelled.  A function body is any sequence of      *)
(* instructions the validator lets through: at each step the engine may    *)
(* execute any instruction that keeps the operand height between 0 and     *)
(* StackUsage of the function, the high-water mark the validator computed  *)
(* (TextBuilder::push_stack).  What the model checks is therefore what the *)
(* engine guarantees for EVERY validated program.                          *)
(*                                                                         *)
(* A definition marked `mutant` is the next definition with one plausible  *)
(* bug; no specification uses it (see README.md).                          *)
(***************************************************************************)
EXTENDS Integers, Sequences

CONSTANTS
  Modules,      \* ModuleRef values in use: numbers of 8 bits
  Funcs,        \* the Wasm functions of all the modules
  ModuleOf,     \* [Funcs -> Modules]
  ParamWords,   \* Func::parameter_size, in words
  LocalWords,   \* Func::local_size, in words
  StackUsage,   \* Func::stack_usage, the validated high-water mark, in words
  ResultWords,  \* words of the result: 0, 1 or 2
  Hosts,        \* the host functions
  HostParams,   \* HostFunction::param_size, in words
  HostResult,   \* words of the host function's result
  MemoryOf,     \* Store::get_memory: the memory of each module
  TableOf,      \* Store::get_table: the table of each module
  ZeroMemory,   \* Store::zero_memory
  ZeroTable,    \* Store::zero_table
  Values,       \* what an operand word may hold
  Zero,         \* the value a local starts with
  Garbage,      \* what a word of a new Stack holds
  StackLen,     \* Stack::len, in words
  FrameLimit,   \* 2^16: the values of CallFrame::frame_length
  CodeWords,    \* words of IR of each function body (a bound)
  MaxFuel,      \* largest `n_instructions` passed to run (a bound)
  Sentinel,     \* JumpTarget::SENTINEL
  None,         \* Option::None
  ResumeFirst   \* the embedder answers a pause (resume, reset) before run

WordCount == [Funcs -> Nat]

ASSUME EngineAssumption ==
  /\ Modules \subseteq 0..255 /\ 0 \in Modules
  /\ ModuleOf \in [Funcs -> Modules]
  /\ ParamWords \in WordCount /\ LocalWords \in WordCount
  /\ StackUsage \in WordCount
  /\ ResultWords \in [Funcs -> 0..2]
  /\ HostParams \in [Hosts -> Nat] /\ HostResult \in [Hosts -> 0..2]
  /\ \A f \in Funcs :            \* max_frame_length; the u8 of parameter_size
        2 + LocalWords[f] + StackUsage[f] < FrameLimit /\ ParamWords[f] < FrameLimit
  /\ StackLen \in Nat /\ FrameLimit \in Nat /\ CodeWords \in Nat \ {0} /\ MaxFuel \in Nat
  /\ Zero \in Values
  /\ Sentinel \notin Funcs \X Nat
  /\ None \notin Nat
  /\ ResumeFirst \in BOOLEAN

VARIABLES
  pc,       \* Sentinel, or <<function, offset of the instruction>>
  sp, fp,   \* stack and frame pointers
  stack,    \* the words of Stack
  module, memory, table,   \* the context of the executing module
  result,   \* the words of the last finished call, or None
  pause,    \* host_pause_result: the words a resume must push, or None
  fuel,     \* instructions left in the current `run`; 0 outside of run
  outcome,  \* what the last `run` returned
  panicked  \* a panic aborted the process

vars == <<pc, sp, fp, stack, module, memory, table, result, pause, fuel,
          outcome, panicked>>
context == <<module, memory, table>>

-----------------------------------------------------------------------------
(* Words and addresses *)

Addr == 0..(StackLen - 1)
Target == Funcs \X (0..CodeWords)

Val(v) == [kind |-> "value", value |-> v]
CallFrame(length, delta, params) ==
  [kind |-> "frame", length |-> length % FrameLimit, delta |-> delta,
   params |-> params]
PcWord(p) == [kind |-> "pc", pc |-> p]

Word ==
  [kind : {"value"}, value : Values \cup {Garbage}]
    \cup [kind : {"frame"}, length : Nat, delta : -128..127, params : Nat]
    \cup [kind : {"pc"}, pc : Target \cup {Sentinel}]

\* `a as i8` of a u8, `d as u8` of an i8, and the wrapping_sub of two u8s
AsI8(a) == IF a > 127 THEN a - 256 ELSE a
AsU8(d) == d % 256
checked_sub(a, b) == a - b                    \* mutant
wrapping_sub(a, b) == (a - b) % 256

(* The stack with the words ws written from address lo on. *)
Store(s, lo, ws) ==
  [a \in Addr |-> IF lo <= a /\ a < lo + Len(ws) THEN ws[a - lo + 1] ELSE s[a]]

(* The n words that end just below address top. *)
Top(s, top, n) == [i \in 1..n |-> s[top - n + i - 1]]

Words(n) == [1..n -> {Val(v) : v \in Values}]

-----------------------------------------------------------------------------
(* The executing function *)

Current == pc[1]
Idle == pc = Sentinel                      \* Engine::is_idle
Operands(base, f) == base + 2 + LocalWords[f]
Height == sp - Operands(fp, Current)

(* An instruction of n words at pc has a successor in the same body. *)
Falls(n) == pc[2] + n < CodeWords
Next_pc(n) == <<Current, pc[2] + n>>

(* The current `run` goes on after this instruction, unless it was the     *)
(* last one it had fuel for.                                               *)
Continue_unmetered == UNCHANGED <<fuel, outcome, panicked>>        \* mutant

Continue ==
  /\ fuel' = fuel - 1
  /\ outcome' = IF fuel = 1 THEN "OutOfFuel" ELSE outcome
  /\ UNCHANGED panicked

Break_but_loop(why) ==                                              \* mutant
  /\ fuel' = IF why = "Pause" THEN fuel ELSE 0
  /\ outcome' = why
  /\ UNCHANGED panicked

Break(why) ==
  /\ fuel' = 0
  /\ outcome' = why
  /\ UNCHANGED panicked

Executing == fuel > 0 /\ ~Idle

Unwind_keeping_fp ==                                                \* mutant
  /\ sp' = 0 /\ pc' = Sentinel /\ UNCHANGED fp
  /\ Break("Trap")

(* A trap unwinds the engine; pause, result and the context stay.          *)
Unwind ==
  /\ sp' = 0 /\ fp' = 0 /\ pc' = Sentinel
  /\ Break("Trap")

-----------------------------------------------------------------------------
(* Call frames *)

required_stack_words_no_locals(f) == StackUsage[f] + 2              \* mutant
required_stack_words(f) == StackUsage[f] + 2 + LocalWords[f]

FrameWords_stale_locals(f, length, delta) ==                        \* mutant
  [i \in 1..(2 + LocalWords[f]) |->
     IF i = 1 THEN CallFrame(length, delta, ParamWords[f])
     ELSE IF i = 2 THEN PcWord(pc) ELSE stack[sp + i - 1]]

FrameWords(f, length, delta) ==
  [i \in 1..(2 + LocalWords[f]) |->
     IF i = 1 THEN CallFrame(length, delta, ParamWords[f])
     ELSE IF i = 2 THEN PcWord(pc) ELSE Val(Zero)]

(* Push the frame of f at top, above the arguments found in s: the frame   *)
(* word, the pc of the call instruction, the zeroed locals.                *)
call_impl(s, top, f, delta) ==
  /\ stack' = Store(s, top, FrameWords(f, top - fp, delta))
  /\ fp' = top
  /\ sp' = top + 2 + LocalWords[f]
  /\ pc' = <<f, 0>>

SwapTo(m) ==
  /\ module' = m
  /\ memory' = MemoryOf[m]
  /\ table' = TableOf[m]

ModuleDelta(from, to) == AsI8(wrapping_sub(to, from))

enter_module_same_table(f) ==                                       \* mutant
  /\ module' = ModuleOf[f] /\ memory' = MemoryOf[ModuleOf[f]]
  /\ UNCHANGED table

enter_module(f) ==
  IF ModuleOf[f] = module THEN UNCHANGED context ELSE SwapTo(ModuleOf[f])

(* Leave the frame at fp with the size words below top as the result.      *)
return_(top, size) ==
  LET frame == stack[fp]
      return_pc == stack[fp + 1].pc
      parameter_start == fp - frame.params
      words == Top(stack, top, size)
  IN /\ stack' = Store(stack, parameter_start, words)
     /\ fp' = fp - frame.length
     /\ IF frame.delta = 0 THEN UNCHANGED context
        ELSE SwapTo(wrapping_sub(module, AsU8(frame.delta)))
     /\ \/ /\ return_pc = Sentinel
           /\ sp' = parameter_start
           /\ pc' = Sentinel
           /\ result' = words
           /\ Break("Finished")
        \/ /\ return_pc # Sentinel
           /\ sp' = parameter_start + size
           /\ pc' = <<return_pc[1], return_pc[2] + 2>>
           /\ Continue
           /\ UNCHANGED result

-----------------------------------------------------------------------------
(* Instructions.  `Pops(p, q)` is what the validator established: the      *)
(* instruction finds p words of operands and leaves q in their place.      *)

Pops(p, q) ==
  /\ p <= Height
  /\ Height - p + q <= StackUsage[Current]

(* A numeric, parametric, constant, memory access or global instruction:   *)
(* p operand words are replaced by the words it computes.                  *)
Operate(p, q) ==
  /\ Pops(p, q) /\ Falls(1)
  /\ \E words \in Words(q) : stack' = Store(stack, sp - p, words)
  /\ sp' = sp - p + q
  /\ pc' = Next_pc(1)
  /\ Continue
  /\ UNCHANGED <<fp, context, result, pause>>

(* The first word of a local or parameter of w words. *)
LocalAddr(w) ==
  {a \in Addr : \/ fp - ParamWords[Current] <= a /\ a + w <= fp
                \/ fp + 2 <= a /\ a + w <= fp + 2 + LocalWords[Current]}

local_get(w) ==
  /\ Pops(0, w) /\ Falls(2)
  /\ \E a \in LocalAddr(w) : stack' = Store(stack, sp, Top(stack, a + w, w))
  /\ sp' = sp + w
  /\ pc' = Next_pc(2)
  /\ Continue
  /\ UNCHANGED <<fp, context, result, pause>>

(* local.set pops the words it stores, local.tee keeps them. *)
local_set(w, keep) ==
  /\ Pops(w, keep) /\ Falls(2)
  /\ \E a \in LocalAddr(w) : stack' = Store(stack, a, Top(stack, sp, w))
  /\ sp' = sp - w + keep
  /\ pc' = Next_pc(2)
  /\ Continue
  /\ UNCHANGED <<fp, context, result, pause>>

(* A taken branch within the body: if (selector popped, nothing dropped),  *)
(* br, br_if, br_table.  depth words are dropped, the last arity kept.     *)
br_impl(selector, depth, arity) ==
  /\ Pops(selector + depth, arity) /\ arity <= depth
  /\ LET top == sp - selector
     IN /\ stack' = Store(stack, top - depth, Top(stack, top, arity))
        /\ sp' = top - depth + arity
  /\ \E target \in 0..(CodeWords - 1) : pc' = <<Current, target>>
  /\ Continue
  /\ UNCHANGED <<fp, context, result, pause>>

(* return, the end of the body, or a branch to the sentinel label. *)
Return(selector) ==
  /\ selector + ResultWords[Current] <= Height
  /\ return_(sp - selector, ResultWords[Current])
  /\ UNCHANGED pause

(* call, call_extern (index = 0) and call_indirect (index = 1 word popped) *)
(* of a Wasm function.  The context is swapped before the stack is checked.*)
Call(f, index) ==
  LET top == sp - index
  IN /\ Pops(index + ParamWords[f], ResultWords[f]) /\ Falls(2)
     /\ enter_module(f)
     /\ \/ /\ StackLen >= top + required_stack_words(f)
           /\ call_impl(stack, top, f, ModuleDelta(module, ModuleOf[f]))
           /\ Continue
        \/ /\ StackLen < top + required_stack_words(f)
           /\ Unwind
           /\ UNCHANGED stack
     /\ UNCHANGED <<result, pause>>

(* call_host, directly or through the table: the host function answers,    *)
(* or asks for a pause.  (Its third answer, a trap, is InstructionTraps.)  *)
call_host(h, index) ==
  LET top == sp - index - HostParams[h]
  IN /\ Pops(index + HostParams[h], HostResult[h]) /\ Falls(2)
     /\ \/ /\ \E words \in Words(HostResult[h]) : stack' = Store(stack, top, words)
           /\ sp' = top + HostResult[h]
           /\ pc' = Next_pc(2)
           /\ Continue
           /\ UNCHANGED pause
        \/ /\ pause = None
           /\ pause' = HostResult[h]
           /\ sp' = top
           /\ pc' = Next_pc(2)
           /\ Break("Pause")
           /\ UNCHANGED stack
        \/ /\ pause # None            \* panic!("Unexpected paused engine state")
           /\ panicked' = TRUE
           /\ UNCHANGED <<pc, sp, stack, pause, fuel, outcome>>
     /\ UNCHANGED <<fp, context, result>>

(* memory.grow drops the engine's own reference to the memory, and traps   *)
(* without taking it back when someone else still holds one.               *)
memory_grow ==
  /\ Pops(1, 1) /\ Falls(1)
  /\ \/ /\ memory' = MemoryOf[module]
        /\ \E words \in Words(1) : stack' = Store(stack, sp - 1, words)
        /\ pc' = Next_pc(1)
        /\ Continue
        /\ UNCHANGED <<sp, fp>>
     \/ /\ memory' = ZeroMemory
        /\ Unwind
        /\ UNCHANGED stack
  /\ UNCHANGED <<module, table, result, pause>>

(* unreachable, a failed check of any instruction, a host trap. *)
InstructionTraps ==
  /\ Unwind
  /\ UNCHANGED <<stack, context, result, pause>>

Step ==
  /\ Executing
  /\ \/ \E p \in 0..Height, q \in 0..2 : Operate(p, q)
     \/ \E w \in 1..2 : local_get(w) \/ local_set(w, 0) \/ local_set(w, w)
     \/ (\E selector \in 0..1, depth \in 0..Height, arity \in 0..2 :
            br_impl(selector, depth, arity))
     \/ (\E selector \in 0..1 : Return(selector))
     \/ (\E f \in Funcs, index \in 0..1 : Call(f, index))
     \/ (\E h \in Hosts, index \in 0..1 : call_host(h, index))
     \/ memory_grow
     \/ InstructionTraps

-----------------------------------------------------------------------------
(* The embedder.  It has the engine only between two runs. *)

invoke(f) ==
  /\ fuel = 0
  /\ pc = Sentinel /\ sp = 0 /\ fp = 0          \* else InvokeError::Busy
  /\ ParamWords[f] + required_stack_words(f) <= StackLen
  /\ \E args \in Words(ParamWords[f]) :
        call_impl(Store(stack, 0, args), ParamWords[f], f, 0)
  /\ SwapTo(ModuleOf[f])
  /\ result' = None
  /\ UNCHANGED <<pause, fuel, outcome, panicked>>

(* A later argument has the wrong type: the n words before it were already *)
(* written.                                                                *)
invoke_type_mismatch(f, n) ==
  /\ fuel = 0
  /\ pc = Sentinel /\ sp = 0 /\ fp = 0
  /\ ParamWords[f] + required_stack_words(f) <= StackLen
  /\ n < ParamWords[f]
  /\ \E args \in Words(n) : stack' = Store(stack, 0, args)
  /\ sp' = 0
  /\ UNCHANGED <<pc, fp, context, result, pause, fuel, outcome, panicked>>

run(n) ==
  /\ fuel = 0
  /\ ResumeFirst => pause = None
  /\ fuel' = IF Idle THEN 0 ELSE n
  /\ outcome' = IF Idle THEN "Finished" ELSE "Running"
  /\ UNCHANGED <<pc, sp, fp, stack, context, result, pause, panicked>>

(* Accepts the value the paused host function declared; any other is       *)
(* refused and changes nothing.                                            *)
resume ==
  /\ fuel = 0
  /\ pause # None                               \* else ResumeError::NotPaused
  /\ \E words \in Words(pause) : stack' = Store(stack, sp, words)
  /\ sp' = sp + pause
  /\ pause' = None
  /\ UNCHANGED <<pc, fp, context, result, fuel, outcome, panicked>>

reset_keeping_pause ==                                              \* mutant
  /\ fuel = 0
  /\ pc' = Sentinel /\ sp' = 0 /\ fp' = 0 /\ result' = None
  /\ memory' = ZeroMemory /\ table' = ZeroTable
  /\ UNCHANGED <<stack, module, pause, fuel, outcome, panicked>>

reset ==
  /\ fuel = 0
  /\ pc' = Sentinel /\ sp' = 0 /\ fp' = 0
  /\ result' = None /\ pause' = None
  /\ memory' = ZeroMemory /\ table' = ZeroTable
  /\ UNCHANGED <<stack, module, fuel, outcome, panicked>>

Embedder ==
  \/ \E f \in Funcs : invoke(f)
  \/ \E f \in Funcs : \E n \in 0..ParamWords[f] : invoke_type_mismatch(f, n)
  \/ \E n \in 1..MaxFuel : run(n)
  \/ resume
  \/ reset

Init ==
  /\ pc = Sentinel /\ sp = 0 /\ fp = 0
  /\ stack = [a \in Addr |-> Val(Garbage)]
  /\ module = 0 /\ memory = ZeroMemory /\ table = ZeroTable
  /\ result = None /\ pause = None
  /\ fuel = 0 /\ outcome = "None" /\ panicked = FALSE

Next == ~panicked /\ (Step \/ Embedder)

(* Nothing obliges the embedder to call; but a run executes, as a loop that *)
(* nobody else can block.                                                   *)
Spec == Init /\ [][Next]_vars /\ WF_vars(~panicked /\ Step)

-----------------------------------------------------------------------------
(* Properties *)

TypeOK ==
  /\ pc \in (Funcs \X (0..(CodeWords - 1))) \cup {Sentinel}
  /\ sp \in Nat /\ fp \in Nat
  /\ stack \in [Addr -> Word]
  /\ module \in Modules
  /\ memory \in {MemoryOf[m] : m \in Modules} \cup {ZeroMemory}
  /\ table \in {TableOf[m] : m \in Modules} \cup {ZeroTable}
  /\ result = None \/ \E n \in 0..2 : result \in [1..n -> Word]
  /\ pause \in 0..2 \cup {None}
  /\ fuel \in 0..MaxFuel
  /\ outcome \in {"None", "Running", "Finished", "Trap", "Pause", "OutOfFuel"}
  /\ panicked \in BOOLEAN

(* Stack accesses are not checked at run time (Stack::check_bounds is empty *)
(* without strict-assertions): the capacity test of call_impl alone keeps   *)
(* every operand of every callee, at any depth, inside the stack.           *)
StackInBounds ==
  ~Idle => /\ Operands(fp, Current) <= sp
           /\ sp <= Operands(fp, Current) + StackUsage[Current]
           /\ Operands(fp, Current) + StackUsage[Current] <= StackLen

(* However calls and returns crossed modules, the engine executes a function *)
(* with the memory and the table of the module that defines it.              *)
ContextMatchesCode ==
  ~Idle => /\ module = ModuleOf[Current]
           /\ memory = MemoryOf[module]
           /\ table = TableOf[module]

(* An engine that reports is_idle accepts the next invoke: no return, trap  *)
(* or reset leaves words or a frame behind (invoke would answer Busy).      *)
IdleIsClean == Idle => sp = 0 /\ fp = 0

(* A pending host result always has a call waiting for it, and a free slot  *)
(* within the words that call was granted.                                  *)
PauseHasRoom ==
  pause # None => ~Idle /\ Height + pause <= StackUsage[Current]

(* The assertion of call_host: a pause never finds another one pending. *)
NoPanic == ~panicked

(* A run gives control back, whatever the guest executes. *)
RunReturns == (fuel > 0 /\ ~panicked) ~> (fuel = 0 \/ panicked)

=============================================================================
