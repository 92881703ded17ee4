---------------------------- MODULE FunctionBody ----------------------------
(***************************************************************************)
(* A straight-line body from its bytes to its result:                      *)
(*   read_code (src/code.rs) decodes an instruction and its immediates and *)
(*     calls a visitor;                                                    *)
(*   the visitor `Compiler` (src/compiler.rs) checks the types and emits   *)
(*     words of IR (src/text.rs), or the visitor `ConstantCompiler`        *)
(*     (src/constant.rs) evaluates the body as a constant expression;      *)
(*   IrReader::visit_instruction (src/ir_reader.rs) decodes the words and  *)
(*     `Interpreter` (src/interpreter.rs) executes them on the words of    *)
(*     the stack.                                                          *)
(* Branches, calls and memory are modelled in Compiler, Engine and         *)
(* LinearMemory.                                                           *)
(*                                                                         *)
(* A case is what surrounds the body (the visitor, the parameters and      *)
(* locals of the function, the globals of the module) and the instructions *)
(* and bytes it is built from (bounds).                                    *)
(***************************************************************************)
EXTENDS WasmNumerics, SequencesExt, TLC

CONSTANTS
  ImmMax,       \* 255: an immediate from here on needs words of its own
  IndexMax,     \* 65535: u16::MAX
  OffsetMax,    \* 32767: i16::MAX
  Cases         \* [names -> what surrounds a body (given) and its bounds], see above

VARIABLES
  case,
  given,     \* what surrounds the body: visitor, params, locals, refs, objects
  item,      \* the instruction whose immediate is being read, or NoItem
  types,     \* TextBuilder::value_stack
  words,     \* the IR emitted
  constant,  \* ConstantCompiler::State, an Option<Value>
  outcome,   \* reading, running, or how it ended
  machine,         \* the machine: stack, sp, trap
  pc,
  globals,   \* the words of each global object
  program,   \* the instructions read, by the reference (history)
  typing     \* the operands validated at an address (history)

compiling == <<item, types, words, constant, program, typing>>
executing == <<machine, pc, globals>>
vars == <<case, given, compiling, executing, outcome>>

NoValue == Value("none", <<>>)
NoResult == Value("", <<>>)
NoItem == [name |-> "none", n |-> 0, bits |-> 0, groups |-> <<>>]
Invalid == <<"invalid">>
Outcome(kind, why, value) == [kind |-> kind, why |-> why, value |-> value]
Reading == Outcome("reading", "", NoValue)
Running == Outcome("running", "", NoValue)
Rejected(why) == Outcome("rejected", why, NoValue)

(* An instruction read: numeric, or named after its visitor function, with *)
(* its constant or its index.                                              *)
Entry(ins, value, index) == [ins |-> ins, value |-> value, index |-> index]
Plain(name) == Ins(name, "", "")
Constants == {"i32_const", "i64_const", "f32_const", "f64_const"}
TypeOfConstant(name) ==
  CASE name = "i32_const" -> I32 [] name = "i64_const" -> I64
    [] name = "f32_const" -> F32 [] name = "f64_const" -> F64

-----------------------------------------------------------------------------
(* Frames, locals and globals *)

(* The instructions and bytes the body is built from. *)
Bound == Cases[case]

(* The words that values of these types take. *)
WordsIn(ts) == FoldLeft(LAMBDA n, ty : n + Size(ty), 0, ts)
ParameterSize == WordsIn(given.params)
LocalSize == FoldLeft(LAMBDA n, run : n + run.n * Size(run.ty), 0, given.locals)
Usage == LET heights == {WordsIn(typing[a]) : a \in DOMAIN typing} \cup {WordsIn(types)}
         IN CHOOSE h \in heights : \A k \in heights : k <= h

Local(status, ty, offset) == [status |-> status, ty |-> ty, offset |-> offset]

(* get_local: a parameter lies below the frame pointer, a local two words  *)
(* above it; indices are added in 16 bits, which a build with overflow     *)
(* checks does not let wrap.                                               *)
FindLocal(x, checked) ==
  LET Scan(s, run) ==
        LET sum == s.index + run.n
            next == sum % (IndexMax + 1)
            word == s.words + Size(run.ty) * (x - s.index)
        IN IF s.found.status # "searching" THEN s
           ELSE IF sum > IndexMax /\ checked THEN [s EXCEPT !.found = Local("panic", I32, 0)]
           ELSE IF next > x THEN
             [s EXCEPT !.found = IF word > OffsetMax - 2 THEN Local("LocalIdxOutOfRange", I32, 0)
                                 ELSE Local("found", run.ty, word + 2)]
           ELSE [s EXCEPT !.index = next, !.words = @ + run.n * Size(run.ty)]
      s == FoldLeft(Scan, [index |-> Len(given.params), words |-> 0,
                           found |-> Local("searching", I32, 0)], given.locals)
  IN IF s.found.status = "searching" THEN Local("LocalIdxOutOfRange", I32, 0) ELSE s.found

get_local(x, checked) ==
  CASE x > IndexMax -> Local("LocalIdxOutOfRange", I32, 0)
    [] x < Len(given.params) ->
         Local("found", given.params[x + 1], WordsIn(SubSeq(given.params, 1, x)) - ParameterSize)
    [] x \in Len(given.params)..IndexMax -> FindLocal(x, checked)

get_global_ref(x) == given.refs[x + 1]
InRangeOfGlobals(x) == x < Len(given.refs)
Object(ref) == given.objects[ref]

-----------------------------------------------------------------------------
(* IR words.  Two words of code make a word of the stack. *)

NoIns == Plain("")
CodeWord(ins, imm) == [ins |-> ins, imm |-> imm]
Raw(n) == CodeWord(NoIns, n)
Piece(f, k) == [float |-> f, part |-> k]

CodeBits == WordBits \div 2
RawWords(n, k) == [j \in 1..k |-> Raw((n \div 2^(CodeBits * (j - 1))) % 2^CodeBits)]
Pieces(f, k) == [j \in 1..k |-> Piece(f, j)]
CodeWordsOf(ty) == 2 * Size(ty)

instr(ins) == <<CodeWord(ins, 0)>>
instr_imm_8(ins, imm) == <<CodeWord(ins, imm)>>
(* instr_imm_8_or_16, _32 and _64 *)
instr_imm_8_or(ins, n, k) ==
  IF n < ImmMax THEN <<CodeWord(ins, n)>> ELSE <<CodeWord(ins, ImmMax)>> \o RawWords(n, k)
Index16(n) == <<Raw(n)>>

Repr(ty) == CHOOSE k \in 0..3 : <<I32, I64, F32, F64>>[k + 1] = ty
(* `frame_offset as u16`, and the word `as i16` *)
AsU16(offset) == offset % (IndexMax + 1)
AsI16(n) == IF n > OffsetMax THEN n - (IndexMax + 1) ELSE n

(* A constant is emitted as its bits: `n as u32`, `n as u64`. *)
ConstantWords(e) ==
  LET ty == e.value.ty
  IN IF ty \in IntTypes
     THEN instr_imm_8_or(e.ins, IntOf(e.value), CodeWordsOf(ty))
     ELSE instr(e.ins) \o Pieces(FloatOf(e.value), CodeWordsOf(ty))

NumericWords(i) ==
  CASE i \in Reinterpretations -> <<>>
    [] i \in Saturating -> instr_imm_8(Plain("fc"), CHOOSE k \in 0..(Len(FC) - 1) : FC[k + 1] = i)
    [] OTHER -> instr(i)

GlobalWords(name, ref) ==
  CASE ref.where = "Module" -> instr_imm_8_or(Plain(name), ref.index, 1)
    [] ref.where = "Host" -> instr_imm_8(Plain(name \o "_host"), ref.module) \o Index16(ref.index)
    [] ref.where = "Extern" -> instr_imm_8(Plain(name \o "_extern"), ref.module) \o Index16(ref.index)

-----------------------------------------------------------------------------
(* The visitor Compiler: what an instruction pops and pushes, and its IR.  *)

Popped(ts, expect) ==
  LET k == Len(ts) - Len(expect)
  IN IF k >= 0 /\ SubSeq(ts, k + 1, Len(ts)) = expect THEN SubSeq(ts, 1, k) ELSE Invalid

Compiled(pops, pushes, emitted) == [why |-> "", pops |-> pops, pushes |-> pushes, words |-> emitted]
Refused(why) == [why |-> why, pops |-> <<>>, pushes |-> <<>>, words |-> <<>>]

CompileLocal(name, l) ==
  LET emitted == instr_imm_8(Plain(name), Repr(l.ty)) \o Index16(AsU16(l.offset))
  IN CASE l.status # "found" -> Refused(l.status)
       [] l.status = "found" /\ name = "local_get" -> Compiled(<<>>, <<l.ty>>, emitted)
       [] l.status = "found" /\ name = "local_set" -> Compiled(<<l.ty>>, <<>>, emitted)
       [] l.status = "found" /\ name = "local_tee" -> Compiled(<<l.ty>>, <<l.ty>>, emitted)

CompileGlobal(name, x) ==
  LET ref == get_global_ref(x)
      ty == Object(ref).ty
  IN IF ~InRangeOfGlobals(x) THEN Refused("GlobalIdxOutOfRange")
     ELSE IF name = "global_get" THEN Compiled(<<>>, <<ty>>, GlobalWords(name, ref))
     ELSE IF ~Object(ref).mutable THEN Refused("GlobalNotMutable")
     ELSE Compiled(<<ty>>, <<>>, GlobalWords(name, ref))

Compile(e, checked) ==
  LET name == e.ins.name
  IN CASE e.ins.ty # "" -> Compiled(Pops(e.ins), <<Pushes(e.ins)>>, NumericWords(e.ins))
       [] name \in Constants -> Compiled(<<>>, <<e.value.ty>>, ConstantWords(e))
       [] name \in {"local_get", "local_set", "local_tee"} ->
            CompileLocal(name, get_local(e.index, checked))
       [] name \in {"global_get", "global_set"} -> CompileGlobal(name, e.index)

VisitFunction(e) ==
  \E c \in {Compile(e, checked) : checked \in BOOLEAN} :
    LET after == Popped(types, c.pops)
    IN /\ IF c.why # "" THEN
            /\ outcome' = IF c.why = "panic" THEN Outcome("panicked", c.why, NoValue)
                          ELSE Rejected(c.why)
            /\ UNCHANGED <<types, words, typing>>
          ELSE IF after = Invalid THEN
            /\ outcome' = Rejected("TypeMismatch")
            /\ UNCHANGED <<types, words, typing>>
          ELSE
            /\ types' = after \o c.pushes
            /\ words' = words \o c.words
            /\ typing' = (Len(words) :> types) @@ typing
            /\ UNCHANGED outcome
       /\ UNCHANGED constant

(* The visitor ConstantCompiler: constants and imported, immutable globals *)
(* replace the value; everything else is refused.                          *)
ConstantGlobal(x) ==
  LET ref == get_global_ref(x)
  IN CASE ~InRangeOfGlobals(x) -> [why |-> "InvalidGlobal", value |-> NoValue]
       [] InRangeOfGlobals(x) /\ (ref.where = "Module" \/ Object(ref).mutable) ->
            [why |-> "InvalidConstantInstruction", value |-> NoValue]
       [] InRangeOfGlobals(x) /\ ref.where # "Module" /\ ~Object(ref).mutable ->
            IF Object(ref).refuses THEN [why |-> "InvalidGlobal", value |-> NoValue]
            ELSE [why |-> "", value |-> Value(Object(ref).ty, globals[ref])]

Evaluate(e) ==
  LET v == IF e.ins.name \in Constants THEN [why |-> "", value |-> e.value]
           ELSE IF e.ins.name = "global_get" THEN ConstantGlobal(e.index)
           ELSE [why |-> "InvalidConstantInstruction", value |-> NoValue]
  IN IF v.why = "" /\ constant # NoValue THEN [v EXCEPT !.why = "AlreadyHasValue"] ELSE v

VisitConstant(e) ==
  LET v == Evaluate(e)
  IN /\ outcome' = IF v.why # "" THEN Rejected(v.why) ELSE outcome
     /\ constant' = IF v.value # NoValue THEN v.value ELSE constant
     /\ UNCHANGED <<types, words, typing>>

(* The reference of an instruction is what its bytes mean. *)
Meaning(e, groups, integer) ==
  [ins |-> e.ins, value |-> e.value, index |-> e.index, bytes |-> Len(groups), integer |-> integer]

Visit(e, meaning) ==
  /\ item' = NoItem
  /\ program' = Append(program, meaning)
  /\ IF given.visitor = "function" THEN VisitFunction(e) ELSE VisitConstant(e)

-----------------------------------------------------------------------------
(* read_code: one instruction, its immediates byte by byte *)

AtOpcode ==
  /\ outcome = Reading /\ item = NoItem
  /\ Len(program) < Bound.instructions
BytesRead == FoldLeft(LAMBDA n, e : n + e.bytes, 0, program)

(* An instruction without immediates. *)
Opcode ==
  /\ AtOpcode
  /\ \E e \in {Entry(i, NoValue, 0) : i \in Bound.plain} : Visit(e, Meaning(e, <<>>, TRUE))
  /\ UNCHANGED <<case, given, executing>>

(* f32.const and f64.const: four or eight bytes that are the float. *)
FloatConstant ==
  /\ AtOpcode
  /\ \E name \in Bound.immediates \cap {"f32_const", "f64_const"} :
       LET ty == TypeOfConstant(name)
           values == {FloatValue(ty, f) : f \in {g \in Bound.floats : Represents(ty, g)}}
       IN \E e \in {Entry(Plain(name), v, 0) : v \in values} : Visit(e, Meaning(e, <<>>, TRUE))
  /\ UNCHANGED <<case, given, executing>>

(* An instruction whose immediate is an integer. *)
Immediate ==
  /\ AtOpcode
  /\ \E name \in Bound.immediates \ {"f32_const", "f64_const"} :
       item' = [NoItem EXCEPT !.name = name]
  /\ UNCHANGED <<case, given, types, words, constant, program, typing, executing, outcome>>

ImmediateWidth == IF item.name = "i64_const" THEN Width(I64) ELSE Width(I32)
ImmediateSigned == item.name \in {"i32_const", "i64_const"}

(* The instruction item is, once its immediate is n. *)
Decoded(n) ==
  CASE item.name \in Constants ->
         Entry(Plain(item.name), IntValue(TypeOfConstant(item.name), n), 0)
    [] item.name = "fc" -> Entry(FC[(n % Len(FC)) + 1], NoValue, 0)
    [] OTHER -> Entry(Plain(item.name), NoValue, n)

MeaningOf(groups) ==
  LET signed == ImmediateSigned
      n == LEB128(groups, signed) % 2^ImmediateWidth
  IN Meaning(Decoded(n), groups, IsInteger(ImmediateWidth, signed, groups))

Byte ==
  /\ outcome = Reading /\ item # NoItem
  /\ BytesRead + Len(item.groups) < Bound.bytes
  /\ \E group \in Bound.groups, more \in BOOLEAN :
     \E r \in {ReadByte(ImmediateWidth, ImmediateSigned, item.n, item.bits, group, more)} :
       LET groups == Append(item.groups, group)
       IN CASE r.status = "more" ->
                 /\ item' = [item EXCEPT !.n = @ + 1, !.bits = r.bits, !.groups = groups]
                 /\ UNCHANGED <<types, words, constant, program, typing, outcome>>
            [] r.status = "read" /\ (item.name # "fc" \/ r.bits < Len(FC)) ->
                 \E e \in {Decoded(r.bits)} : Visit(e, MeaningOf(groups))
            [] r.status = "read" /\ item.name = "fc" /\ r.bits >= Len(FC) ->
                 /\ outcome' = Rejected("InvalidFcOpcode")
                 /\ UNCHANGED compiling
            [] r.status = "MalformedInteger" ->
                 /\ outcome' = Outcome("rejected", r.status, NoValue)
                 /\ item' = [item EXCEPT !.groups = IF more THEN Append(groups, 0) ELSE groups]
                 /\ UNCHANGED <<types, words, constant, program, typing>>
  /\ UNCHANGED <<case, given, executing>>

-----------------------------------------------------------------------------
(* END.  The declared result is only looked at here, so it is chosen here. *)

FrameBase == ParameterSize + 2
ZeroOf(ty) == IF ty \in IntTypes THEN WordsOfInt(ty, 0) ELSE WordsOfFloat(ty, Zero)
ArgumentOf(k) ==
  LET ty == given.params[k] IN IF ty \in IntTypes THEN WordsOfInt(ty, k) ELSE WordsOfFloat(ty, Finite(FALSE, 2 * k))

(* The frame of a call with these arguments: call_impl writes two words    *)
(* and clears the locals.                                                  *)
InitialStack ==
  LET arguments == FoldLeft(LAMBDA ws, k : ws \o ArgumentOf(k), <<>>,
                            [k \in 1..Len(given.params) |-> k])
      cleared == FoldLeft(LAMBDA ws, run : ws \o FlattenSeq([j \in 1..run.n |-> ZeroOf(run.ty)]),
                          <<>>, given.locals)
      all == arguments \o <<FrameWord, FrameWord>> \o cleared
  IN [a \in 0..(Len(all) - 1) |-> all[a + 1]]

FinishFunction ==
  \E result \in Bound.results :
    /\ outcome' =
         CASE Popped(types, result) # <<>> -> Rejected("BlockResultTypeMismatch")
           [] Popped(types, result) = <<>> ->
                IF 2 + LocalSize + Usage > IndexMax THEN Rejected("StackTooLarge") ELSE Running
    /\ words' = words \o instr_imm_8(Ins("return", "", IF result = <<>> THEN "" ELSE result[1]),
                                     WordsIn(result))
    /\ typing' = (Len(words) :> types) @@ typing
    /\ machine' = [stack |-> InitialStack, sp |-> FrameBase + LocalSize, trap |-> "none"]
    /\ UNCHANGED <<item, types, constant, program, pc, globals>>

FinishConstant ==
  /\ outcome' = IF constant = NoValue THEN Rejected("NoValue") ELSE Outcome("constant", "", constant)
  /\ UNCHANGED <<compiling, executing>>

Finish ==
  /\ outcome = Reading /\ item = NoItem
  /\ IF given.visitor = "function" THEN FinishFunction ELSE FinishConstant
  /\ UNCHANGED <<case, given>>

-----------------------------------------------------------------------------
(* visit_instruction and the interpreter *)

At(a) == words[a + 1]
(* read_u32 and read_u64 of the IR *)
CodeInt(a, k) ==
  LET upto[j \in 0..k] ==
        IF j = 0 THEN 0 ELSE upto[j - 1] + At(a + j - 1).imm * 2^(CodeBits * (j - 1))
  IN upto[k]
CodeFloat(a, k) ==
  IF \A j \in 1..k : At(a + j - 1).part = j /\ At(a + j - 1).float = At(a).float
  THEN At(a).float ELSE Garbage

Continue(after, length, gs) == [machine |-> after, pc |-> pc + length, globals |-> gs]

(* The immediate in the first word, or in the k words after it. *)
IsExtended == At(pc).imm = ImmMax
ImmediateOf(k) == IF IsExtended THEN CodeInt(pc + 1, k) ELSE At(pc).imm
LengthOf(k) == IF IsExtended THEN 1 + k ELSE 1

StepConstant(name) ==
  LET ty == TypeOfConstant(name)
      k == CodeWordsOf(ty)
  IN IF ty \in IntTypes
     THEN Continue(PushWords(machine, WordsOfInt(ty, ImmediateOf(k))), LengthOf(k), globals)
     ELSE Continue(PushWords(machine, WordsOfFloat(ty, CodeFloat(pc + 1, k))), 1 + k, globals)

WordsAt(at, k) == [j \in 1..k |-> machine.stack[at + j - 1]]
LocalAddr(offset) == ParameterSize + offset

StepLocal(name) ==
  LET ty == <<I32, I64, F32, F64>>[At(pc).imm + 1]
      k == Size(ty)
      at == LocalAddr(AsI16(At(pc + 1).imm))
  IN CASE name = "local_get" -> Continue(PushWords(machine, WordsAt(at, k)), 2, globals)
       [] name = "local_set" ->
            Continue(WriteWords(Moved(machine, -k), at, WordsAt(machine.sp - k, k)), 2, globals)
       [] name = "local_tee" -> Continue(WriteWords(machine, at, WordsAt(machine.sp - k, k)), 2, globals)

Ref(where, module, index) == [where |-> where, module |-> module, index |-> index]
ReadGlobal(ref, length) ==
  IF Object(ref).refuses THEN Continue(Trapped(machine, "GlobalGetFailed"), length, globals)
  ELSE Continue(PushWords(machine, globals[ref]), length, globals)
WriteGlobal(ref, length) ==
  LET k == Size(Object(ref).ty)
  IN IF Object(ref).refuses THEN Continue(Trapped(Moved(machine, -k), "GlobalSetFailed"), length, globals)
     ELSE Continue(Moved(machine, -k), length, [globals EXCEPT ![ref] = WordsAt(machine.sp - k, k)])

(* global_get_extern looks at the same index of another module. *)
StepGlobal(name) ==
  LET own == Ref("Module", 0, ImmediateOf(1))
      host == Ref("Host", At(pc).imm, At(pc + 1).imm)
      extern == Ref("Extern", At(pc).imm, At(pc + 1).imm)
  IN CASE name = "global_get" -> ReadGlobal(own, LengthOf(1))
       [] name = "global_set" -> WriteGlobal(own, LengthOf(1))
       [] name = "global_get_host" -> ReadGlobal(host, 2)
       [] name = "global_set_host" -> WriteGlobal(host, 2)
       [] name = "global_get_extern" -> ReadGlobal(extern, 2)
       [] name = "global_set_extern" -> WriteGlobal(extern, 2)

StepInstruction ==
  LET i == At(pc).ins
  IN CASE i.ty # "" -> Continue(Execute(machine, i), 1, globals)
       [] i.name = "fc" -> Continue(Execute(machine, FC[At(pc).imm + 1]), 1, globals)
       [] i.name \in Constants -> StepConstant(i.name)
       [] i.name \in {"local_get", "local_set", "local_tee"} -> StepLocal(i.name)
       [] OTHER -> StepGlobal(i.name)

Step ==
  /\ outcome = Running /\ At(pc).ins.name # "return"
  /\ \E s \in {StepInstruction} :
        /\ machine' = s.machine /\ pc' = s.pc /\ globals' = s.globals
        /\ outcome' = IF s.machine.trap # "none" THEN Outcome("trapped", s.machine.trap, NoValue) ELSE outcome
  /\ UNCHANGED <<case, given, compiling>>

Return ==
  /\ outcome = Running /\ At(pc).ins.name = "return"
  /\ outcome' = Outcome("returned", "",
       Value(At(pc).ins.from, WordsAt(machine.sp - At(pc).imm, At(pc).imm)))
  /\ UNCHANGED <<case, given, compiling, executing>>

-----------------------------------------------------------------------------

Init ==
  /\ case \in DOMAIN Cases /\ given = Cases[case].given
  /\ item = NoItem /\ types = <<>> /\ words = <<>> /\ constant = NoValue
  /\ program = <<>> /\ typing = <<>>
  /\ machine = [stack |-> <<>>, sp |-> 0, trap |-> "none"] /\ pc = 0
  /\ globals = [ref \in DOMAIN given.objects |-> given.objects[ref].words]
  /\ outcome = Reading

Next == Opcode \/ FloatConstant \/ Immediate \/ Byte \/ Finish \/ Step \/ Return
Spec == Init /\ [][Next]_vars

-----------------------------------------------------------------------------
(* The reference: what the specification says of a program. *)

LocalTypes ==
  given.params \o FlattenSeq([j \in 1..Len(given.locals) |->
                    [k \in 1..given.locals[j].n |-> given.locals[j].ty]])

(* The types after a program, or Invalid.  An index has to name something. *)
TypesOf(prog) ==
  LET locals == LocalTypes
      Typed(ts, e) ==
        LET n == e.ins.name
            push(ty) == Append(ts, ty)
            pop(tys) == IF ts = Invalid THEN Invalid ELSE Popped(ts, tys)
            then(rest, tys) == IF rest = Invalid THEN Invalid ELSE rest \o tys
        IN IF ts = Invalid THEN Invalid
           ELSE CASE e.ins.ty # "" -> then(pop(Pops(e.ins)), <<Pushes(e.ins)>>)
                  [] n \in Constants -> push(e.value.ty)
                  [] n = "global_get" ->
                       IF e.index < Len(given.refs) THEN push(Object(given.refs[e.index + 1]).ty)
                       ELSE Invalid
                  [] n = "global_set" ->
                       IF e.index < Len(given.refs) /\ Object(given.refs[e.index + 1]).mutable
                       THEN pop(<<Object(given.refs[e.index + 1]).ty>>) ELSE Invalid
                  [] n = "local_get" ->
                       IF e.index < Len(locals) THEN push(locals[e.index + 1]) ELSE Invalid
                  [] n = "local_set" ->
                       IF e.index < Len(locals) THEN pop(<<locals[e.index + 1]>>) ELSE Invalid
                  [] n = "local_tee" ->
                       IF e.index < Len(locals)
                       THEN then(pop(<<locals[e.index + 1]>>), <<locals[e.index + 1]>>) ELSE Invalid
  IN FoldLeft(Typed, <<>>, prog)

(* The values after a program that is valid: operands, locals and globals. *)
Meant ==
  LET zero(ty) == Value(ty, ZeroOf(ty))
      initial ==
        [vals |-> <<>>, trap |-> "none",
         locals |-> [k \in 1..Len(given.params) |-> Value(given.params[k], ArgumentOf(k))]
                      \o FlattenSeq([j \in 1..Len(given.locals) |->
                           [k \in 1..given.locals[j].n |-> zero(given.locals[j].ty)]]),
         globals |-> [r \in DOMAIN given.objects |->
                        Value(given.objects[r].ty, given.objects[r].words)]]
      Effect(s, e) ==
        LET n == e.ins.name
            top == s.vals[Len(s.vals)]
            push(v) == [s EXCEPT !.vals = Append(@, v)]
            popped == [s EXCEPT !.vals = SubSeq(@, 1, Len(@) - 1)]
            arity == Len(Pops(e.ins))
            result == Apply(e.ins, SubSeq(s.vals, Len(s.vals) - arity + 1, Len(s.vals)))
            ref == given.refs[e.index + 1]
        IN IF s.trap # "none" THEN s
           ELSE CASE e.ins.ty # "" ->
                       IF result.trap # "none" THEN [s EXCEPT !.trap = result.trap]
                       ELSE [s EXCEPT !.vals = Append(SubSeq(@, 1, Len(@) - arity), result.value)]
                  [] n \in Constants -> push(e.value)
                  [] n = "local_get" -> push(s.locals[e.index + 1])
                  [] n = "local_set" -> [popped EXCEPT !.locals[e.index + 1] = top]
                  [] n = "local_tee" -> [s EXCEPT !.locals[e.index + 1] = top]
                  [] n = "global_get" ->
                       IF Object(ref).refuses THEN [s EXCEPT !.trap = "GlobalGetFailed"]
                       ELSE push(s.globals[ref])
                  [] n = "global_set" ->
                       IF Object(ref).refuses THEN [s EXCEPT !.trap = "GlobalSetFailed"]
                       ELSE [popped EXCEPT !.globals[ref] = top]
  IN FoldLeft(Effect, initial, program)

(* A constant expression is one constant, or one imported global that      *)
(* never changes.                                                          *)
IsConstant(prog) ==
  /\ Len(prog) = 1
  /\ \/ prog[1].ins.name \in Constants
     \/ /\ prog[1].ins.name = "global_get" /\ prog[1].index < Len(given.refs)
        /\ LET ref == given.refs[prog[1].index + 1]
           IN ref.where # "Module" /\ ~Object(ref).mutable

-----------------------------------------------------------------------------
(* Properties *)

(* The types of the state: integers and words within their widths, and the *)
(* stack pointer just above a word that has been written.                  *)
TypeOK ==
  /\ case \in DOMAIN Cases /\ given = Cases[case].given
  /\ item.bits \in 0..(2^Width(I64) - 1) /\ item.n \in 0..LastByte(Width(I64))
  /\ types \in Seq(ValType) /\ DOMAIN typing \subseteq 0..Len(words)
  /\ \A k \in 1..Len(words) : \/ "part" \in DOMAIN words[k]
                             \/ words[k].imm \in 0..IndexMax
  /\ outcome.kind \in {"reading", "running", "rejected", "panicked", "constant",
                       "returned", "trapped"}
  /\ outcome.kind \in {"running", "returned"} =>
       /\ machine.sp - 1 \in DOMAIN machine.stack /\ pc \in 0..(Len(words) - 1)
       /\ \A a \in DOMAIN machine.stack : BitsOf(machine.stack[a]) \in 0..(2^WordBits - 1)

(* An instruction leaves on the stack the words of the types the validator *)
(* computed for it: no instruction reads, writes or pops a word too many,  *)
(* and a two-word value is never split (the sp arithmetic of `instruction!`*)
(* and of the conversions in interpreter.rs).                              *)
StackMatchesTypes ==
  /\ TypeOK
  /\ outcome = Running =>
       /\ pc \in DOMAIN typing
       /\ machine.sp = FrameBase + LocalSize + WordsIn(typing[pc])
       /\ \A k \in {ParameterSize, ParameterSize + 1} : machine.stack[k] = FrameWord

TooManyLocals == Len(LocalTypes) > IndexMax
WithinLimits ==
  \A k \in 1..Len(program) :
    program[k].ins.name \in {"local_get", "local_set", "local_tee"} =>
      /\ ~TooManyLocals
      /\ program[k].index \in (Len(given.params) + 1)..Len(LocalTypes) =>
           WordsIn(SubSeq(LocalTypes, Len(given.params) + 1, program[k].index)) <= OffsetMax - 2

(* The bytes of a body are accepted exactly when the specification says    *)
(* they are valid, but for two limits of this implementation: a function   *)
(* has at most u16::MAX parameters and locals, and a local is at most      *)
(* i16::MAX words above the frame pointer.  A build with overflow checks   *)
(* panics at the first limit (text.rs 613).                                *)
AcceptedAsSpecified ==
  /\ \A k \in 1..Len(program) : program[k].integer
  /\ outcome.why = "MalformedInteger" => ~IsInteger(ImmediateWidth, ImmediateSigned, item.groups)
  /\ given.visitor = "function" =>
       /\ outcome.kind = "reading" => TypesOf(program) = types
       /\ outcome.kind = "panicked" => TooManyLocals
       /\ outcome.why \in {"TypeMismatch", "GlobalIdxOutOfRange", "GlobalNotMutable"} =>
            TypesOf(program) = Invalid
       /\ outcome.why = "LocalIdxOutOfRange" => TypesOf(program) = Invalid \/ ~WithinLimits
  /\ given.visitor = "constant" =>
       /\ outcome.kind = "constant" => IsConstant(program)
       /\ outcome.why \in {"InvalidConstantInstruction", "AlreadyHasValue", "NoValue"} =>
            ~IsConstant(program)

(* From its bytes to its result, through LEB128, the encoding of           *)
(* immediates, the words of the stack and the instructions of the          *)
(* interpreter, a body computes what the specification says, or traps for  *)
(* the reason it says; a constant expression is worth what a function with *)
(* the same body would return.                                             *)
ComputesAsSpecified ==
  /\ outcome.kind \in {"returned", "trapped"} => Meant.trap = machine.trap
  /\ outcome.kind = "returned" =>
       LET s == Meant
       IN /\ outcome.value = IF s.vals = <<>> THEN NoResult ELSE s.vals[1]
          /\ \A r \in DOMAIN globals : globals[r] = s.globals[r].words
  /\ outcome.kind = "constant" => outcome.value = Meant.vals[1]
=============================================================================
