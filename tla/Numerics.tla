------------------------------ MODULE Numerics ------------------------------
(***************************************************************************)
(* The numeric instructions: their numbers (src/opcode.rs), the types      *)
(* `Compiler` checks (src/compiler.rs), and what `Interpreter`             *)
(* (src/interpreter.rs) does to the words of the operand stack.            *)
(*                                                                         *)
(* An instruction is its name, the type it is named after and, for a       *)
(* conversion, the type it converts.  A machine is a stack of words, the   *)
(* index of the next free one, and the reason of a trap.                   *)
(***************************************************************************)
EXTENDS Numbers, TLC

Ins(name, ty, from) == [name |-> name, ty |-> ty, from |-> from]
Named(names, tys) == {Ins(n, ty, ty) : n \in names, ty \in tys}
Conversion(names, to, from) == {Ins(n, ty, f) : n \in names, ty \in to, f \in from}

IntTypes == {I32, I64}
FloatTypes == {F32, F64}

IntTests == Named({"eqz"}, IntTypes)
IntComparisons ==
  Named({"eq", "ne", "lt_s", "lt_u", "gt_s", "gt_u", "le_s", "le_u", "ge_s", "ge_u"}, IntTypes)
FloatComparisons == Named({"eq", "ne", "lt", "gt", "le", "ge"}, FloatTypes)
IntUnary == Named({"clz", "ctz", "popcnt"}, IntTypes)
IntBinary ==
  Named({"add", "sub", "mul", "div_s", "div_u", "rem_s", "rem_u", "and", "or", "xor",
         "shl", "shr_s", "shr_u", "rotl", "rotr"}, IntTypes)
FloatUnary == Named({"abs", "neg", "ceil", "floor", "trunc", "nearest", "sqrt"}, FloatTypes)
FloatBinary == Named({"add", "sub", "mul", "div", "min", "max", "copysign"}, FloatTypes)
Conversions ==
  Conversion({"trunc_s", "trunc_u"}, IntTypes, FloatTypes)
    \cup Conversion({"convert_s", "convert_u"}, FloatTypes, IntTypes)
    \cup {Ins("wrap", I32, I64), Ins("extend_s", I64, I32), Ins("extend_u", I64, I32),
          Ins("demote", F32, F64), Ins("promote", F64, F32)}
SignExtensions ==
  Named({"extend8_s", "extend16_s"}, IntTypes) \cup Named({"extend32_s"}, {I64})
Reinterpretations ==
  {Ins("reinterpret", I32, F32), Ins("reinterpret", I64, F64),
   Ins("reinterpret", F32, I32), Ins("reinterpret", F64, I64)}

(* The instructions behind EXTENDED_FC, by their second number. *)
FC ==
  << Ins("trunc_sat_s", I32, F32), Ins("trunc_sat_u", I32, F32),
     Ins("trunc_sat_s", I32, F64), Ins("trunc_sat_u", I32, F64),
     Ins("trunc_sat_s", I64, F32), Ins("trunc_sat_u", I64, F32),
     Ins("trunc_sat_s", I64, F64), Ins("trunc_sat_u", I64, F64) >>
Saturating == {FC[i] : i \in 1..Len(FC)}

Numeric ==
  IntTests \cup IntComparisons \cup FloatComparisons \cup IntUnary \cup IntBinary
    \cup FloatUnary \cup FloatBinary \cup Conversions \cup SignExtensions
    \cup Reinterpretations

Predicates == IntTests \cup IntComparisons \cup FloatComparisons
OnTwoOperands == (Predicates \ IntTests) \cup IntBinary \cup FloatBinary

(* The types an instruction pops, and the one it pushes. *)
Pops(i) == IF i \in OnTwoOperands THEN <<i.ty, i.ty>> ELSE <<i.from>>
Pushes(i) == IF i \in Predicates THEN I32 ELSE i.ty

-----------------------------------------------------------------------------
(* Words of the stack.  A word of an integer is a number; those of a float *)
(* are the whole of an f32 or one half of an f64.  The bits of a float are *)
(* not modelled: an integer read from its word is 0.                       *)

Bits(n) == <<n>>
Part(f, part) == <<f, part>>
FrameWord == <<>>
BitsOf(word) == IF Len(word) = 1 THEN word[1] ELSE 0
IsPart(word, part) == Len(word) = 2 /\ word[2] = part
(* a word that is not the float it is read as *)
Garbage == Float("garbage", FALSE, 0)

read_u32(m, at) == BitsOf(m.stack[at])
read_u64(m, at) == BitsOf(m.stack[at]) + 2^WordBits * BitsOf(m.stack[at + 1])
read_f32(m, at) == IF IsPart(m.stack[at], "whole") THEN m.stack[at][1] ELSE Garbage
read_f64(m, at) ==
  IF /\ IsPart(m.stack[at], "low") /\ IsPart(m.stack[at + 1], "high")
     /\ m.stack[at][1] = m.stack[at + 1][1]
  THEN m.stack[at][1] ELSE Garbage

WordsOfInt(ty, n) ==
  IF ty = I32 THEN <<Bits(n)>> ELSE <<Bits(n % 2^WordBits), Bits(n \div 2^WordBits)>>
WordsOfFloat(ty, f) ==
  IF ty = F32 THEN <<Part(f, "whole")>> ELSE <<Part(f, "low"), Part(f, "high")>>
(* The stack is a function on the indices that have been written. *)
WriteWords(m, at, ws) ==
  [m EXCEPT !.stack = [a \in at..(at + Len(ws) - 1) |-> ws[a - at + 1]] @@ @]

ReadInt(m, ty, at) == IF ty = I32 THEN read_u32(m, at) ELSE read_u64(m, at)
ReadFloat(m, ty, at) == IF ty = F32 THEN read_f32(m, at) ELSE read_f64(m, at)
WriteInt(m, ty, at, n) == WriteWords(m, at, WordsOfInt(ty, n))
WriteFloat(m, ty, at, f) == WriteWords(m, at, WordsOfFloat(ty, f))
Trapped(m, reason) == [m EXCEPT !.trap = reason]
Moved(m, by) == [m EXCEPT !.sp = @ + by]

(* A constant or a copied value goes on top. *)
PushWords(m, ws) == Moved(WriteWords(m, m.sp, ws), Len(ws))

-----------------------------------------------------------------------------
(* The patterns of the macro `instruction!`: where the operands are and    *)
(* where the result goes.                                                  *)

Flag(b) == IF b THEN 1 ELSE 0

Unary(m, ty, f(_)) == LET at == m.sp - Size(ty) IN WriteInt(m, ty, at, f(ReadInt(m, ty, at)))
UnaryFloat(m, ty, f(_)) ==
  LET at == m.sp - Size(ty) IN WriteFloat(m, ty, at, f(ReadFloat(m, ty, at)))
Binary(m, ty, f(_, _)) ==
  LET n == Moved(m, -Size(ty))
      at == n.sp - Size(ty)
  IN WriteInt(n, ty, at, f(ReadInt(n, ty, at), ReadInt(n, ty, n.sp)))
BinaryFloat(m, ty, f(_, _)) ==
  LET n == Moved(m, -Size(ty))
      at == n.sp - Size(ty)
  IN WriteFloat(n, ty, at, f(ReadFloat(n, ty, at), ReadFloat(n, ty, n.sp)))
Test(m, ty, f(_)) ==
  LET n == Moved(m, 1 - Size(ty))
  IN WriteInt(n, I32, n.sp - 1, Flag(f(ReadInt(n, ty, n.sp - 1))))

(* Compare(m, ty, a, b, f): a and b read an operand of type ty. *)
Compare(m, ty, a(_), b(_), f(_, _)) ==
  LET n == Moved(m, 1 - 2 * Size(ty))
  IN WriteInt(n, I32, n.sp - 1, Flag(f(a(n.sp - 1), b(n.sp + Size(ty) - 1))))

Widened_not_at_all(m, i) == m                                       \* mutant

(* Conversions read a value of one size and write one of another. *)
Widened(m, i) == Moved(m, Size(i.ty) - Size(i.from))

-----------------------------------------------------------------------------
(* Integer instructions *)

IntCompare(m, i) ==
  LET w == Width(i.ty)
      s(x) == Signed(w, x)
      f(x, y) == CASE i.name = "eq" -> x = y [] i.name = "ne" -> x # y
                   [] i.name = "lt_s" -> s(x) < s(y) [] i.name = "lt_u" -> x < y
                   [] i.name = "gt_s" -> s(x) > s(y) [] i.name = "gt_u" -> x > y
                   [] i.name = "le_s" -> s(x) <= s(y) [] i.name = "le_u" -> x <= y
                   [] i.name = "ge_s" -> s(x) >= s(y) [] i.name = "ge_u" -> x >= y
      operand(at) == ReadInt(m, i.ty, at)
  IN Compare(m, i.ty, operand, operand, f)

IntUnaryResult(name, w, x) ==
  CASE name = "clz" -> leading_zeros(w, x)
    [] name = "ctz" -> trailing_zeros(w, x)
    [] name = "popcnt" -> count_ones(w, x)
    [] name = "extend8_s" -> SignExtend(ByteBits, w, x)
    [] name = "extend16_s" -> SignExtend(HalfBits, w, x)
    [] name = "extend32_s" -> SignExtend(WordBits, w, x)

(* `b as u32` drops the high word of the count; the shift takes the rest   *)
(* modulo the width.                                                       *)
Count(w, y) == (y % 2^WordBits) % w
shl(w, x, k) == (x % 2^(w - k)) * 2^k
rotate_left(w, x, k) == shl(w, x, k) + x \div 2^(w - k)

IntBinaryResult(name, w, x, y) ==
  LET s(n) == Signed(w, n)
      k == Count(w, y)
  IN CASE name = "add" -> Wrapped(w, x + y)
       [] name = "sub" -> Wrapped(w, x - y)
       [] name = "mul" -> Wrapped(w, s(x) * s(y))
       [] name = "div_s" -> Wrapped(w, Quotient(s(x), s(y)))
       [] name = "div_u" -> x \div y
       [] name = "rem_s" -> Wrapped(w, Remainder(s(x), s(y)))
       [] name = "rem_u" -> x % y
       [] name = "and" -> FromBits(w, LAMBDA b : Bit(x, b) * Bit(y, b))
       [] name = "or" -> FromBits(w, LAMBDA b : Flag(Bit(x, b) + Bit(y, b) > 0))
       [] name = "xor" -> FromBits(w, LAMBDA b : (Bit(x, b) + Bit(y, b)) % 2)
       [] name = "shl" -> shl(w, x, k)
       [] name = "shr_s" -> Wrapped(w, s(x) \div 2^k)
       [] name = "shr_u" -> x \div 2^k
       [] name = "rotl" -> rotate_left(w, x, k)
       [] name = "rotr" -> rotate_left(w, x, (w - k) % w)

DivisionTrap_without_overflow(name, w, x, y) ==                     \* mutant
  IF name \in {"div_s", "div_u", "rem_s", "rem_u"} /\ y = 0 THEN "DivideByZero" ELSE "none"

DivisionTrap(name, w, x, y) ==
  CASE name \in {"div_s", "div_u", "rem_s", "rem_u"} /\ y = 0 -> "DivideByZero"
    [] name = "div_s" /\ y # 0 /\ Signed(w, x) = MIN(w) /\ Signed(w, y) = -1 -> "IntegerOverflow"
    [] OTHER -> "none"

IntBinaryStep(m, i) ==
  LET w == Width(i.ty)
      x == ReadInt(m, i.ty, m.sp - 2 * Size(i.ty))
      y == ReadInt(m, i.ty, m.sp - Size(i.ty))
      why == DivisionTrap(i.name, w, x, y)
  IN IF why # "none" THEN Trapped(Moved(m, -Size(i.ty)), why)
     ELSE Binary(m, i.ty, LAMBDA a, b : IntBinaryResult(i.name, w, a, b))

-----------------------------------------------------------------------------
(* Float instructions *)

FloatCompare(m, i) ==
  LET f(x, y) == CASE i.name = "eq" -> Equal(x, y) [] i.name = "ne" -> ~Equal(x, y)
                   [] i.name = "lt" -> Below(x, y) [] i.name = "gt" -> Below(y, x)
                   [] i.name = "le" -> Below(x, y) \/ Equal(x, y)
                   [] i.name = "ge" -> Below(y, x) \/ Equal(x, y)
      operand(at) == ReadFloat(m, i.ty, at)
  IN Compare(m, i.ty, operand, operand, f)

FloatUnaryResult(name, f) ==
  CASE name = "abs" -> [f EXCEPT !.neg = FALSE]
    [] name = "neg" -> [f EXCEPT !.neg = ~@]
    [] name \in {"ceil", "floor", "trunc", "nearest"} /\ is_nan(f) -> NaN
    [] name = "ceil" -> ceil(f)
    [] name = "floor" -> floor(f)
    [] name = "trunc" -> trunc(f)
    [] name = "nearest" -> rint(f)
    [] name = "sqrt" -> Unspecified

(* f32::min and f32::max of two numbers that are neither NaN nor both zero *)
min(f, g) == IF Below(f, g) THEN f ELSE g
max(f, g) == IF Below(f, g) THEN g ELSE f

FloatBinaryResult(name, f, g) ==
  CASE name \in {"min", "max"} /\ (is_nan(f) \/ is_nan(g)) -> NaN
    [] name = "min" /\ is_zero(f) /\ is_zero(g) -> IF f.neg THEN f ELSE g
    [] name = "max" /\ is_zero(f) /\ is_zero(g) -> IF f.neg THEN g ELSE f
    [] name = "min" -> min(f, g)
    [] name = "max" -> max(f, g)
    [] name = "copysign" -> [f EXCEPT !.neg = g.neg]
    [] OTHER -> Unspecified

-----------------------------------------------------------------------------
(* Conversions *)

(* The bounds the code writes out: the float at which the result no longer *)
(* fits, and the float below the least one that does, in halves.           *)
UpperBound(to, signed) == 2 * (IF signed THEN 2^(Width(to) - 1) ELSE 2^Width(to))
LowerBound(to, from, signed) ==
  IF ~signed THEN -2
  ELSE IF Width(to) < Precision(from) THEN 2 * (MIN(Width(to)) - 1)
  ELSE 2 * (MIN(Width(to)) - 2^(Width(to) - Precision(from)))

TruncTrap(to, from, signed, f) ==
  CASE is_infinite(f) -> "UnrepresentableResult"
    [] is_nan(f) -> "BadConversionToInteger"
    [] OTHER -> IF \/ Halves(f) >= UpperBound(to, signed)
                   \/ Halves(f) <= LowerBound(to, from, signed)
                THEN "UnrepresentableResult" ELSE "none"

Truncated(m, i) ==
  LET signed == i.name = "trunc_s"
      f == ReadFloat(m, i.from, m.sp - Size(i.from))
      why == TruncTrap(i.ty, i.from, signed, f)
      \* i32_trunc_f64 drops the high word before it looks
      seen == IF i.ty = I32 /\ i.from = F64 THEN Widened(m, i) ELSE m
  IN IF why # "none" THEN Trapped(seen, why)
     ELSE WriteInt(Widened(m, i), i.ty, m.sp - Size(i.from), Saturated(Width(i.ty), signed, f))

TruncatedSaturating(m, i) ==
  WriteInt(Widened(m, i), i.ty, m.sp - Size(i.from),
           Saturated(Width(i.ty), i.name = "trunc_sat_s",
                     ReadFloat(m, i.from, m.sp - Size(i.from))))

(* wrap, extend_s, extend_u *)
Resized(m, i) ==
  LET n == ReadInt(m, i.from, m.sp - Size(i.from))
  IN WriteInt(Widened(m, i), i.ty, m.sp - Size(i.from),
              IF i.name = "extend_s" THEN SignExtend(WordBits, Width(I64), n)
              ELSE Wrapped(Width(i.ty), n))

Converted(m, i) ==
  LET n == ReadInt(m, i.from, m.sp - Size(i.from))
  IN WriteFloat(Widened(m, i), i.ty, m.sp - Size(i.from),
                ToFloat(i.ty, IF i.name = "convert_s" THEN Signed(Width(i.from), n) ELSE n))

(* demote and promote *)
Cast(f, ty) ==
  IF f.class = "finite" THEN Finite(f.neg, RoundedTo(Precision(ty), f.mag)) ELSE f
Recast(m, i) ==
  WriteFloat(Widened(m, i), i.ty, m.sp - Size(i.from),
             Cast(ReadFloat(m, i.from, m.sp - Size(i.from)), i.ty))

-----------------------------------------------------------------------------

Execute(m, i) ==
  CASE i \in IntTests -> Test(m, i.ty, LAMBDA x : x = 0)
    [] i \in IntComparisons -> IntCompare(m, i)
    [] i \in FloatComparisons -> FloatCompare(m, i)
    [] i \in IntUnary \/ i \in SignExtensions ->
         Unary(m, i.ty, LAMBDA x : IntUnaryResult(i.name, Width(i.ty), x))
    [] i \in IntBinary -> IntBinaryStep(m, i)
    [] i \in FloatUnary -> UnaryFloat(m, i.ty, LAMBDA f : FloatUnaryResult(i.name, f))
    [] i \in FloatBinary ->
         BinaryFloat(m, i.ty, LAMBDA f, g : FloatBinaryResult(i.name, f, g))
    [] i.name \in {"trunc_s", "trunc_u"} -> Truncated(m, i)
    [] i \in Saturating -> TruncatedSaturating(m, i)
    [] i.name \in {"wrap", "extend_s", "extend_u"} -> Resized(m, i)
    [] i.name \in {"convert_s", "convert_u"} -> Converted(m, i)
    [] i.name \in {"demote", "promote"} -> Recast(m, i)
=============================================================================
