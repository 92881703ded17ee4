---------------------------- MODULE WasmNumerics ----------------------------
(***************************************************************************)
(* The reference: what the WebAssembly specification (core 4.3, "Numerics",*)
(* and binary format 5.2.2, "Integers") says the numeric instructions and  *)
(* LEB128 integers mean, written over values and not over words, shifts    *)
(* and stack indices.                                                      *)
(***************************************************************************)
EXTENDS Numerics, FiniteSets

Value(ty, ws) == [ty |-> ty, words |-> ws]
IntValue(ty, n) == Value(ty, WordsOfInt(ty, n))
FloatValue(ty, f) == Value(ty, WordsOfFloat(ty, f))
IntOf(v) ==
  IF v.ty = I64 THEN BitsOf(v.words[1]) + 2^WordBits * BitsOf(v.words[2]) ELSE BitsOf(v.words[1])
FloatOf(v) == v.words[1][1]

Undefined(why) == [trap |-> why, value |-> IntValue(I32, 0)]
Defined(v) == [trap |-> "none", value |-> v]

-----------------------------------------------------------------------------
(* uN and sN: at most ceil(N/7) bytes, least significant first; the last   *)
(* one of an sN carries the sign; the value has to be in the range of N.   *)

MostBytes(w) == (w + GroupBits - 1) \div GroupBits
LEB128(groups, signed) ==
  LET k == Len(groups)
      sum[i \in 0..k] ==
        IF i = 0 THEN 0 ELSE sum[i - 1] + groups[i] * 2^(GroupBits * (i - 1))
  IN IF signed /\ groups[k] >= 2^(GroupBits - 1) THEN sum[k] - 2^(GroupBits * k) ELSE sum[k]
InRange(w, signed, x) ==
  IF signed THEN x \in MIN(w)..(-MIN(w) - 1) ELSE x \in 0..(2^w - 1)
(* Is this sequence of groups, each but the last continued, an integer? *)
IsInteger(w, signed, groups) ==
  Len(groups) <= MostBytes(w) /\ InRange(w, signed, LEB128(groups, signed))

-----------------------------------------------------------------------------
(* Integers *)

Ones(w, n) == {b \in 0..(w - 1) : Bit(n, b) = 1}
OfOnes(w, S) == FromBits(w, LAMBDA b : Flag(b \in S))

(* Division of naturals by hand, from the highest bit. *)
LongDivision(w, n, d) ==
  LET rest[b \in 0..w] == IF b = w THEN 0 ELSE (2 * rest[b + 1] + Bit(n, b)) % d
  IN FromBits(w, LAMBDA b : Flag(2 * rest[b + 1] + Bit(n, b) >= d))

(* idiv_s is undefined when the quotient is 2^(N-1); irem_s never is. *)
Divided(w, signed, n, d) ==
  LET x == IF signed THEN Signed(w, n) ELSE n
      y == IF signed THEN Signed(w, d) ELSE d
      q == LongDivision(w, Absolute(x), Absolute(y))
  IN IF (x < 0) = (y < 0) THEN q ELSE -q

Division(name, ty, n, d) ==
  LET w == Width(ty)
      signed == name \in {"div_s", "rem_s"}
      q == Divided(w, signed, n, d)
  IN IF d = 0 THEN Undefined("DivideByZero")
     ELSE CASE name = "div_s" /\ q = 2^(w - 1) -> Undefined("IntegerOverflow")
            [] name \in {"div_s", "div_u"} /\ ~(signed /\ q = 2^(w - 1)) ->
                 Defined(IntValue(ty, q % 2^w))
            [] name = "rem_s" -> Defined(IntValue(ty, (Signed(w, n) - q * Signed(w, d)) % 2^w))
            [] name = "rem_u" -> Defined(IntValue(ty, n - q * d))

IntFunction(name, w, n, d) ==
  LET k == d % w
      sign == IF Bit(n, w - 1) = 1 THEN (w - k)..(w - 1) ELSE {}
      Shifted(by) == {b + by : b \in Ones(w, n)} \cap 0..(w - 1)
  IN CASE name = "add" -> (n + d) % 2^w
       [] name = "sub" -> (n - d) % 2^w
       [] name = "mul" -> (Signed(w, n) * Signed(w, d)) % 2^w
       [] name = "and" -> OfOnes(w, Ones(w, n) \cap Ones(w, d))
       [] name = "or" -> OfOnes(w, Ones(w, n) \cup Ones(w, d))
       [] name = "xor" -> OfOnes(w, (Ones(w, n) \ Ones(w, d)) \cup (Ones(w, d) \ Ones(w, n)))
       [] name = "shl" -> OfOnes(w, Shifted(k))
       [] name = "shr_u" -> OfOnes(w, Shifted(-k))
       [] name = "shr_s" -> OfOnes(w, Shifted(-k) \cup sign)
       [] name = "rotl" -> OfOnes(w, {(b + k) % w : b \in Ones(w, n)})
       [] name = "rotr" -> OfOnes(w, {(b - k) % w : b \in Ones(w, n)})
       [] name = "clz" -> Cardinality({b \in 0..(w - 1) : \A c \in Ones(w, n) : c < b})
       [] name = "ctz" -> Cardinality({b \in 0..(w - 1) : \A c \in Ones(w, n) : c > b})
       [] name = "popcnt" -> Cardinality(Ones(w, n))

Extended(k, w, n) ==
  OfOnes(w, (Ones(w, n) \cap 0..(k - 1)) \cup (IF Bit(n, k - 1) = 1 THEN k..(w - 1) ELSE {}))

Holds(name, w, n, d) ==
  LET x == Signed(w, n)
      y == Signed(w, d)
  IN \/ name \in {"eq", "le_s", "ge_s", "le_u", "ge_u"} /\ n = d
     \/ name \in {"ne", "lt_u", "le_u"} /\ n < d
     \/ name \in {"ne", "gt_u", "ge_u"} /\ n > d
     \/ name \in {"lt_s", "le_s"} /\ x < y
     \/ name \in {"gt_s", "ge_s"} /\ x > y

-----------------------------------------------------------------------------
(* Floats: on a line on which -0 is below +0, the two infinities are ends  *)
(* and a NaN is nowhere.                                                   *)

Far == 2^(3 * WordBits)
Place(f) ==
  LET distance == IF is_infinite(f) THEN Far ELSE 2 * f.mag + 1
  IN IF f.neg THEN -distance ELSE distance
SameNumber(f, g) == f = g \/ (is_zero(f) /\ is_zero(g))
FloatHolds(name, f, g) ==
  IF is_nan(f) \/ is_nan(g) THEN name = "ne"
  ELSE IF SameNumber(f, g) THEN name \in {"eq", "le", "ge"}
  ELSE IF Place(f) < Place(g) THEN name \in {"ne", "lt", "le"} ELSE name \in {"ne", "gt", "ge"}

Extreme(name, f, g) ==
  IF is_nan(f) \/ is_nan(g) THEN NaN
  ELSE CASE name = "min" -> IF Place(f) <= Place(g) THEN f ELSE g
         [] name = "max" -> IF Place(f) <= Place(g) THEN g ELSE f

(* The integral value of the same sign closest to f that satisfies ok. *)
Integral(f, ok(_)) ==
  IF f.class = "finite"
  THEN LET near == {m \in {f.mag - 1, f.mag, f.mag + 1} \cap Nat : m % 2 = 0 /\ ok(m)}
       IN Finite(f.neg, CHOOSE m \in near :
            \A k \in near : Absolute(m - f.mag) <= Absolute(k - f.mag))
  ELSE IF is_nan(f) THEN NaN ELSE f
FloatFunction(name, f) ==
  CASE name = "abs" -> Float(f.class, FALSE, f.mag)
    [] name = "neg" -> Float(f.class, ~f.neg, f.mag)
    [] name = "trunc" -> Integral(f, LAMBDA m : m <= f.mag)
    [] name = "ceil" -> Integral(f, LAMBDA m : IF f.neg THEN m <= f.mag ELSE m >= f.mag)
    [] name = "floor" -> Integral(f, LAMBDA m : IF f.neg THEN m >= f.mag ELSE m <= f.mag)
    [] name = "nearest" -> Integral(f, LAMBDA m : f.mag % 2 = 0 \/ m % 4 = 0)
    [] OTHER -> Unspecified

(* The integer part of f, when there is one. *)
IntegerPart(f) == IF f.neg THEN -(f.mag \div 2) ELSE f.mag \div 2

(* trunc_u and trunc_s are undefined outside the range of the result; for  *)
(* a value that is not finite the code chooses the reason.                 *)
Truncation(ty, signed, f) ==
  IF is_nan(f) THEN Undefined("BadConversionToInteger")
  ELSE IF is_infinite(f) \/ ~InRange(Width(ty), signed, IntegerPart(f))
  THEN Undefined("UnrepresentableResult")
  ELSE Defined(IntValue(ty, IntegerPart(f) % 2^Width(ty)))
Saturation(ty, signed, f) ==
  LET w == Width(ty)
      hi == IF signed THEN 2^(w - 1) - 1 ELSE 2^w - 1
      lo == IF signed THEN 2^(w - 1) ELSE 0
  IN CASE is_nan(f) -> IntValue(ty, 0)
       [] ~is_nan(f) /\ ~is_infinite(f) /\ InRange(w, signed, IntegerPart(f)) ->
            IntValue(ty, IntegerPart(f) % 2^w)
       [] OTHER -> IntValue(ty, IF f.neg THEN lo ELSE hi)

-----------------------------------------------------------------------------
(* An instruction applied to its operands. *)

Apply(i, args) ==
  LET v == args[1]
      u == args[Len(args)]
      w == Width(i.ty)
      n == IntOf(v)
      d == IntOf(u)
      f == FloatOf(v)
      g == FloatOf(u)
  IN CASE i \in IntTests -> Defined(IntValue(I32, Flag(n = 0)))
       [] i \in IntComparisons -> Defined(IntValue(I32, Flag(Holds(i.name, w, n, d))))
       [] i \in FloatComparisons -> Defined(IntValue(I32, Flag(FloatHolds(i.name, f, g))))
       [] i \in IntBinary /\ i.name \in {"div_s", "div_u", "rem_s", "rem_u"} ->
            Division(i.name, i.ty, n, d)
       [] \/ i \in IntUnary
          \/ i \in IntBinary /\ i.name \notin {"div_s", "div_u", "rem_s", "rem_u"} ->
            Defined(IntValue(i.ty, IntFunction(i.name, w, n, d)))
       [] i \in SignExtensions ->
            Defined(IntValue(i.ty, Extended(CASE i.name = "extend8_s" -> ByteBits
                                              [] i.name = "extend16_s" -> HalfBits
                                              [] i.name = "extend32_s" -> WordBits, w, n)))
       [] i \in FloatUnary -> Defined(FloatValue(i.ty, FloatFunction(i.name, f)))
       [] i \in FloatBinary /\ i.name \in {"min", "max"} ->
            Defined(FloatValue(i.ty, Extreme(i.name, f, g)))
       [] i \in FloatBinary /\ i.name \notin {"min", "max"} ->
            Defined(FloatValue(i.ty, IF i.name = "copysign" THEN Float(f.class, g.neg, f.mag)
                                     ELSE Unspecified))
       [] i \in Reinterpretations -> Defined(Value(i.ty, v.words))
       [] i \in Saturating -> Defined(Saturation(i.ty, i.name = "trunc_sat_s", f))
       [] i.name \in {"trunc_s", "trunc_u"} ->
            Truncation(i.ty, i.name = "trunc_s", f)
       [] i.name = "wrap" -> Defined(IntValue(I32, n % 2^WordBits))
       [] i.name = "extend_u" -> Defined(IntValue(I64, n))
       [] i.name = "extend_s" -> Defined(IntValue(I64, Extended(WordBits, w, n)))
       [] i.name \in {"convert_s", "convert_u"} ->
            Defined(FloatValue(i.ty,
              ToFloat(i.ty, IF i.name = "convert_s" THEN Signed(Width(i.from), n) ELSE n)))
       [] i.name \in {"demote", "promote"} -> Defined(FloatValue(i.ty, Cast(f, i.ty)))
=============================================================================
