------------------------------ MODULE Numbers ------------------------------
(***************************************************************************)
(* The numbers of WebAssembly at reduced widths: what Rust's integer and   *)
(* floating-point primitives compute, and the LEB128 decoders of `Reader`  *)
(* (src/reader.rs).                                                        *)
(*                                                                         *)
(* An integer is the unsigned value of its bits.  A float is a class, a    *)
(* sign and a magnitude in halves, so that values between two integers     *)
(* exist; f32 has Significand32 bits of precision and f64 Significand64,   *)
(* and neither runs out of exponents.                                      *)
(***************************************************************************)
EXTENDS Integers, Sequences

CONSTANTS
  WordBits,       \* 32: bits of a word of the operand stack
  HalfBits,       \* 16
  ByteBits,       \* 8
  GroupBits,      \* 7: bits of an integer in one byte of LEB128
  Significand32,  \* 24
  Significand64   \* 53

ASSUME NumbersAssumption ==
  /\ {WordBits, HalfBits, ByteBits, GroupBits, Significand32, Significand64} \subseteq Nat \ {0}
  /\ ByteBits < HalfBits /\ HalfBits < WordBits /\ GroupBits < WordBits
  \* so that a count modulo 2^32 is also one modulo 32 and 64
  /\ \E k \in 1..WordBits : WordBits = 2^k
  \* as 24 < 32 + 1 < 53 < 64
  /\ Significand32 <= WordBits /\ WordBits + 1 < Significand64 /\ Significand64 <= 2 * WordBits

I32 == "i32"
I64 == "i64"
F32 == "f32"
F64 == "f64"
ValType == {I32, I64, F32, F64}
Width(ty) == IF ty \in {I32, F32} THEN WordBits ELSE 2 * WordBits
(* ValType::size, in words *)
Size(ty) == Width(ty) \div WordBits

-----------------------------------------------------------------------------
(* Integers of w bits *)

Wrapped(w, n) == n % 2^w

Signed(w, n) == IF n >= 2^(w - 1) THEN n - 2^w ELSE n
MIN(w) == -(2^(w - 1))
Bit(n, i) == (n \div 2^i) % 2
FromBits(w, bit(_)) ==
  LET upto[i \in 0..w] == IF i = 0 THEN 0 ELSE upto[i - 1] + bit(i - 1) * 2^(i - 1)
  IN upto[w]
Absolute(x) == IF x < 0 THEN -x ELSE x
(* `/` and `%` of Rust round towards zero. *)
Quotient(x, y) == LET q == Absolute(x) \div Absolute(y) IN IF (x < 0) = (y < 0) THEN q ELSE -q
Remainder(x, y) == x - y * Quotient(x, y)
count_ones(w, n) ==
  LET upto[i \in 0..w] == IF i = 0 THEN 0 ELSE upto[i - 1] + Bit(n, i - 1) IN upto[w]
leading_zeros(w, n) == CHOOSE k \in 0..w : n < 2^(w - k) /\ (k < w => n >= 2^(w - k - 1))
trailing_zeros(w, n) == CHOOSE k \in 0..w : n % 2^k = 0 /\ (k < w => n % 2^(k + 1) # 0)
(* `n as iK as iW`: keep the low k bits and copy their sign. *)
SignExtend(k, w, n) == Wrapped(w, Signed(k, n % 2^k))

-----------------------------------------------------------------------------
(* read_u32, read_i32 and read_i64, one byte at a time: the bytes before,  *)
(* the bits collected, and the next byte, whose continuation bit is more.  *)

LastByte(w) == (w - 1) \div GroupBits
Collected(w, n, result, group) == Wrapped(w, result + group * 2^(GroupBits * n))
(* The bits of the last byte from the sign bit up (SIGN and PADDING), or   *)
(* only those beyond the width for an unsigned integer.                    *)
Padding(w, signed) ==
  (w - GroupBits * LastByte(w) - (IF signed THEN 1 ELSE 0))..(GroupBits - 1)
PaddingIgnored(w, signed, group) == TRUE                            \* mutant

PaddingFits(w, signed, group) ==
  \/ \A i \in Padding(w, signed) : Bit(group, i) = 0
  \/ signed /\ \A i \in Padding(w, signed) : Bit(group, i) = 1

(* "more", or the integer read, or the error MalformedInteger *)
ReadByte(w, signed, n, result, group, more) ==
  LET bits == Collected(w, n, result, group)
      read == GroupBits * (n + 1)
  IN CASE n < LastByte(w) /\ more -> [status |-> "more", bits |-> bits]
       [] n < LastByte(w) /\ ~more ->
            [status |-> "read",
             bits |-> IF signed THEN SignExtend(read, w, bits) ELSE bits]
       [] n = LastByte(w) ->
            [status |-> IF more \/ ~PaddingFits(w, signed, group) THEN "MalformedInteger" ELSE "read",
             bits |-> bits]

-----------------------------------------------------------------------------
(* Floats *)

Float(class, neg, mag) == [class |-> class, neg |-> neg, mag |-> mag]
NaN == Float("nan", FALSE, 0)
Inf(neg) == Float("inf", neg, 0)
Finite(neg, mag) == Float("finite", neg, mag)
Zero == Finite(FALSE, 0)
(* What the floating-point unit computes for + - * / and sqrt is not       *)
(* modelled.                                                               *)
Unspecified == Float("some", FALSE, 0)

is_nan(f) == f.class = "nan"
is_infinite(f) == f.class = "inf"
is_zero(f) == f.class = "finite" /\ f.mag = 0
Halves(f) == IF f.neg THEN -f.mag ELSE f.mag
(* The order of numbers: zeros are equal, a NaN is not comparable. *)
Below(f, g) ==
  /\ ~is_nan(f) /\ ~is_nan(g)
  /\ \/ is_infinite(f) /\ f.neg /\ ~(is_infinite(g) /\ g.neg)
     \/ is_infinite(g) /\ ~g.neg /\ ~(is_infinite(f) /\ ~f.neg)
     \/ ~is_infinite(f) /\ ~is_infinite(g) /\ Halves(f) < Halves(g)
Equal(f, g) == ~is_nan(f) /\ ~is_nan(g) /\ ~Below(f, g) /\ ~Below(g, f)

(* The magnitude of p bits nearest to mag, the even one of two: `as f32`   *)
(* and `as f64`.                                                           *)
RoundedTo(p, mag) ==
  LET unit == 2^(CHOOSE e \in 0..mag : mag < 2^(p + e) /\ (e > 0 => mag >= 2^(p + e - 1)))
      q == mag \div unit
      r == 2 * (mag % unit)
  IN unit * (IF r > unit \/ (r = unit /\ q % 2 = 1) THEN q + 1 ELSE q)
Precision(ty) == IF ty = F32 THEN Significand32 ELSE Significand64
ToFloat(ty, x) == Finite(x < 0, RoundedTo(Precision(ty), 2 * Absolute(x)))
Represents(ty, f) == RoundedTo(Precision(ty), f.mag) = f.mag

(* libm: ceil, floor, trunc and rint keep the sign, also of a zero. *)
Rounded(f, up(_)) ==
  IF f.class # "finite" THEN f ELSE Finite(f.neg, 2 * (f.mag \div 2 + (IF up(f) THEN 1 ELSE 0)))
IsHalf(f) == f.mag % 2 = 1
ceil(f) == Rounded(f, LAMBDA g : IsHalf(g) /\ ~g.neg)
floor(f) == Rounded(f, LAMBDA g : IsHalf(g) /\ g.neg)
trunc(f) == Rounded(f, LAMBDA g : FALSE)
rint(f) == Rounded(f, LAMBDA g : IsHalf(g) /\ (g.mag \div 2) % 2 = 1)

(* `f as iN` and `f as uN` of Rust saturate; a NaN becomes 0. *)
Saturated(w, signed, f) ==
  LET lo == IF signed THEN MIN(w) ELSE 0
      hi == IF signed THEN -MIN(w) - 1 ELSE 2^w - 1
      x == Quotient(Halves(f), 2)
  IN Wrapped(w, CASE is_nan(f) -> 0
                  [] is_infinite(f) -> IF f.neg THEN lo ELSE hi
                  [] OTHER -> IF x < lo THEN lo ELSE IF x > hi THEN hi ELSE x)
=============================================================================
