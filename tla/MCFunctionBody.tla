--------------------------- MODULE MCFunctionBody ---------------------------
(***************************************************************************)
(* Words of 8 bits, LEB128 groups of 7 (an i32 takes up to two bytes and   *)
(* an i64 three, the last one padded), IR words of 4 bits with immediates  *)
(* of 2, and floats of 5 and 11 bits.  The groups and the floats are those *)
(* around the ends of the ranges.                                          *)
(***************************************************************************)
EXTENDS FunctionBody

Signs(mags) == {Finite(neg, mag) : neg \in BOOLEAN, mag \in mags}
Special == {Float("nan", neg, 0) : neg \in BOOLEAN} \cup {Inf(neg) : neg \in BOOLEAN}
(* In halves: below, at and above 1/2, 1, 2^7, 2^8, 2^15 and 2^16. *)
AllFloats ==
  Special \cup Signs({0, 1, 2, 3, 5, 248, 254, 255, 256, 257, 258, 260, 272, 496, 510, 511, 512,
                      514, 544, 63488, 65504, 65536, 65600, 69632, 126976, 131008, 131072, 131200})
FewFloats == Special \cup Signs({0, 2, 3})

ASSUME \A f \in AllFloats : is_nan(f) \/ is_infinite(f) \/ Represents(F64, f)

Obj(ty, mutable, refuses, value) ==
  [ty |-> ty, mutable |-> mutable, refuses |-> refuses, words |-> value]

Case(visitor, params, locals, refs, objects, plain, immediates, floats, groups, results, instructions, bytes) ==
  [given |-> [visitor |-> visitor, params |-> params, locals |-> locals, refs |-> refs,
              objects |-> objects],
   plain |-> plain, immediates |-> immediates, floats |-> floats, groups |-> groups, results |-> results,
   instructions |-> instructions, bytes |-> bytes]
NoObjects == [r \in {} |-> {}]

AnyResult == {<<>>} \cup {<<ty>> : ty \in ValType}
OnIntegers == {i \in Numeric : {i.ty, i.from} \subseteq IntTypes}
OnTwoFloats == FloatComparisons \cup FloatBinary
OnFloat == {i \in Numeric : {i.ty, i.from} \cap FloatTypes # {}} \ OnTwoFloats

(* Integer instructions on constants, four bytes of constants in all. *)
Integer ==
  Case("function", <<>>, <<>>, <<>>, NoObjects, OnIntegers, {"i32_const", "i64_const"},
       {}, {0, 1, 126, 127}, {<<I32>>, <<I64>>}, 3, 4)

(* Instructions on one float and conversions from one; on two floats. *)
OneFloat ==
  Case("function", <<>>, <<>>, <<>>, NoObjects, OnFloat, {"f32_const", "f64_const", "fc"},
       AllFloats, 0..7, AnyResult, 2, 2)
TwoFloats ==
  Case("function", <<>>, <<>>, <<>>, NoObjects, OnTwoFloats, {"f32_const", "f64_const"},
       FewFloats, {}, {<<I32>>, <<F32>>, <<F64>>}, 3, 0)

(* Conversions of integers to floats. *)
Converting ==
  Case("function", <<>>, <<>>, <<>>, NoObjects, {i \in OnFloat : i.from \in IntTypes},
       {"i32_const", "i64_const"}, {}, {0, 1, 31, 32, 33, 64, 126, 127}, AnyResult, 2, 3)

Framed(params, locals) ==
  Case("function", params, locals, <<>>, NoObjects, {},
       {"i32_const", "i64_const", "local_get", "local_set", "local_tee"},
       {}, {0, 1, 2, 3, 4}, {<<>>, <<I32>>, <<I64>>}, 3, 3)

Locals(n, ty) == [n |-> n, ty |-> ty]
AllRefs ==
  <<Ref("Host", 0, 1), Ref("Extern", 0, 0), Ref("Extern", 0, 1), Ref("Host", 0, 0)>>
    \o [k \in 1..5 |-> Ref("Module", 0, k - 1)]
AllObjects ==
  LET all == {AllRefs[k] : k \in 1..Len(AllRefs)}
      ty(r) == IF r.index % 2 = 0 THEN I32 ELSE I64
  IN [r \in all |->
        Obj(ty(r), r.where = "Module" \/ r.index = 0, r.where = "Host" /\ r.index = 0,
            WordsOfInt(ty(r), r.index + 2 + Len(r.where)))]

Global(visitor, n) ==
  Case(visitor, <<>>, <<>>, AllRefs, AllObjects,
       IF visitor = "constant" THEN {Ins("add", I32, I32), Plain("nop")} ELSE {},
       {"i32_const", "i64_const", "global_get"}
         \cup (IF visitor = "constant" THEN {} ELSE {"global_set"}),
       {}, 0..7, {<<>>, <<I32>>, <<I64>>}, n, 3)

Bodies ==
  [integer |-> Integer, one_float |-> OneFloat, two_floats |-> TwoFloats,
   converting |-> Converting,
   globals |-> Global("function", 3), constant |-> Global("constant", 2),
   two_params |-> Framed(<<I64, I32>>, <<Locals(1, I32), Locals(1, I64)>>),
   one_param |-> Framed(<<I32>>, <<Locals(2, I64)>>),
   many |-> Framed(<<I32, I32, I32, I32>>, <<Locals(10, I32), Locals(2, I32)>>)]
MCCases == Bodies
=============================================================================
