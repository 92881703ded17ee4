-------------------------- MODULE EngineRefinement --------------------------
(***************************************************************************)
(* The linear stack of Engine implements the activations of Activations.   *)
(* Walking the frames from fp through the frame words, as return_ does one *)
(* at a time, finds every live call with its locals and operands.          *)
(***************************************************************************)
EXTENDS Engine

(* The frame that k returns lead to from the one at top, in the stack s;   *)
(* the outermost frame, whose return address is Sentinel, leads nowhere.   *)
Outermost(s, base) == s[base + 1].pc = Sentinel
Base(s, top) ==
  LET base[k \in Nat] ==
        IF k = 0 THEN top
        ELSE LET above == base[k - 1]
             IN IF Outermost(s, above) THEN above ELSE above - s[above].length
  IN base

(* The live calls: no frame is shorter than its two words. *)
Depth(s, base) ==
  CHOOSE d \in 1..StackLen : /\ Outermost(s, base[d - 1])
                             /\ \A k \in 1..(d - 1) : ~Outermost(s, base[k - 1])

Data(s, lo, hi) == [i \in 1..(hi - lo) |-> s[lo + i - 1].value]

(* The call of the function of p, at the instruction p, whose frame is at  *)
(* base and whose operands end below end.                                  *)
ActivationAt(s, base, p, end) ==
  [fn |-> p[1], at |-> p[2],
   locals |-> Data(s, base - s[base].params, base)
                \o Data(s, base + 2, base + 2 + LocalWords[p[1]]),
   operands |-> Data(s, Operands(base, p[1]), end)]

(* A caller stands at its call instruction, its operands end where the     *)
(* parameters of the callee begin.                                         *)
Walk(s, top, p, end) ==
  LET base == Base(s, top)
      depth == Depth(s, base)
      Kth(k) == IF k = 0 THEN ActivationAt(s, top, p, end)
                ELSE LET above == base[k - 1]
                     IN ActivationAt(s, base[k], s[above + 1].pc,
                                     above - s[above].params)
  IN [i \in 1..depth |-> Kth(depth - i)]

LiveActivations == IF Idle THEN <<>> ELSE Walk(stack, fp, pc, sp)

(* A result is never mistaken for the absence of one. *)
ASSUME RefinementAssumption == \A n \in 0..2 : None \notin [1..n -> Word]

Abstract == INSTANCE Activations WITH
  Offsets <- 0..(CodeWords - 1),
  acts <- LiveActivations,
  waiting <- pause,
  answer <- IF result = None THEN None
            ELSE [i \in DOMAIN result |-> result[i].value]

(* Frames, locals and operands packed in one array behave as separate       *)
(* activations: a callee never touches its callers' words, a return finds   *)
(* the caller's frame, its operands and the instruction after the call, and *)
(* the guest makes no step while a host answer is pending.                  *)
ImplementsActivations == Abstract!Spec
=============================================================================
