---------------------------- MODULE EngineProofs ----------------------------
(***************************************************************************)
(* The safety of Engine for every set of modules and functions and every   *)
(* stack size, when the embedder answers a pause before it runs again      *)
(* (ResumeFirst).  The argument: the words of the stack always hold a      *)
(* chain of frames (Frames below), one for each live call, that no         *)
(* instruction but a call or a return can disturb.  From the same chain:   *)
(* the walk of EngineRefinement finds the live calls, each step changes    *)
(* them as a step of Activations does, and the engine implements it.       *)
(***************************************************************************)
EXTENDS EngineRefinement, SequenceTheorems, WellFoundedInduction, TLAPS

-----------------------------------------------------------------------------
(* Induction over the natural numbers, with a set for the predicate        *)

(* Every set of numbers that is not empty has a least one.                 *)
LEMMA LeastNumber ==
  ASSUME NEW S \in SUBSET Nat, S # {}
  PROVE  \E x \in S : \A y \in S : x <= y
<1> DEFINE R == {ss \in Nat \X Nat : ss[1] < ss[2]}
<1>1. IsWellFoundedOn(R, Nat)
  BY NatLessThanWellFounded DEF OpToRel
<1>2. \A x, y \in Nat : <<y, x>> \notin R => x <= y
  OBVIOUS
<1> HIDE DEF R
<1>3. PICK x \in S : \A y \in S : <<y, x>> \notin R
  BY <1>1, WFMin
<1>4. \A y \in S : x <= y
  BY <1>2, <1>3, S \subseteq Nat, Zenon
<1> QED BY <1>4

(* A set that has 0 and, with each number, the next one has them all.      *)
LEMMA SetInduction ==
  ASSUME NEW S, 0 \in S, \A n \in Nat : n \in S => n + 1 \in S
  PROVE  Nat \subseteq S
<1> SUFFICES ASSUME Nat \ S # {} PROVE FALSE
  OBVIOUS
<1>1. PICK x \in Nat \ S : \A y \in Nat \ S : x <= y
  BY LeastNumber
<1>2. x # 0 /\ x - 1 \in Nat /\ ~(x <= x - 1)
  BY <1>1
<1>3. x - 1 \in S
  BY <1>1, <1>2
<1> QED BY <1>1, <1>2, <1>3

-----------------------------------------------------------------------------
(* The chain of frames                                                     *)

(* Frame i of a chain of n: its words lie where the calls put them and      *)
(* lead back to frame i - 1, its locals and operands fit in the stack, and  *)
(* its result fits where its arguments were.                                *)
FrameWord(i, base, fn) ==
  /\ stack[base[i]].params = ParamWords[fn[i]]
  /\ i = 1 => /\ base[i] = ParamWords[fn[i]]
              /\ stack[base[i]].length = base[i]
              /\ stack[base[i]].delta = 0
              /\ stack[base[i] + 1].pc = Sentinel
  /\ i > 1 => /\ stack[base[i]].length = base[i] - base[i - 1]
              /\ stack[base[i]].delta
                   = ModuleDelta(ModuleOf[fn[i - 1]], ModuleOf[fn[i]])
              /\ stack[base[i] + 1].pc \in Funcs \X (0..(CodeWords - 1))
              /\ stack[base[i] + 1].pc[1] = fn[i - 1]
              /\ stack[base[i] + 1].pc[2] + 2 < CodeWords

FramePlace(i, base, fn) ==
  /\ Operands(base[i], fn[i]) + StackUsage[fn[i]] <= StackLen
  /\ i > 1 => base[i] - ParamWords[fn[i]] + ResultWords[fn[i]]
                <= Operands(base[i - 1], fn[i - 1]) + StackUsage[fn[i - 1]]
  /\ \A j \in 1..(i - 1) :
        Operands(base[j], fn[j]) <= base[i] - ParamWords[fn[i]]

(* The engine's registers point at the last frame of the chain. *)
Registers(n, base, fn) ==
  /\ n = 0 => pc = Sentinel /\ sp = 0 /\ fp = 0
  /\ n > 0 => /\ pc # Sentinel /\ Current = fn[n] /\ fp = base[n]
              /\ Operands(fp, Current) <= sp
              /\ sp <= Operands(fp, Current) + StackUsage[Current]
              /\ module = ModuleOf[Current]
              /\ memory = MemoryOf[module]
              /\ table = TableOf[module]

Frames(n, base, fn) ==
  /\ Registers(n, base, fn)
  /\ \A i \in 1..n : FrameWord(i, base, fn) /\ FramePlace(i, base, fn)

Chain(n, base, fn) ==
  /\ n \in Nat /\ base \in [1..n -> Nat] /\ fn \in [1..n -> Funcs]
  /\ Frames(n, base, fn)

Framed == \E n, base, fn : Chain(n, base, fn)

(* A run executes a live, unpaused call; a pause leaves room for its value. *)
Runs ==
  /\ fuel > 0 => ~Idle /\ pause = None
  /\ PauseHasRoom
  /\ NoPanic

IInv == TypeOK /\ Framed /\ Runs

-----------------------------------------------------------------------------
(* Arithmetic of the module delta *)

(* The delta a frame stores as an i8 leads return_ back to the caller's     *)
(* module, whatever the two 8-bit indices are (wrapping_sub both ways), and *)
(* is 0, "same module", only when they are equal.                           *)
LEMMA DeltaRestores ==
  ASSUME NEW a \in 0..255, NEW b \in 0..255
  PROVE  /\ ModuleDelta(a, b) \in -128..127
         /\ (ModuleDelta(a, b) = 0) <=> (a = b)
         /\ wrapping_sub(b, AsU8(ModuleDelta(a, b))) = a
<1> USE DEF ModuleDelta, wrapping_sub
<1>1. CASE a <= b
  <2>1. (b - a) % 256 = b - a
    BY <1>1
  <2>2. CASE b - a > 127
    <3>1. AsI8((b - a) % 256) = b - a - 256
      BY <2>1, <2>2 DEF AsI8
    <3>2. AsU8(b - a - 256) = b - a
      BY <1>1, <2>2 DEF AsU8
    <3> QED BY <3>1, <3>2, <2>2
  <2>3. CASE ~(b - a > 127)
    <3>1. AsI8((b - a) % 256) = b - a
      BY <2>1, <2>3 DEF AsI8
    <3>2. AsU8(b - a) = b - a
      BY <1>1, <2>3 DEF AsU8
    <3> QED BY <3>1, <3>2, <2>3, <1>1
  <2> QED BY <2>2, <2>3
<1>2. CASE ~(a <= b)
  <2>1. (b - a) % 256 = b - a + 256
    BY <1>2
  <2>2. CASE b - a + 256 > 127
    <3>1. AsI8((b - a) % 256) = b - a
      BY <2>1, <2>2 DEF AsI8
    <3>2. AsU8(b - a) = b - a + 256
      BY <1>2, <2>2 DEF AsU8
    <3>3. (b - (b - a + 256)) % 256 = a
      OBVIOUS
    <3> QED BY <3>1, <3>2, <3>3, <1>2, <2>2
  <2>3. CASE ~(b - a + 256 > 127)
    <3>1. AsI8((b - a) % 256) = b - a + 256
      BY <2>1, <2>3 DEF AsI8
    <3>2. AsU8(b - a + 256) = b - a + 256
      BY <1>2, <2>3 DEF AsU8
    <3>3. (b - (b - a + 256)) % 256 = a
      OBVIOUS
    <3> QED BY <3>1, <3>2, <3>3, <1>2, <2>3
  <2> QED BY <2>2, <2>3
<1> QED BY <1>1, <1>2

-----------------------------------------------------------------------------
(* Writes to the stack *)

(* The length of a tuple. *)
LEMMA LengthOfWords ==
  ASSUME NEW S, NEW k \in Nat, NEW ws \in [1..k -> S]
  PROVE  Len(ws) = k
<1>1. ws \in Seq(S)
  BY SeqDef
<1> QED BY <1>1, LenProperties

(* A write of k words at lo stores words and leaves all others alone. *)
LEMMA StoreWords ==
  ASSUME NEW s \in [Addr -> Word], NEW lo \in Int, NEW k \in Nat,
         NEW ws \in [1..k -> Word]
  PROVE  /\ Store(s, lo, ws) \in [Addr -> Word]
         /\ \A a \in Addr : ~(lo <= a /\ a < lo + k)
                              => Store(s, lo, ws)[a] = s[a]
         /\ \A a \in Addr : lo <= a /\ a < lo + k
                              => Store(s, lo, ws)[a] = ws[a - lo + 1]
<1>1. Len(ws) = k
  BY LengthOfWords
<1>2. \A a \in Addr : lo <= a /\ a < lo + k => a - lo + 1 \in 1..k
  BY EngineAssumption DEF Addr
<1> QED BY <1>1, <1>2 DEF Store

(* The k words below top are words. *)
LEMMA TopWords ==
  ASSUME NEW s \in [Addr -> Word], NEW top \in Nat, NEW k \in Nat,
         k <= top, top <= StackLen
  PROVE  Top(s, top, k) \in [1..k -> Word]
BY EngineAssumption DEF Top, Addr

(* Words that hold values are words of the stack. *)
LEMMA ValuesAreWords ==
  ASSUME NEW k, NEW ws \in Words(k)
  PROVE  ws \in [1..k -> Word]
BY DEF Words, Word, Val

-----------------------------------------------------------------------------
(* Steps within a frame *)

(* Every frame word of the chain is in the stack, below the operands of    *)
(* the executing function and apart from its parameters and locals.        *)
LEMMA FrameAddresses ==
  ASSUME TypeOK, NEW n \in Nat, NEW base \in [1..n -> Nat],
         NEW fn \in [1..n -> Funcs], Frames(n, base, fn), NEW i \in 1..n
  PROVE  /\ base[i] \in Addr /\ base[i] + 1 \in Addr
         /\ base[i] + 1 < Operands(fp, Current)
         /\ i = n \/ base[i] + 1 < fp - ParamWords[Current]
         /\ ParamWords[Current] <= fp
<1>1. n > 0 /\ Current = fn[n] /\ fp = base[n] /\ fn[n] \in Funcs
  BY DEF Frames, Registers
<1>2. /\ LocalWords[fn[i]] \in Nat /\ StackUsage[fn[i]] \in Nat
      /\ LocalWords[fn[n]] \in Nat /\ ParamWords[fn[n]] \in Nat
  BY <1>1, EngineAssumption DEF WordCount
<1>3. base[i] + 2 + LocalWords[fn[i]] + StackUsage[fn[i]] <= StackLen
  BY DEF Frames, FramePlace, Operands
<1>4. i = n \/ base[i] + 2 + LocalWords[fn[i]] <= base[n] - ParamWords[fn[n]]
  <2>1. CASE i # n
    <3>1. i \in 1..(n - 1) /\ n \in 1..n
      BY <2>1
    <3> QED BY <3>1 DEF Frames, FramePlace, Operands
  <2> QED BY <2>1
<1>5. ParamWords[fn[n]] <= base[n]
  <2>1. CASE n = 1
    BY <2>1 DEF Frames, FrameWord
  <2>2. CASE n > 1
    <3>1. /\ 1 \in 1..(n - 1) /\ n \in 1..n
      BY <2>2
    <3>2. base[1] + 2 + LocalWords[fn[1]] <= base[n] - ParamWords[fn[n]]
      BY <3>1 DEF Frames, FramePlace, Operands
    <3>3. base[1] \in Nat /\ LocalWords[fn[1]] \in Nat
      BY <2>2, EngineAssumption DEF WordCount
    <3> QED BY <3>2, <3>3, <1>2
  <2> QED BY <2>1, <2>2, <1>1
<1>6. Operands(fp, Current) = base[n] + 2 + LocalWords[fn[n]]
  BY <1>1 DEF Operands
<1>7. base[i] \in Nat /\ base[n] \in Nat /\ StackLen \in Nat
  BY <1>1, EngineAssumption
<1>8. base[i] \in Addr /\ base[i] + 1 \in Addr
  <2>1. base[i] + 2 <= StackLen
    BY <1>2, <1>3, <1>7
  <2> QED BY <2>1, <1>7 DEF Addr
<1>9. i = n \/ base[i] + 1 < base[n] - ParamWords[fn[n]]
  BY <1>2, <1>4, <1>7, SMTT(30)
<1>10. base[i] + 1 < Operands(fp, Current)
  <2>1. CASE i = n
    BY <2>1, <1>2, <1>6, <1>7
  <2>2. CASE i # n
    BY <2>2, <1>2, <1>6, <1>7, <1>9
  <2> QED BY <2>1, <2>2
<1> QED BY <1>1, <1>5, <1>8, <1>9, <1>10

(* A step that keeps the executing function, its context and the frame     *)
(* words, and leaves sp among the operands, keeps the chain.               *)
LEMMA FramesKept ==
  ASSUME TypeOK, NEW n \in Nat \ {0}, NEW base \in [1..n -> Nat],
         NEW fn \in [1..n -> Funcs], Frames(n, base, fn),
         pc' # Sentinel, Current' = Current, fp' = fp, UNCHANGED context,
         Operands(fp, Current) <= sp',
         sp' <= Operands(fp, Current) + StackUsage[Current],
         \A i \in 1..n : /\ stack'[base[i]] = stack[base[i]]
                         /\ stack'[base[i] + 1] = stack[base[i] + 1]
  PROVE  Frames(n, base, fn)'
<1>1. Registers(n, base, fn)'
  BY DEF Frames, Registers, Operands, Current, context
<1>2. ASSUME NEW i \in 1..n
      PROVE  FrameWord(i, base, fn)' /\ FramePlace(i, base, fn)'
  <2>1. FrameWord(i, base, fn) /\ FramePlace(i, base, fn)
    BY DEF Frames
  <2>2. stack'[base[i]] = stack[base[i]] /\ stack'[base[i] + 1] = stack[base[i] + 1]
    OBVIOUS
  <2>3. FrameWord(i, base, fn)'
    BY <2>1, <2>2 DEF FrameWord
  <2>4. FramePlace(i, base, fn)'
    BY <2>1 DEF FramePlace, Operands
  <2> QED BY <2>3, <2>4
<1> QED BY <1>1, <1>2 DEF Frames

(* What the types say of the executing function. *)
LEMMA CurrentFacts ==
  ASSUME TypeOK, ~Idle
  PROVE  /\ Current \in Funcs /\ pc[2] \in 0..(CodeWords - 1)
         /\ ParamWords[Current] \in Nat /\ LocalWords[Current] \in Nat
         /\ StackUsage[Current] \in Nat /\ ResultWords[Current] \in 0..2
         /\ Operands(fp, Current) \in Nat /\ Height \in Int
BY EngineAssumption, SMTT(30) DEF TypeOK, Idle, Current, Operands, Height, WordCount

(* What the chain says of the registers. *)
LEMMA RegisterFacts ==
  ASSUME TypeOK, Framed
  PROVE  StackInBounds /\ ContextMatchesCode /\ IdleIsClean
<1> PICK n, base, fn : Chain(n, base, fn)
  BY DEF Framed
<1>1. /\ n \in Nat /\ base \in [1..n -> Nat] /\ fn \in [1..n -> Funcs]
      /\ Frames(n, base, fn)
  BY DEF Chain
<1>2. CASE n = 0
  BY <1>1, <1>2 DEF Frames, Registers, StackInBounds, ContextMatchesCode,
                    IdleIsClean, Idle
<1>3. CASE n > 0
  <2>1. /\ ~Idle /\ n \in 1..n
        /\ Operands(fp, Current) + StackUsage[Current] <= StackLen
    BY <1>1, <1>3 DEF Frames, Registers, FramePlace, Idle
  <2> QED
    BY <1>1, <1>3, <2>1
    DEF Frames, Registers, StackInBounds, ContextMatchesCode, IdleIsClean
<1> QED BY <1>1, <1>2, <1>3

(* A write that misses the frame words: among the operands, or within the  *)
(* parameters or the locals of the executing function.                     *)
Misses(lo, k) ==
  \/ Operands(fp, Current) <= lo
  \/ fp + 2 <= lo /\ lo + k <= Operands(fp, Current)
  \/ fp - ParamWords[Current] <= lo /\ lo + k <= fp

(* The step leaves the chain of calls as it is. *)
KeepsChain ==
  \A n, base, fn : Chain(n, base, fn) => Chain(n, base, fn)'

(* An instruction that writes k such words and stays in its body keeps the *)
(* chain.                                                                  *)
LEMMA StaysInFrame ==
  ASSUME TypeOK, ~Idle, NEW n, NEW base, NEW fn, Chain(n, base, fn),
         NEW lo \in Int, NEW k \in Nat, NEW ws \in [1..k -> Word],
         Misses(lo, k), stack' = Store(stack, lo, ws),
         pc' # Sentinel, Current' = Current, fp' = fp, UNCHANGED context,
         Operands(fp, Current) <= sp',
         sp' <= Operands(fp, Current) + StackUsage[Current]
  PROVE  stack' \in [Addr -> Word] /\ Chain(n, base, fn)'
<1>1. /\ n \in Nat /\ base \in [1..n -> Nat] /\ fn \in [1..n -> Funcs]
      /\ Frames(n, base, fn)
  BY DEF Chain
<1>2. n \in Nat \ {0} /\ fp = base[n] /\ n \in 1..n
  BY <1>1 DEF Frames, Registers, Idle
<1>3. stack \in [Addr -> Word]
  BY DEF TypeOK
<1>4. ASSUME NEW i \in 1..n
      PROVE  /\ stack'[base[i]] = stack[base[i]]
             /\ stack'[base[i] + 1] = stack[base[i] + 1]
  <2>1. /\ base[i] \in Addr /\ base[i] + 1 \in Addr
        /\ base[i] + 1 < Operands(fp, Current)
        /\ i = n \/ base[i] + 1 < fp - ParamWords[Current]
    BY <1>1, FrameAddresses
  <2>2. /\ base[i] \in Nat /\ fp \in Nat /\ Operands(fp, Current) \in Nat
        /\ ParamWords[Current] \in Nat
    BY <1>1, CurrentFacts DEF TypeOK
  <2>3. /\ ~(lo <= base[i] /\ base[i] < lo + k)
        /\ ~(lo <= base[i] + 1 /\ base[i] + 1 < lo + k)
    <3>1. CASE Operands(fp, Current) <= lo
      BY <2>1, <2>2, <3>1
    <3>2. CASE ~(Operands(fp, Current) <= lo) /\ i = n
      BY <2>1, <2>2, <1>2, <3>2 DEF Misses
    <3>3. CASE ~(Operands(fp, Current) <= lo) /\ i # n
      BY <2>1, <2>2, <3>3 DEF Misses
    <3> QED BY <3>1, <3>2, <3>3
  <2> QED BY <2>1, <2>3, <1>3, StoreWords
<1>5. Frames(n, base, fn)'
  BY <1>1, <1>2, <1>4, FramesKept
<1>6. stack' \in [Addr -> Word]
  BY <1>3, StoreWords
<1> QED BY <1>1, <1>5, <1>6 DEF Chain

-----------------------------------------------------------------------------
(* Type facts the actions share *)

(* The registers of a run after an instruction that goes on. *)
LEMMA ContinueFacts ==
  ASSUME TypeOK, fuel > 0, Continue
  PROVE  /\ fuel' \in 0..MaxFuel /\ panicked' = panicked
         /\ outcome' \in {"None", "Running", "Finished", "Trap", "Pause",
                          "OutOfFuel"}
BY EngineAssumption DEF TypeOK, Continue

(* An instruction that falls through stays in its body. *)
LEMMA NextPcFacts ==
  ASSUME TypeOK, ~Idle, NEW n \in Nat, Falls(n)
  PROVE  /\ Next_pc(n) \in Funcs \X (0..(CodeWords - 1))
         /\ Next_pc(n)[1] = Current
BY CurrentFacts, EngineAssumption DEF Falls, Next_pc

(* No instruction lies at the Sentinel. *)
LEMMA TargetsAreNotSentinel ==
  ASSUME NEW p \in Funcs \X (0..(CodeWords - 1))
  PROVE  p # Sentinel
BY EngineAssumption

(* An instruction that goes on in its body and writes only operands or     *)
(* variables of its own frame keeps the invariant.                         *)
LEMMA InstructionKeeps ==
  ASSUME IInv, Executing,
         NEW lo \in Int, NEW k \in Nat, NEW ws \in [1..k -> Word],
         Misses(lo, k), stack' = Store(stack, lo, ws),
         pc' \in Funcs \X (0..(CodeWords - 1)), Current' = Current,
         Operands(fp, Current) <= sp', sp' \in Int,
         sp' <= Operands(fp, Current) + StackUsage[Current],
         Continue, UNCHANGED <<fp, context, result, pause>>
  PROVE  IInv' /\ KeepsChain
<1>1. TypeOK /\ Framed /\ ~Idle /\ fuel > 0 /\ pause = None /\ ~panicked
  BY DEF IInv, Runs, Executing, NoPanic
<1>2. pc' # Sentinel
  BY TargetsAreNotSentinel
<1>7. ASSUME NEW n, NEW base, NEW fn, Chain(n, base, fn)
      PROVE  stack' \in [Addr -> Word] /\ Chain(n, base, fn)'
  BY <1>1, <1>2, <1>7, StaysInFrame
<1>3. stack' \in [Addr -> Word] /\ Framed'
  BY <1>1, <1>7 DEF Framed
<1>4. sp' \in Nat
  BY <1>1, CurrentFacts
<1>5. TypeOK'
  BY <1>1, <1>3, <1>4, ContinueFacts DEF TypeOK, context
<1>6. Runs'
  BY <1>1, <1>2, ContinueFacts DEF Runs, PauseHasRoom, NoPanic, Idle
<1> QED BY <1>3, <1>5, <1>6, <1>7 DEF IInv, KeepsChain

(* The facts every instruction starts from. *)
LEMMA ExecutingFacts ==
  ASSUME IInv, Executing
  PROVE  /\ TypeOK /\ Framed /\ ~Idle /\ fuel > 0 /\ pause = None /\ ~panicked
         /\ StackInBounds /\ ContextMatchesCode
         /\ Current \in Funcs /\ sp \in Nat /\ fp \in Nat
         /\ Operands(fp, Current) \in Nat
         /\ Operands(fp, Current) = fp + 2 + LocalWords[Current]
         /\ Height = sp - Operands(fp, Current) /\ Height \in Nat
         /\ sp <= StackLen
         /\ ParamWords[Current] \in Nat /\ LocalWords[Current] \in Nat
         /\ StackUsage[Current] \in Nat /\ ResultWords[Current] \in 0..2
<1>1. /\ TypeOK /\ Framed /\ ~Idle /\ fuel > 0 /\ pause = None /\ ~panicked
  BY DEF IInv, Runs, Executing, NoPanic
<1>2. StackInBounds /\ ContextMatchesCode
  BY <1>1, RegisterFacts
<1>3. sp \in Nat /\ fp \in Nat
  BY <1>1 DEF TypeOK
<1>4. /\ Operands(fp, Current) <= sp
      /\ sp <= Operands(fp, Current) + StackUsage[Current]
      /\ Operands(fp, Current) + StackUsage[Current] <= StackLen
  BY <1>1, <1>2 DEF StackInBounds
<1>5. /\ Operands(fp, Current) = fp + 2 + LocalWords[Current]
      /\ Height = sp - Operands(fp, Current)
  BY DEF Operands, Height
<1>6. Height \in Nat
  BY <1>1, <1>3, <1>4, <1>5, CurrentFacts
<1>7. sp <= StackLen
  BY <1>1, <1>3, <1>4, CurrentFacts, EngineAssumption
<1> QED BY <1>1, <1>2, <1>3, <1>5, <1>6, <1>7, CurrentFacts

-----------------------------------------------------------------------------
(* The instructions *)

(* A numeric, memory or global instruction keeps the chain of calls. *)
LEMMA OperateKeeps ==
  ASSUME IInv, Executing, NEW p \in 0..Height, NEW q \in 0..2, Operate(p, q)
  PROVE  IInv' /\ KeepsChain
<1>1. PICK ws \in Words(q) : stack' = Store(stack, sp - p, ws)
  BY DEF Operate
<1>2. ws \in [1..q -> Word]
  BY ValuesAreWords
<1>3. /\ sp' = sp - p + q /\ pc' = Next_pc(1) /\ Falls(1) /\ Continue
      /\ UNCHANGED <<fp, context, result, pause>>
      /\ p <= Height /\ Height - p + q <= StackUsage[Current]
  BY DEF Operate, Pops
<1>4. /\ p \in Nat /\ q \in Nat /\ sp - p \in Int
      /\ Operands(fp, Current) <= sp - p
      /\ Operands(fp, Current) <= sp'
      /\ sp' <= Operands(fp, Current) + StackUsage[Current] /\ sp' \in Int
  BY <1>3, ExecutingFacts
<1>5. pc' \in Funcs \X (0..(CodeWords - 1)) /\ Current' = Current
  BY <1>3, ExecutingFacts, NextPcFacts DEF Current
<1>6. Misses(sp - p, q)
  BY <1>4 DEF Misses
<1> QED BY <1>1, <1>2, <1>3, <1>4, <1>5, <1>6, InstructionKeeps

(* A local or a parameter lies inside the stack. *)
LEMMA LocalFacts ==
  ASSUME IInv, Executing, NEW w \in 1..2, NEW a \in LocalAddr(w)
  PROVE  a \in Addr /\ a \in Nat /\ a + w <= StackLen /\ Misses(a, w)
<1>1. /\ a \in Addr /\ a \in Nat
      /\ \/ fp - ParamWords[Current] <= a /\ a + w <= fp
         \/ fp + 2 <= a /\ a + w <= fp + 2 + LocalWords[Current]
  BY EngineAssumption DEF LocalAddr, Addr
<1>2. Operands(fp, Current) <= StackLen
  BY ExecutingFacts, EngineAssumption
<1>3. a + w <= StackLen
  BY <1>1, <1>2, ExecutingFacts, EngineAssumption
<1>4. Misses(a, w)
  BY <1>1, ExecutingFacts DEF Misses
<1> QED BY <1>1, <1>3, <1>4

(* local.get keeps the chain of calls. *)
LEMMA LocalGetKeeps ==
  ASSUME IInv, Executing, NEW w \in 1..2, local_get(w)
  PROVE  IInv' /\ KeepsChain
<1>1. PICK a \in LocalAddr(w) : stack' = Store(stack, sp, Top(stack, a + w, w))
  BY DEF local_get
<1>2. a + w \in Nat /\ w \in Nat /\ w <= a + w /\ a + w <= StackLen
  BY LocalFacts
<1>3. Top(stack, a + w, w) \in [1..w -> Word]
  BY <1>2, ExecutingFacts, TopWords DEF TypeOK
<1>4. /\ sp' = sp + w /\ pc' = Next_pc(2) /\ Falls(2) /\ Continue
      /\ UNCHANGED <<fp, context, result, pause>>
      /\ Height - 0 + w <= StackUsage[Current]
  BY DEF local_get, Pops
<1>5. /\ Operands(fp, Current) <= sp
      /\ Operands(fp, Current) <= sp'
      /\ sp' <= Operands(fp, Current) + StackUsage[Current]
      /\ sp' \in Int /\ sp \in Int /\ w \in Nat
  BY <1>4, ExecutingFacts
<1>6. pc' \in Funcs \X (0..(CodeWords - 1)) /\ Current' = Current
  BY <1>4, ExecutingFacts, NextPcFacts DEF Current
<1>7. Misses(sp, w)
  BY <1>5 DEF Misses
<1> QED BY <1>1, <1>3, <1>4, <1>5, <1>6, <1>7, InstructionKeeps

(* local.set and local.tee keep the chain of calls. *)
LEMMA LocalSetKeeps ==
  ASSUME IInv, Executing, NEW w \in 1..2, NEW keep \in {0, w},
         local_set(w, keep)
  PROVE  IInv' /\ KeepsChain
<1>1. PICK a \in LocalAddr(w) : stack' = Store(stack, a, Top(stack, sp, w))
  BY DEF local_set
<1>2. a \in Int /\ Misses(a, w)
  BY LocalFacts
<1>3. /\ sp' = sp - w + keep /\ pc' = Next_pc(2) /\ Falls(2) /\ Continue
      /\ UNCHANGED <<fp, context, result, pause>>
      /\ w <= Height /\ Height - w + keep <= StackUsage[Current]
  BY DEF local_set, Pops
<1>4. w <= sp /\ w \in Nat
  BY <1>3, ExecutingFacts
<1>5. Top(stack, sp, w) \in [1..w -> Word]
  BY <1>4, ExecutingFacts, TopWords DEF TypeOK
<1>6. /\ Operands(fp, Current) <= sp'
      /\ sp' <= Operands(fp, Current) + StackUsage[Current] /\ sp' \in Int
  BY <1>3, ExecutingFacts
<1>7. pc' \in Funcs \X (0..(CodeWords - 1)) /\ Current' = Current
  BY <1>3, ExecutingFacts, NextPcFacts DEF Current
<1> QED BY <1>1, <1>2, <1>3, <1>4, <1>5, <1>6, <1>7, InstructionKeeps

(* A branch within the body keeps the chain of calls. *)
LEMMA BranchKeeps ==
  ASSUME IInv, Executing, NEW selector \in 0..1, NEW depth \in 0..Height,
         NEW arity \in 0..2, br_impl(selector, depth, arity)
  PROVE  IInv' /\ KeepsChain
<1> DEFINE top == sp - selector
           ws  == Top(stack, top, arity)
<1>1. /\ stack' = Store(stack, top - depth, ws)
      /\ sp' = top - depth + arity
      /\ Continue /\ UNCHANGED <<fp, context, result, pause>>
      /\ selector + depth <= Height /\ arity <= depth
      /\ Height - (selector + depth) + arity <= StackUsage[Current]
  BY DEF br_impl, Pops
<1>2. PICK target \in 0..(CodeWords - 1) : pc' = <<Current, target>>
  BY DEF br_impl
<1>3. /\ top \in Nat /\ arity \in Nat /\ arity <= top /\ top <= StackLen
      /\ top - depth \in Int
      /\ Operands(fp, Current) <= top - depth
      /\ Operands(fp, Current) <= sp'
      /\ sp' <= Operands(fp, Current) + StackUsage[Current] /\ sp' \in Int
  BY <1>1, ExecutingFacts, EngineAssumption
<1>4. ws \in [1..arity -> Word]
  BY <1>3, ExecutingFacts, TopWords DEF TypeOK
<1>5. pc' \in Funcs \X (0..(CodeWords - 1)) /\ Current' = Current
  BY <1>2, ExecutingFacts DEF Current
<1>6. Misses(top - depth, arity)
  BY <1>3 DEF Misses
<1> QED BY <1>1, <1>3, <1>4, <1>5, <1>6, InstructionKeeps

(* A trap leaves the empty chain. *)
LEMMA UnwindKeeps ==
  ASSUME IInv, Executing, Unwind,
         stack' \in [Addr -> Word], module' \in Modules,
         memory' \in {MemoryOf[m] : m \in Modules} \cup {ZeroMemory},
         table' \in {TableOf[m] : m \in Modules} \cup {ZeroTable},
         UNCHANGED <<result, pause>>
  PROVE  IInv'
<1> DEFINE none == [i \in 1..0 |-> 0]
<1>1. /\ pc' = Sentinel /\ sp' = 0 /\ fp' = 0 /\ fuel' = 0 /\ outcome' = "Trap"
      /\ panicked' = panicked /\ result' = result /\ pause' = pause
  BY DEF Unwind, Break
<1>2. none \in [1..0 -> Nat] /\ none \in [1..0 -> Funcs]
  OBVIOUS
<1>3. Frames(0, none, none)'
  BY <1>1 DEF Frames, Registers
<1>4. Framed'
  BY <1>2, <1>3 DEF Framed, Chain
<1>5. TypeOK'
  <2>1. TypeOK /\ 0 \in 0..MaxFuel
    BY ExecutingFacts, EngineAssumption
  <2> QED BY <1>1, <2>1 DEF TypeOK
<1>6. Runs'
  BY <1>1, ExecutingFacts DEF Runs, PauseHasRoom, NoPanic
<1> QED BY <1>4, <1>5, <1>6 DEF IInv

(* A trapping instruction leaves the empty chain. *)
LEMMA InstructionTrapsKeeps ==
  ASSUME IInv, Executing, InstructionTraps
  PROVE  IInv'
BY ExecutingFacts, UnwindKeeps DEF InstructionTraps, context, TypeOK

(* memory.grow keeps the chain of calls, or unwinds it. *)
LEMMA MemoryGrowKeeps ==
  ASSUME IInv, Executing, memory_grow
  PROVE  IInv' /\ (pc' # Sentinel => KeepsChain)
<1>1. module \in Modules /\ stack \in [Addr -> Word]
      /\ table \in {TableOf[m] : m \in Modules} \cup {ZeroTable}
  BY ExecutingFacts DEF TypeOK
<1>2. CASE /\ memory' = MemoryOf[module]
           /\ \E words \in Words(1) : stack' = Store(stack, sp - 1, words)
           /\ pc' = Next_pc(1) /\ Continue /\ UNCHANGED <<sp, fp>>
  <2>1. PICK ws \in Words(1) : stack' = Store(stack, sp - 1, ws)
    BY <1>2
  <2>2. ws \in [1..1 -> Word]
    BY ValuesAreWords
  <2>3. UNCHANGED <<fp, context, result, pause>> /\ Falls(1) /\ 1 <= Height
    BY <1>2, ExecutingFacts DEF memory_grow, context, ContextMatchesCode, Pops
  <2>4. pc' \in Funcs \X (0..(CodeWords - 1)) /\ Current' = Current
    BY <1>2, <2>3, ExecutingFacts, NextPcFacts DEF Current
  <2>5. /\ sp' = sp /\ sp - 1 \in Int /\ sp' \in Int
        /\ Operands(fp, Current) <= sp - 1 /\ Operands(fp, Current) <= sp'
    BY <1>2, <2>3, ExecutingFacts
  <2>6. sp' <= Operands(fp, Current) + StackUsage[Current]
    BY <2>5, ExecutingFacts DEF StackInBounds
  <2>7. Misses(sp - 1, 1)
    BY <2>5 DEF Misses
  <2> QED BY <1>2, <2>1, <2>2, <2>3, <2>4, <2>5, <2>6, <2>7, InstructionKeeps
<1>3. CASE memory' = ZeroMemory /\ Unwind /\ UNCHANGED stack
  BY <1>1, <1>3, UnwindKeeps DEF memory_grow, Unwind
<1> QED BY <1>2, <1>3 DEF memory_grow

(* The words a host function takes and gives. *)
LEMMA HostFacts ==
  ASSUME IInv, Executing, NEW h \in Hosts, NEW index \in 0..1,
         call_host(h, index)
  PROVE  LET top == sp - index - HostParams[h]
         IN /\ top \in Nat /\ Operands(fp, Current) <= top
            /\ HostResult[h] \in 0..2
            /\ top + HostResult[h]
                 <= Operands(fp, Current) + StackUsage[Current]
            /\ Falls(2) /\ UNCHANGED <<fp, context, result>>
<1>1. /\ index + HostParams[h] <= Height
      /\ Height - (index + HostParams[h]) + HostResult[h] <= StackUsage[Current]
      /\ Falls(2) /\ UNCHANGED <<fp, context, result>>
  BY DEF call_host, Pops
<1>2. HostParams[h] \in Nat /\ HostResult[h] \in 0..2
  BY EngineAssumption
<1> QED BY <1>1, <1>2, ExecutingFacts

(* A host call, answered or paused, keeps the chain of calls. *)
LEMMA CallHostKeeps ==
  ASSUME IInv, Executing, NEW h \in Hosts, NEW index \in 0..1,
         call_host(h, index)
  PROVE  IInv' /\ (pc' # Sentinel => KeepsChain)
<1> DEFINE top == sp - index - HostParams[h]
<1>1. /\ top \in Nat /\ Operands(fp, Current) <= top
      /\ HostResult[h] \in 0..2
      /\ top + HostResult[h] <= Operands(fp, Current) + StackUsage[Current]
      /\ Falls(2) /\ UNCHANGED <<fp, context, result>>
  BY HostFacts
<1>2. CASE /\ \E words \in Words(HostResult[h]) : stack' = Store(stack, top, words)
           /\ sp' = top + HostResult[h] /\ pc' = Next_pc(2)
           /\ Continue /\ UNCHANGED pause
  <2>1. PICK ws \in Words(HostResult[h]) : stack' = Store(stack, top, ws)
    BY <1>2
  <2>2. ws \in [1..HostResult[h] -> Word] /\ HostResult[h] \in Nat
    BY <1>1, ValuesAreWords
  <2>3. pc' \in Funcs \X (0..(CodeWords - 1)) /\ Current' = Current
    BY <1>1, <1>2, ExecutingFacts, NextPcFacts DEF Current
  <2>4. Misses(top, HostResult[h])
    BY <1>1 DEF Misses
  <2>5. /\ Operands(fp, Current) <= sp' /\ sp' \in Int /\ top \in Int
        /\ sp' <= Operands(fp, Current) + StackUsage[Current]
    BY <1>1, <1>2, ExecutingFacts
  <2>6. UNCHANGED <<fp, context, result, pause>>
    BY <1>1, <1>2
  <2>7. Continue
    BY <1>2
  <2> HIDE DEF top
  <2> QED BY <2>1, <2>2, <2>3, <2>4, <2>5, <2>6, <2>7, InstructionKeeps
<1>3. CASE /\ pause = None /\ pause' = HostResult[h] /\ sp' = top
           /\ pc' = Next_pc(2) /\ Break("Pause") /\ UNCHANGED stack
  <2>1. /\ pc' \in Funcs \X (0..(CodeWords - 1)) /\ Current' = Current
        /\ pc' # Sentinel
    BY <1>1, <1>3, ExecutingFacts, NextPcFacts, TargetsAreNotSentinel
    DEF Current
  <2>2. /\ Operands(fp, Current) <= sp'
        /\ sp' <= Operands(fp, Current) + StackUsage[Current]
    BY <1>1, <1>3, ExecutingFacts
  <2>3. ASSUME NEW n, NEW base, NEW fn, Chain(n, base, fn)
        PROVE  Chain(n, base, fn)'
    <3>1. n \in Nat \ {0}
      BY <2>3, ExecutingFacts DEF Chain, Frames, Registers, Idle
    <3>2. Frames(n, base, fn)'
      BY <1>1, <1>3, <2>1, <2>2, <2>3, <3>1, ExecutingFacts, FramesKept DEF Chain
    <3> QED BY <2>3, <3>2 DEF Chain
  <2>6. Framed' /\ KeepsChain
    BY <2>3, ExecutingFacts DEF Framed, KeepsChain
  <2>7. TypeOK'
    <3>1. TypeOK /\ 0 \in 0..MaxFuel
      BY ExecutingFacts, EngineAssumption
    <3>2. /\ sp' \in Nat /\ fp' = fp /\ stack' = stack /\ result' = result
          /\ module' = module /\ memory' = memory /\ table' = table
          /\ pause' \in 0..2 /\ fuel' = 0 /\ outcome' = "Pause"
          /\ panicked' = panicked
      BY <1>1, <1>3 DEF Break, context
    <3> QED BY <2>1, <3>1, <3>2 DEF TypeOK
  <2>8. Runs'
    <3>1. /\ fuel' = 0 /\ panicked' = panicked /\ sp' = top /\ fp' = fp
          /\ Current' = Current
      BY <1>1, <1>3, <2>1 DEF Break
    <3>2. Height' + pause' <= StackUsage[Current]
      <4>1. Height' = top - Operands(fp, Current)
        BY <3>1 DEF Height, Operands
      <4> QED BY <4>1, <1>1, <1>3, ExecutingFacts
    <3> QED BY <2>1, <3>1, <3>2, ExecutingFacts
            DEF Runs, PauseHasRoom, NoPanic, Idle
  <2> QED BY <2>6, <2>7, <2>8 DEF IInv
<1>4. CASE pause # None
  BY <1>4, ExecutingFacts
<1> QED BY <1>2, <1>3, <1>4 DEF call_host

-----------------------------------------------------------------------------
(* Calls and returns *)

(* Swapping the context to a module takes its memory and table. *)
LEMMA SwapFacts ==
  ASSUME NEW m \in Modules, SwapTo(m)
  PROVE  /\ module' = m /\ memory' = MemoryOf[m] /\ table' = TableOf[m]
         /\ module' \in Modules
         /\ memory' \in {MemoryOf[x] : x \in Modules} \cup {ZeroMemory}
         /\ table' \in {TableOf[x] : x \in Modules} \cup {ZeroTable}
BY DEF SwapTo

(* Entering a function takes its module's memory and table. *)
LEMMA EnterModuleFacts ==
  ASSUME IInv, Executing, NEW f \in Funcs, enter_module(f)
  PROVE  /\ module' = ModuleOf[f] /\ module' \in Modules
         /\ memory' = MemoryOf[module'] /\ table' = TableOf[module']
         /\ memory' \in {MemoryOf[x] : x \in Modules} \cup {ZeroMemory}
         /\ table' \in {TableOf[x] : x \in Modules} \cup {ZeroTable}
<1>1. ModuleOf[f] \in Modules
  BY EngineAssumption
<1>2. CASE ModuleOf[f] = module
  BY <1>1, <1>2, ExecutingFacts
  DEF enter_module, context, ContextMatchesCode
<1>3. CASE ModuleOf[f] # module
  BY <1>1, <1>3, SwapFacts DEF enter_module
<1> QED BY <1>2, <1>3

(* The words of a new frame. *)
LEMMA FrameWordsFacts ==
  ASSUME NEW f \in Funcs, NEW length \in 0..(FrameLimit - 1),
         NEW delta \in Int, delta \in -128..127,
         pc \in Target \cup {Sentinel}
  PROVE  /\ FrameWords(f, length, delta) \in [1..(2 + LocalWords[f]) -> Word]
         /\ FrameWords(f, length, delta)[1].length = length
         /\ FrameWords(f, length, delta)[1].delta = delta
         /\ FrameWords(f, length, delta)[1].params = ParamWords[f]
         /\ FrameWords(f, length, delta)[2] = PcWord(pc)
<1>1. ParamWords[f] \in Nat /\ LocalWords[f] \in Nat
  BY EngineAssumption DEF WordCount
<1>2. /\ CallFrame(length, delta, ParamWords[f]) \in Word
      /\ PcWord(pc) \in Word
      /\ Val(Zero) \in Word
  <2>1. FrameLimit \in Nat /\ length % FrameLimit = length
    BY EngineAssumption
  <2> QED BY <1>1, <2>1, EngineAssumption DEF Word, CallFrame, PcWord, Val
<1>3. 1 \in 1..(2 + LocalWords[f]) /\ 2 \in 1..(2 + LocalWords[f])
  BY <1>1
<1>4. length % FrameLimit = length
  BY EngineAssumption
<1> QED BY <1>1, <1>2, <1>3, <1>4 DEF FrameWords, CallFrame

(* One frame more, one frame fewer. *)
Longer(n, f, x) == [i \in 1..(n + 1) |-> IF i = n + 1 THEN x ELSE f[i]]
Shorter(n, f) == [i \in 1..(n - 1) |-> f[i]]

(* A call that passes the capacity test adds a frame to the chain. *)
LEMMA CallKeeps ==
  ASSUME IInv, Executing, NEW f \in Funcs, NEW index \in 0..1, Call(f, index)
  PROVE  /\ IInv'
         /\ pc' # Sentinel =>
              \A n, base, fn, base1, fn1 :
                 /\ Chain(n, base, fn)
                 /\ base1 = Longer(n, base, sp - index) /\ fn1 = Longer(n, fn, f)
                 => Chain(n + 1, base1, fn1)'
<1> DEFINE top == sp - index
<1>1. /\ enter_module(f) /\ Falls(2) /\ UNCHANGED <<result, pause>>
      /\ index + ParamWords[f] <= Height
      /\ Height - (index + ParamWords[f]) + ResultWords[f]
           <= StackUsage[Current]
  BY DEF Call, Pops
<1>2. /\ ParamWords[f] \in Nat /\ LocalWords[f] \in Nat
      /\ StackUsage[f] \in Nat /\ ResultWords[f] \in 0..2
      /\ ModuleOf[f] \in Modules
  BY EngineAssumption DEF WordCount
<1>3. /\ module' = ModuleOf[f] /\ module' \in Modules
      /\ memory' = MemoryOf[module'] /\ table' = TableOf[module']
      /\ memory' \in {MemoryOf[x] : x \in Modules} \cup {ZeroMemory}
      /\ table' \in {TableOf[x] : x \in Modules} \cup {ZeroTable}
  BY <1>1, EnterModuleFacts
<1>4. stack \in [Addr -> Word] /\ top \in Nat
      /\ Operands(fp, Current) <= top - ParamWords[f]
      /\ top - ParamWords[f] + ResultWords[f]
           <= Operands(fp, Current) + StackUsage[Current]
      /\ fp <= top
  <2>1. /\ sp \in Nat /\ fp \in Nat /\ Operands(fp, Current) \in Nat
        /\ Operands(fp, Current) = fp + 2 + LocalWords[Current]
        /\ Height = sp - Operands(fp, Current)
        /\ LocalWords[Current] \in Nat /\ StackUsage[Current] \in Nat
        /\ stack \in [Addr -> Word]
    BY ExecutingFacts DEF TypeOK
  <2> HIDE DEF Height
  <2> QED BY <1>1, <1>2, <2>1
<1>5. CASE Unwind /\ UNCHANGED stack
  BY <1>1, <1>3, <1>4, <1>5, UnwindKeeps DEF Unwind
<1>6. CASE /\ StackLen >= top + required_stack_words(f)
           /\ call_impl(stack, top, f, ModuleDelta(module, ModuleOf[f]))
           /\ Continue
  <2> DEFINE delta == ModuleDelta(module, ModuleOf[f])
             ws    == FrameWords(f, top - fp, delta)
  <2>1. /\ stack' = Store(stack, top, ws) /\ fp' = top /\ pc' = <<f, 0>>
        /\ sp' = top + 2 + LocalWords[f]
    BY <1>6, SMTT(30) DEF call_impl
  <2>2. module \in 0..255 /\ ModuleOf[f] \in 0..255 /\ delta \in -128..127
    <3>1. module \in 0..255 /\ ModuleOf[f] \in 0..255
      BY <1>2, ExecutingFacts, EngineAssumption DEF TypeOK
    <3> QED BY <3>1, DeltaRestores, ZenonT(30)
  <2>3. /\ top - fp \in Nat /\ pc \in Funcs \X (0..(CodeWords - 1))
        /\ pc \in Target \cup {Sentinel}
    <3>1. pc \in Funcs \X (0..(CodeWords - 1)) /\ CodeWords \in Nat \ {0}
      BY ExecutingFacts, EngineAssumption DEF TypeOK, Idle
    <3>2. 0..(CodeWords - 1) \subseteq 0..CodeWords
      BY <3>1
    <3>3. pc \in Target
      BY <3>1, <3>2 DEF Target
    <3>4. top - fp \in Nat
      BY <1>4, ExecutingFacts
    <3> QED BY <3>1, <3>3, <3>4
  <2>4. /\ ws \in [1..(2 + LocalWords[f]) -> Word]
        /\ ws[1].length = top - fp /\ ws[1].delta = delta
        /\ ws[1].params = ParamWords[f]
        /\ ws[2] = PcWord(pc)
    <3>1. top - fp < FrameLimit
      <4>1. /\ sp <= Operands(fp, Current) + StackUsage[Current]
            /\ Operands(fp, Current) = fp + 2 + LocalWords[Current]
        BY ExecutingFacts DEF StackInBounds
      <4>2. /\ 2 + LocalWords[Current] + StackUsage[Current] < FrameLimit
            /\ FrameLimit \in Nat
        BY ExecutingFacts, EngineAssumption
      <4> QED BY <4>1, <4>2, ExecutingFacts
    <3>2. /\ top - fp \in Nat /\ delta \in -128..127
          /\ pc \in Target \cup {Sentinel}
      BY <2>2, <2>3
    <3> PICK length, d : length = top - fp /\ d = delta
      OBVIOUS
    <3>3. /\ FrameWords(f, length, d) \in [1..(2 + LocalWords[f]) -> Word]
          /\ FrameWords(f, length, d)[1].length = length
          /\ FrameWords(f, length, d)[1].delta = d
          /\ FrameWords(f, length, d)[1].params = ParamWords[f]
          /\ FrameWords(f, length, d)[2] = PcWord(pc)
      <4> HIDE DEF top, delta
      <4>1. length \in 0..(FrameLimit - 1) /\ d \in -128..127
        BY <3>1, <3>2, EngineAssumption
      <4> QED BY <4>1, <3>2, FrameWordsFacts
    <3> QED BY <3>3
  <2>5. top + 2 + LocalWords[f] + StackUsage[f] <= StackLen
    BY <1>2, <1>4, <1>6, EngineAssumption DEF required_stack_words
  <2>6. top \in Addr /\ top + 1 \in Addr
    <3>1. StackLen \in Nat /\ top + 2 <= StackLen
      BY <2>5, <1>2, <1>4, EngineAssumption
    <3> HIDE DEF top
    <3> QED BY <3>1, <1>4 DEF Addr
  <2> HIDE DEF ws, delta
  <2>7. 2 + LocalWords[f] \in Nat
    BY <1>2
  <2>8. /\ stack' \in [Addr -> Word]
        /\ \A a \in Addr : a < top => stack'[a] = stack[a]
        /\ stack'[top].length = top - fp /\ stack'[top].delta = delta
        /\ stack'[top].params = ParamWords[f]
        /\ stack'[top + 1] = PcWord(pc)
    <3> DEFINE k == 2 + LocalWords[f]
    <3>1. /\ Store(stack, top, ws) \in [Addr -> Word]
          /\ \A a \in Addr : ~(top <= a /\ a < top + k)
                               => Store(stack, top, ws)[a] = stack[a]
          /\ \A a \in Addr : top <= a /\ a < top + k
                               => Store(stack, top, ws)[a] = ws[a - top + 1]
      BY <2>4, <2>7, <1>4, StoreWords, SMTT(30)
    <3>2. /\ top <= top /\ top < top + k /\ top - top + 1 = 1
          /\ top <= top + 1 /\ top + 1 < top + k /\ (top + 1) - top + 1 = 2
      BY <1>2, <1>4
    <3>3. \A a \in Addr : a < top => ~(top <= a /\ a < top + k)
      BY <1>4, EngineAssumption DEF Addr
    <3> HIDE DEF k, top
    <3> QED BY <3>1, <3>2, <3>3, <2>1, <2>4, <2>6
  <2>9. ASSUME NEW n, NEW base, NEW fn, Chain(n, base, fn),
               NEW base1, base1 = Longer(n, base, top),
               NEW fn1, fn1 = Longer(n, fn, f)
        PROVE  Chain(n + 1, base1, fn1)'
    <3>1. /\ n \in Nat /\ base \in [1..n -> Nat] /\ fn \in [1..n -> Funcs]
          /\ Frames(n, base, fn) /\ n > 0 /\ n \in 1..n
          /\ Current = fn[n] /\ fp = base[n]
      <4>1. /\ n \in Nat /\ base \in [1..n -> Nat] /\ fn \in [1..n -> Funcs]
            /\ Frames(n, base, fn) /\ ~Idle
        BY <2>9, ExecutingFacts DEF Chain
      <4>2. n > 0 /\ n \in 1..n
        BY <4>1 DEF Frames, Registers, Idle
      <4> QED BY <4>1, <4>2 DEF Frames, Registers
    <3>2. /\ n + 1 \in Nat /\ n + 1 > 1
           /\ base1 \in [1..(n + 1) -> Nat] /\ fn1 \in [1..(n + 1) -> Funcs]
           /\ base1[n + 1] = top /\ fn1[n + 1] = f
           /\ base1[n] = base[n] /\ fn1[n] = fn[n]
           /\ \A i \in 1..n : base1[i] = base[i] /\ fn1[i] = fn[i]
      BY <1>4, <3>1, <2>9 DEF Longer
    <3>3. Registers(n + 1, base1, fn1)'
      <4>1. pc' # Sentinel /\ pc'[1] = f
        BY <2>1, EngineAssumption, TargetsAreNotSentinel
      <4>2. Operands(fp, Current)' = top + 2 + LocalWords[f]
        BY <2>1 DEF Operands, Current
      <4>3. /\ Operands(fp, Current)' <= sp'
            /\ sp' <= Operands(fp, Current)' + StackUsage[f]
        BY <1>2, <1>4, <2>1, <4>2
      <4> QED BY <1>3, <2>1, <3>2, <4>1, <4>3 DEF Registers, Current
    <3>4. ASSUME NEW i \in 1..n
           PROVE  FrameWord(i, base1, fn1)' /\ FramePlace(i, base1, fn1)'
      <4>1. FrameWord(i, base, fn) /\ FramePlace(i, base, fn)
        BY <3>1 DEF Frames
      <4>2. /\ base[i] \in Addr /\ base[i] + 1 \in Addr
            /\ base[i] < top /\ base[i] + 1 < top
        <5>1. /\ base[i] \in Addr /\ base[i] + 1 \in Addr
              /\ base[i] + 1 < Operands(fp, Current)
          BY <3>1, FrameAddresses, ExecutingFacts
        <5>2. /\ base[i] \in Nat /\ top \in Nat /\ ParamWords[f] \in Nat
              /\ Operands(fp, Current) \in Nat
              /\ Operands(fp, Current) <= top - ParamWords[f]
          BY <3>1, <1>2, <1>4, ExecutingFacts
        <5> HIDE DEF top
        <5>3. base[i] + 1 < top
          BY <5>1, <5>2
        <5>4. base[i] < top
          BY <5>2, <5>3
        <5> QED BY <5>1, <5>3, <5>4
      <4>3. /\ stack'[base[i]] = stack[base[i]]
            /\ stack'[base[i] + 1] = stack[base[i] + 1]
        BY <2>8, <4>2
      <4>4. /\ base1[i] = base[i] /\ fn1[i] = fn[i]
            /\ i > 1 => base1[i - 1] = base[i - 1] /\ fn1[i - 1] = fn[i - 1]
            /\ \A j \in 1..(i - 1) : base1[j] = base[j] /\ fn1[j] = fn[j]
        BY <3>1, <3>2
      <4>5. FrameWord(i, base1, fn1)'
        BY <4>1, <4>3, <4>4 DEF FrameWord
      <4>6. FramePlace(i, base1, fn1)'
        BY <4>1, <4>4 DEF FramePlace, Operands
      <4> QED BY <4>5, <4>6
    <3>5. FrameWord(n + 1, base1, fn1)'
      <4>1. n + 1 # 1 /\ (n + 1) - 1 = n
        BY <3>1
      <4>2. /\ stack'[top].params = ParamWords[f]
            /\ stack'[top].length = top - base[n]
            /\ stack'[top].delta = delta
            /\ stack'[top + 1].pc = pc
        BY <2>8, <3>1 DEF PcWord
      <4>3. delta = ModuleDelta(ModuleOf[fn[n]], ModuleOf[f])
        BY <3>1, ExecutingFacts DEF delta, ContextMatchesCode
      <4>4. pc[1] = fn[n] /\ pc[2] + 2 < CodeWords
        BY <1>1, <3>1 DEF Falls, Current
      <4> QED BY <4>1, <4>2, <4>3, <4>4, <2>3, <3>2 DEF FrameWord
    <3>6. FramePlace(n + 1, base1, fn1)'
      <4>1. (n + 1) - 1 = n
        BY <3>1
      <4>2. ASSUME NEW j \in 1..n
            PROVE  Operands(base[j], fn[j]) <= top - ParamWords[f]
        <5>1. CASE j = n
          BY <5>1, <1>4, <3>1
        <5>2. CASE j # n
          <6>1. Operands(base[j], fn[j]) <= base[n] - ParamWords[fn[n]]
            BY <5>2, <3>1 DEF Frames, FramePlace
          <6>2. /\ base[j] \in Nat /\ base[n] \in Nat /\ LocalWords[fn[j]] \in Nat
                /\ ParamWords[fn[n]] \in Nat
            BY <3>1, EngineAssumption DEF WordCount
          <6>3. base[n] <= Operands(fp, Current) /\ Operands(fp, Current) \in Nat
            BY <3>1, ExecutingFacts, SMTT(30)
          <6>4. Operands(base[j], fn[j]) \in Nat
            BY <6>2 DEF Operands
          <6>5. /\ top \in Nat /\ ParamWords[f] \in Nat
                /\ Operands(fp, Current) <= top - ParamWords[f]
            BY <1>2, <1>4
          <6> HIDE DEF top
          <6> QED BY <6>1, <6>2, <6>3, <6>4, <6>5
        <5> QED BY <5>1, <5>2
      <4>3. Operands(top, f) + StackUsage[f] <= StackLen
        BY <2>5 DEF Operands
      <4>4. top - ParamWords[f] + ResultWords[f]
              <= Operands(base[n], fn[n]) + StackUsage[fn[n]]
        BY <1>4, <3>1
      <4> HIDE DEF top
      <4> QED BY <4>1, <4>2, <4>3, <4>4, <3>2 DEF FramePlace
    <3>7. \A i \in 1..(n + 1) : i \in 1..n \/ i = n + 1
      BY <3>1
    <3>8. Frames(n + 1, base1, fn1)'
      BY <3>3, <3>4, <3>5, <3>6, <3>7 DEF Frames
    <3> QED BY <3>2, <3>8 DEF Chain
  <2>10. Framed'
    <3> PICK n, base, fn : Chain(n, base, fn)
      BY ExecutingFacts DEF Framed
    <3>1. \E base1, fn1 : base1 = Longer(n, base, top) /\ fn1 = Longer(n, fn, f)
      OBVIOUS
    <3> QED BY <2>9, <3>1 DEF Framed
  <2>17. TypeOK'
    <3>1. sp' \in Nat /\ fp' \in Nat
      BY <1>2, <1>4, <2>1
    <3>2. pc' \in Funcs \X (0..(CodeWords - 1))
      BY <2>1, EngineAssumption
    <3> HIDE DEF top
    <3> QED BY <1>1, <1>3, <1>6, <2>8, <3>1, <3>2, ContinueFacts, ExecutingFacts
            DEF TypeOK
  <2>18. Runs'
    <3>1. pc' # Sentinel
      BY <2>1, EngineAssumption, TargetsAreNotSentinel
    <3> QED BY <1>1, <1>6, <3>1, ContinueFacts, ExecutingFacts
            DEF Runs, PauseHasRoom, NoPanic, Idle
  <2> QED BY <2>9, <2>10, <2>17, <2>18 DEF IInv
<1> QED BY <1>5, <1>6 DEF Call

(* A return removes the last frame of the chain. *)
LEMMA ReturnKeeps ==
  ASSUME IInv, Executing, NEW selector \in 0..1, Return(selector)
  PROVE  /\ IInv'
         /\ \A n, base, fn, base1, fn1 :
               /\ Chain(n, base, fn)
               /\ base1 = Shorter(n, base) /\ fn1 = Shorter(n, fn)
               => (pc' = Sentinel /\ n = 1) \/ (n > 1 /\ Chain(n - 1, base1, fn1)')
<1> PICK size : size = ResultWords[Current]
  OBVIOUS
<1> PICK top : top = sp - selector
  OBVIOUS
<1> PICK words : words = Top(stack, top, size)
  OBVIOUS
<1>1. SUFFICES ASSUME NEW n, NEW base, NEW fn, Chain(n, base, fn),
                      NEW base1, base1 = Shorter(n, base),
                      NEW fn1, fn1 = Shorter(n, fn)
               PROVE  /\ IInv'
                      /\ (pc' = Sentinel /\ n = 1) \/ (n > 1 /\ Chain(n - 1, base1, fn1)')
  <2>1. PICK n, base, fn : Chain(n, base, fn)
    BY ExecutingFacts DEF Framed
  <2>2. \E base1, fn1 : base1 = Shorter(n, base) /\ fn1 = Shorter(n, fn)
    OBVIOUS
  <2> QED BY <2>1, <2>2
<1>2. /\ n \in Nat /\ base \in [1..n -> Nat] /\ fn \in [1..n -> Funcs]
      /\ Frames(n, base, fn) /\ n > 0 /\ n \in 1..n
      /\ Current = fn[n] /\ fp = base[n] /\ module = ModuleOf[fn[n]]
      /\ FrameWord(n, base, fn) /\ FramePlace(n, base, fn)
  <2>1. /\ n \in Nat /\ base \in [1..n -> Nat] /\ fn \in [1..n -> Funcs]
        /\ Frames(n, base, fn) /\ ~Idle
    BY <1>1, ExecutingFacts DEF Chain
  <2>2. n > 0 /\ n \in 1..n
    BY <2>1 DEF Frames, Registers, Idle
  <2>3. Current = fn[n] /\ fp = base[n] /\ module = ModuleOf[fn[n]]
    BY <2>1, <2>2 DEF Frames, Registers
  <2> QED BY <2>1, <2>2, <2>3 DEF Frames
<1>3. /\ ParamWords[fn[n]] \in Nat /\ fn[n] \in Funcs /\ base[n] \in Nat
      /\ ParamWords[fn[n]] <= base[n] /\ size \in 0..2 /\ size \in Nat
  <2>1. ParamWords[Current] <= fp
    BY <1>2, ExecutingFacts, FrameAddresses
  <2>2. /\ Current \in Funcs /\ fp \in Nat /\ ParamWords[Current] \in Nat
        /\ ResultWords[Current] \in 0..2
    BY ExecutingFacts
  <2>3. size \in 0..2 /\ size \in Nat
    BY <2>2
  <2> QED BY <1>2, <2>1, <2>2, <2>3
<1> PICK lo : lo = base[n] - ParamWords[fn[n]]
  OBVIOUS
<1>4. /\ lo \in Nat /\ stack[fp].params = ParamWords[fn[n]]
      /\ lo = fp - stack[fp].params
  BY <1>2, <1>3, SMTT(30) DEF FrameWord
<1>5. /\ return_(top, size) /\ UNCHANGED pause /\ selector + size <= Height
  BY DEF Return
<1>6. words \in [1..size -> Word]
  <2>1. /\ top \in Nat /\ size <= top /\ top <= StackLen
    BY <1>3, <1>5, ExecutingFacts, EngineAssumption
  <2> QED BY <2>1, <1>3, ExecutingFacts, TopWords DEF TypeOK
<1>7. /\ stack' = Store(stack, lo, words)
      /\ fp' = fp - stack[fp].length
      /\ IF stack[fp].delta = 0 THEN UNCHANGED context
         ELSE SwapTo(wrapping_sub(module, AsU8(stack[fp].delta)))
      /\ \/ /\ stack[fp + 1].pc = Sentinel
            /\ sp' = lo /\ pc' = Sentinel /\ result' = words
            /\ Break("Finished")
         \/ /\ stack[fp + 1].pc # Sentinel
            /\ sp' = lo + size
            /\ pc' = <<stack[fp + 1].pc[1], stack[fp + 1].pc[2] + 2>>
            /\ Continue /\ UNCHANGED result
  BY <1>4, <1>5 DEF return_
<1>8. /\ stack' \in [Addr -> Word]
      /\ \A a \in Addr : ~(lo <= a /\ a < lo + size) => stack'[a] = stack[a]
  <2>1. stack \in [Addr -> Word] /\ lo \in Int
    BY <1>4, ExecutingFacts DEF TypeOK
  <2>2. stack' = Store(stack, lo, words)
    BY <1>7
  <2> QED BY <1>3, <1>6, <2>1, <2>2, StoreWords
<1>9. CASE n = 1
  <2>1. /\ stack[fp].length = base[1] /\ stack[fp].delta = 0
        /\ stack[fp + 1].pc = Sentinel /\ lo = 0
    BY <1>2, <1>3, <1>9 DEF FrameWord
  <2>2. /\ sp' = 0 /\ fp' = 0 /\ pc' = Sentinel /\ UNCHANGED context
        /\ result' = words /\ fuel' = 0 /\ outcome' = "Finished"
        /\ panicked' = panicked
    <3>1. Break("Finished") /\ sp' = lo /\ pc' = Sentinel /\ result' = words
      BY <1>7, <2>1
    <3>2. fp' = 0 /\ UNCHANGED context
      BY <1>2, <1>3, <1>7, <1>9, <2>1
    <3> QED BY <2>1, <3>1, <3>2 DEF Break
  <2>4. Framed'
    <3> DEFINE none == [i \in 1..0 |-> 0]
    <3>1. none \in [1..0 -> Nat] /\ none \in [1..0 -> Funcs]
      OBVIOUS
    <3>2. Frames(0, none, none)'
      BY <2>2 DEF Frames, Registers
    <3> QED BY <3>1, <3>2 DEF Framed, Chain
  <2>5. TypeOK'
    <3>1. TypeOK /\ 0 \in 0..MaxFuel
      BY ExecutingFacts, EngineAssumption
    <3>2. \E k \in 0..2 : result' \in [1..k -> Word]
      BY <1>3, <1>6, <2>2
    <3> QED BY <1>5, <1>8, <2>2, <3>1, <3>2 DEF TypeOK, context
  <2>6. Runs'
    BY <1>5, <2>2, ExecutingFacts DEF Runs, PauseHasRoom, NoPanic
  <2> QED BY <1>9, <2>2, <2>4, <2>5, <2>6 DEF IInv
<1>10. CASE n > 1
  <2> PICK m : m = n - 1
    OBVIOUS
  <2>1. /\ m \in Nat /\ m \in 1..n /\ n - 1 = m /\ m > 0
        /\ fn[m] \in Funcs /\ base[m] \in Nat
        /\ \A i \in 1..m : i \in 1..n /\ i # n /\ i \in 1..(n - 1)
    BY <1>2, <1>10
  <2>2. /\ stack[fp].length = base[n] - base[m]
        /\ stack[fp].delta = ModuleDelta(ModuleOf[fn[m]], ModuleOf[fn[n]])
        /\ stack[fp + 1].pc \in Funcs \X (0..(CodeWords - 1))
        /\ stack[fp + 1].pc[1] = fn[m]
        /\ stack[fp + 1].pc[2] + 2 < CodeWords
        /\ stack[fp + 1].pc # Sentinel
    BY <1>2, <1>10, <2>1, TargetsAreNotSentinel DEF FrameWord
  <2>3. /\ sp' = lo + size /\ fp' = base[m]
        /\ pc' = <<fn[m], stack[fp + 1].pc[2] + 2>>
        /\ Continue /\ UNCHANGED result
    BY <1>2, <1>3, <1>7, <2>1, <2>2, SMTT(30)
  <2>4. /\ module' = ModuleOf[fn[m]] /\ module' \in Modules
        /\ memory' = MemoryOf[module'] /\ table' = TableOf[module']
        /\ memory' \in {MemoryOf[x] : x \in Modules} \cup {ZeroMemory}
        /\ table' \in {TableOf[x] : x \in Modules} \cup {ZeroTable}
    <3>1. /\ ModuleOf[fn[n]] \in 0..255 /\ ModuleOf[fn[m]] \in 0..255
          /\ ModuleOf[fn[m]] \in Modules
      BY <1>3, <2>1, EngineAssumption, ZenonT(30)
    <3>2. /\ (stack[fp].delta = 0) <=> (ModuleOf[fn[m]] = ModuleOf[fn[n]])
          /\ wrapping_sub(module, AsU8(stack[fp].delta)) = ModuleOf[fn[m]]
      <4>1. /\ (ModuleDelta(ModuleOf[fn[m]], ModuleOf[fn[n]]) = 0)
                   <=> (ModuleOf[fn[m]] = ModuleOf[fn[n]])
            /\ wrapping_sub(ModuleOf[fn[n]],
                  AsU8(ModuleDelta(ModuleOf[fn[m]], ModuleOf[fn[n]])))
                 = ModuleOf[fn[m]]
        BY <3>1, DeltaRestores, ZenonT(30)
      <4> QED BY <1>2, <2>2, <4>1
    <3>3. CASE stack[fp].delta = 0
      <4>1. /\ module' = module /\ memory' = memory /\ table' = table
            /\ module = ModuleOf[fn[m]]
        BY <1>2, <1>7, <3>2, <3>3 DEF context
      <4>2. memory = MemoryOf[module] /\ table = TableOf[module]
        BY ExecutingFacts, SMTT(30) DEF ContextMatchesCode
      <4> QED BY <3>1, <4>1, <4>2
    <3>4. CASE stack[fp].delta # 0
      BY <1>7, <3>1, <3>2, <3>4, SwapFacts
    <3> QED BY <3>3, <3>4
  <2>5. pc' \in Funcs \X (0..(CodeWords - 1)) /\ pc' # Sentinel /\ pc'[1] = fn[m]
    <3>1. stack[fp + 1].pc[2] \in 0..(CodeWords - 1)
      BY <2>2
    <3>2. stack[fp + 1].pc[2] + 2 \in 0..(CodeWords - 1)
      BY <2>2, <3>1, EngineAssumption
    <3> QED BY <2>1, <2>3, <3>2, TargetsAreNotSentinel
  <2>6. /\ lo + size <= Operands(base[m], fn[m]) + StackUsage[fn[m]]
        /\ Operands(base[m], fn[m]) <= lo
    <3>1. /\ base[n] - ParamWords[fn[n]] + ResultWords[fn[n]]
               <= Operands(base[m], fn[m]) + StackUsage[fn[m]]
          /\ \A j \in 1..m : Operands(base[j], fn[j]) <= base[n] - ParamWords[fn[n]]
      BY <1>2, <1>10, <2>1 DEF FramePlace
    <3>2. m \in 1..m /\ size = ResultWords[fn[n]]
      BY <1>2, <2>1
    <3> QED BY <3>1, <3>2
  <2>7. /\ Operands(base[m], fn[m]) \in Nat /\ LocalWords[fn[m]] \in Nat
        /\ StackUsage[fn[m]] \in Nat
    BY <2>1, EngineAssumption DEF Operands, WordCount
  <2>8. Registers(m, base, fn)'
    <3>1. /\ Current' = fn[m] /\ Operands(fp, Current)' = Operands(base[m], fn[m])
      BY <2>3, <2>5 DEF Current, Operands
    <3>2. /\ Operands(base[m], fn[m]) <= sp'
          /\ sp' <= Operands(base[m], fn[m]) + StackUsage[fn[m]]
      BY <1>3, <1>4, <2>3, <2>6, <2>7
    <3> QED BY <2>1, <2>3, <2>4, <2>5, <3>1, <3>2 DEF Registers
  <2>9. ASSUME NEW i \in 1..m
        PROVE  FrameWord(i, base, fn)' /\ FramePlace(i, base, fn)'
    <3>1. FrameWord(i, base, fn) /\ FramePlace(i, base, fn)
      BY <1>2, <2>1 DEF Frames
    <3>2. /\ base[i] \in Addr /\ base[i] + 1 \in Addr
          /\ base[i] + 1 < lo
      BY <1>2, <2>1, FrameAddresses, ExecutingFacts
    <3>3. base[i] \in Nat
      BY <1>2, <2>1
    <3>4. /\ stack'[base[i]] = stack[base[i]]
          /\ stack'[base[i] + 1] = stack[base[i] + 1]
      <4>1. /\ ~(lo <= base[i] /\ base[i] < lo + size)
            /\ ~(lo <= base[i] + 1 /\ base[i] + 1 < lo + size)
        BY <3>2, <3>3, <1>3, <1>4
      <4> QED BY <4>1, <3>2, <1>8
    <3>5. FrameWord(i, base, fn)'
      BY <3>1, <3>4 DEF FrameWord
    <3>6. FramePlace(i, base, fn)'
      BY <3>1 DEF FramePlace, Operands
    <3> QED BY <3>5, <3>6
  <2>10. Chain(m, base1, fn1)'
    <3>1. /\ base1 \in [1..m -> Nat] /\ fn1 \in [1..m -> Funcs]
          /\ \A i \in 1..m : base1[i] = base[i] /\ fn1[i] = fn[i]
      BY <1>1, <1>2, <2>1 DEF Shorter
    <3>2. Registers(m, base1, fn1)'
      <4>1. m \in 1..m /\ base1[m] = base[m] /\ fn1[m] = fn[m]
        BY <2>1, <3>1
      <4> QED BY <2>8, <4>1 DEF Registers
    <3>3. ASSUME NEW i \in 1..m
          PROVE  FrameWord(i, base1, fn1)' /\ FramePlace(i, base1, fn1)'
      <4>1. /\ base1[i] = base[i] /\ fn1[i] = fn[i]
            /\ i > 1 => base1[i - 1] = base[i - 1] /\ fn1[i - 1] = fn[i - 1]
            /\ \A j \in 1..(i - 1) : base1[j] = base[j] /\ fn1[j] = fn[j]
        BY <2>1, <3>1
      <4>2. FrameWord(i, base, fn)' /\ FramePlace(i, base, fn)'
        BY <2>9
      <4>3. FrameWord(i, base1, fn1)'
        BY <4>1, <4>2 DEF FrameWord
      <4>4. FramePlace(i, base1, fn1)'
        BY <4>1, <4>2 DEF FramePlace, Operands
      <4> QED BY <4>3, <4>4
    <3> QED BY <2>1, <3>1, <3>2, <3>3 DEF Chain, Frames
  <2>11. TypeOK'
    <3>1. sp' \in Nat /\ fp' \in Nat
      BY <1>3, <1>4, <2>1, <2>3
    <3> QED BY <1>5, <1>8, <2>3, <2>4, <2>5, <3>1, ContinueFacts, ExecutingFacts
            DEF TypeOK
  <2>12. Runs'
    BY <1>5, <2>3, <2>5, ContinueFacts, ExecutingFacts
    DEF Runs, PauseHasRoom, NoPanic, Idle
  <2> QED BY <1>10, <2>1, <2>10, <2>11, <2>12 DEF IInv, Framed
<1> QED BY <1>2, <1>9, <1>10

(* No instruction disturbs the chain. *)
LEMMA StepKeeps ==
  ASSUME IInv, Step
  PROVE  IInv'
<1> Executing
  BY DEF Step
<1>1. CASE \E p \in 0..Height, q \in 0..2 : Operate(p, q)
  BY <1>1, OperateKeeps
<1>2. CASE \E w \in 1..2 : local_get(w) \/ local_set(w, 0) \/ local_set(w, w)
  BY <1>2, LocalGetKeeps, LocalSetKeeps
<1>3. CASE \E selector \in 0..1, depth \in 0..Height, arity \in 0..2 :
              br_impl(selector, depth, arity)
  BY <1>3, BranchKeeps
<1>4. CASE \E selector \in 0..1 : Return(selector)
  BY <1>4, ReturnKeeps
<1>5. CASE \E f \in Funcs, index \in 0..1 : Call(f, index)
  BY <1>5, CallKeeps
<1>6. CASE \E h \in Hosts, index \in 0..1 : call_host(h, index)
  BY <1>6, CallHostKeeps
<1>7. CASE memory_grow
  BY <1>7, MemoryGrowKeeps
<1>8. CASE InstructionTraps
  BY <1>8, InstructionTrapsKeeps
<1> QED BY <1>1, <1>2, <1>3, <1>4, <1>5, <1>6, <1>7, <1>8 DEF Step

-----------------------------------------------------------------------------
(* The embedder's calls *)

(* The registers of an idle engine are those of the empty chain. *)
LEMMA NoFrames ==
  ASSUME pc = Sentinel /\ sp = 0 /\ fp = 0
  PROVE  Framed
<1> DEFINE none == [i \in 1..0 |-> 0]
<1>1. none \in [1..0 -> Nat] /\ none \in [1..0 -> Funcs]
  OBVIOUS
<1>2. Frames(0, none, none)
  BY DEF Frames, Registers
<1> QED BY <1>1, <1>2 DEF Framed, Chain

(* The new engine satisfies the invariant. *)
LEMMA InitHolds ==
  ASSUME Init
  PROVE  IInv
<1>1. Framed
  BY NoFrames DEF Init
<1>2. Val(Garbage) \in Word
  BY DEF Val, Word
<1>3. TypeOK
  <2>1. stack \in [Addr -> Word]
    BY <1>2 DEF Init
  <2>2. 0 \in Modules /\ 0 \in 0..MaxFuel
    BY EngineAssumption
  <2> QED BY <2>1, <2>2 DEF Init, TypeOK
<1>4. Runs
  BY DEF Init, Runs, PauseHasRoom, NoPanic
<1> QED BY <1>1, <1>3, <1>4 DEF IInv

(* The registers alone determine whether a chain that keeps its words      *)
(* still is one.                                                           *)
LEMMA SameFrames ==
  ASSUME Framed, UNCHANGED <<pc, sp, fp, stack, context>>
  PROVE  Framed'
<1> PICK n, base, fn : Chain(n, base, fn)
  BY DEF Framed
<1>1. Chain(n, base, fn)'
  BY DEF Chain, Frames, Registers, FrameWord, FramePlace, Operands, Current,
         context
<1> QED BY <1>1 DEF Framed

(* run starts executing only what is live and unpaused. *)
LEMMA RunKeeps ==
  ASSUME IInv, ResumeFirst, NEW n \in 1..MaxFuel, run(n)
  PROVE  IInv'
<1>1. Framed'
  BY SameFrames DEF IInv, run
<1>2. TypeOK'
  BY EngineAssumption DEF IInv, TypeOK, run, context
<1>3. Runs'
  BY DEF IInv, Runs, run, PauseHasRoom, NoPanic, Idle, Height, Operands, Current
<1> QED BY <1>1, <1>2, <1>3 DEF IInv

(* The registers of an idle engine make the empty chain. *)
LEMMA InvokeMismatchKeeps ==
  ASSUME IInv, NEW f \in Funcs, NEW n \in 0..ParamWords[f],
         invoke_type_mismatch(f, n)
  PROVE  IInv'
<1>1. PICK args \in Words(n) : stack' = Store(stack, 0, args)
  BY DEF invoke_type_mismatch
<1>2. /\ pc = Sentinel /\ pc' = pc /\ sp' = 0 /\ fp = 0 /\ fp' = fp
      /\ UNCHANGED <<context, result, pause, fuel, outcome, panicked>>
  BY DEF invoke_type_mismatch
<1>3. Framed'
  <2>1. pc' = Sentinel /\ sp' = 0 /\ fp' = 0
    BY <1>2
  <2> DEFINE none == [i \in 1..0 |-> 0]
  <2>2. none \in [1..0 -> Nat] /\ none \in [1..0 -> Funcs]
    OBVIOUS
  <2>3. Frames(0, none, none)'
    BY <2>1 DEF Frames, Registers
  <2> QED BY <2>2, <2>3 DEF Framed, Chain
<1>4. stack' \in [Addr -> Word]
  <2>1. n \in Nat /\ args \in [1..n -> Word]
    <3>1. ParamWords[f] \in Nat
      BY EngineAssumption DEF WordCount
    <3> QED BY <3>1, ValuesAreWords
  <2>2. stack \in [Addr -> Word] /\ 0 \in Int
    BY DEF IInv, TypeOK
  <2> QED BY <1>1, <2>1, <2>2, StoreWords
<1>5. TypeOK'
  BY <1>2, <1>4 DEF IInv, TypeOK, context
<1>6. Runs'
  BY <1>2 DEF IInv, Runs, PauseHasRoom, NoPanic, Idle
<1> QED BY <1>3, <1>5, <1>6 DEF IInv

(* reset leaves the empty chain and no pause. *)
LEMMA ResetKeeps ==
  ASSUME IInv, reset
  PROVE  IInv'
<1>1. /\ pc' = Sentinel /\ sp' = 0 /\ fp' = 0 /\ pause' = None /\ result' = None
      /\ memory' = ZeroMemory /\ table' = ZeroTable /\ fuel = 0
      /\ UNCHANGED <<stack, module, fuel, outcome, panicked>>
  BY DEF reset
<1>2. Framed'
  <2> DEFINE none == [i \in 1..0 |-> 0]
  <2>1. none \in [1..0 -> Nat] /\ none \in [1..0 -> Funcs]
    OBVIOUS
  <2>2. Frames(0, none, none)'
    BY <1>1 DEF Frames, Registers
  <2> QED BY <2>1, <2>2 DEF Framed, Chain
<1>3. TypeOK'
  BY <1>1 DEF IInv, TypeOK
<1>4. Runs'
  BY <1>1, EngineAssumption DEF IInv, Runs, PauseHasRoom, NoPanic
<1> QED BY <1>2, <1>3, <1>4 DEF IInv

(* resume writes the pending value above the operands of the last call. *)
LEMMA ResumeKeeps ==
  ASSUME IInv, resume
  PROVE  IInv' /\ KeepsChain
<1>1. PICK ws \in Words(pause) : stack' = Store(stack, sp, ws)
  BY DEF resume
<1>2. /\ fuel = 0 /\ pause # None /\ sp' = sp + pause /\ pause' = None
      /\ UNCHANGED <<pc, fp, context, result, fuel, outcome, panicked>>
      /\ TypeOK /\ Framed /\ PauseHasRoom /\ ~panicked
  BY DEF resume, IInv, Runs, NoPanic
<1>3. /\ pause \in Nat /\ pause \in 0..2 /\ ~Idle /\ sp \in Nat
      /\ Height + pause <= StackUsage[Current]
  BY <1>2 DEF TypeOK, PauseHasRoom
<1>4. ws \in [1..pause -> Word]
  BY ValuesAreWords
<1>5. Operands(fp, Current) <= sp /\ Operands(fp, Current) \in Nat
  BY <1>2, <1>3, RegisterFacts, CurrentFacts DEF StackInBounds
<1>6. /\ Operands(fp, Current) <= sp' /\ Misses(sp, pause)
      /\ sp' <= Operands(fp, Current) + StackUsage[Current]
  <2>1. sp' <= Operands(fp, Current) + StackUsage[Current]
    <3>1. Height = sp - Operands(fp, Current) /\ StackUsage[Current] \in Nat
      BY <1>2, <1>3, CurrentFacts DEF Height
    <3> QED BY <3>1, <1>2, <1>3, <1>5
  <2> QED BY <2>1, <1>2, <1>3, <1>5 DEF Misses
<1>7. ASSUME NEW n, NEW base, NEW fn, Chain(n, base, fn)
      PROVE  stack' \in [Addr -> Word] /\ Chain(n, base, fn)'
  <2>1. pc' # Sentinel /\ Current' = Current
    BY <1>2, <1>3 DEF Idle, Current
  <2>2. sp \in Int /\ fp' = fp /\ UNCHANGED context
    BY <1>2, <1>3
  <2> QED BY <1>1, <1>2, <1>3, <1>4, <1>6, <1>7, <2>1, <2>2, StaysInFrame
<1>10. stack' \in [Addr -> Word] /\ Framed'
  BY <1>2, <1>7 DEF Framed
<1>8. TypeOK'
  BY <1>2, <1>3, <1>10 DEF TypeOK, context
<1>9. Runs'
  BY <1>2 DEF Runs, PauseHasRoom, NoPanic
<1> QED BY <1>7, <1>8, <1>9, <1>10 DEF IInv, KeepsChain

(* The first frame lies on the arguments the embedder wrote. *)
LEMMA InvokeKeeps ==
  ASSUME IInv, NEW f \in Funcs, invoke(f)
  PROVE  /\ IInv'
         /\ \A base, fn : /\ base = [i \in 1..1 |-> ParamWords[f]]
                          /\ fn = [i \in 1..1 |-> f]
                          => Chain(1, base, fn)'
<1> DEFINE lo == ParamWords[f]
           ws == FrameWords(f, lo, 0)
<1>1. /\ lo \in Nat /\ LocalWords[f] \in Nat /\ StackUsage[f] \in Nat
      /\ ModuleOf[f] \in Modules
  BY EngineAssumption DEF WordCount
<1>2. PICK args \in Words(lo) :
        call_impl(Store(stack, 0, args), lo, f, 0)
  BY DEF invoke
<1>3. /\ fuel = 0 /\ pc = Sentinel /\ fp = 0
      /\ lo + (StackUsage[f] + 2 + LocalWords[f]) <= StackLen
      /\ SwapTo(ModuleOf[f]) /\ result' = None
      /\ UNCHANGED <<pause, fuel, outcome, panicked>>
  BY DEF invoke, required_stack_words
<1> PICK s : s = Store(stack, 0, args)
  OBVIOUS
<1>4. s \in [Addr -> Word]
  <2>1. args \in [1..lo -> Word] /\ stack \in [Addr -> Word] /\ 0 \in Int
    BY ValuesAreWords DEF IInv, TypeOK
  <2> HIDE DEF lo
  <2> QED BY <2>1, <1>1, StoreWords
<1>5. /\ stack' = Store(s, lo, ws) /\ fp' = lo /\ pc' = <<f, 0>>
      /\ sp' = lo + 2 + LocalWords[f]
  BY <1>1, <1>2, <1>3 DEF call_impl
<1>6. /\ ws \in [1..(2 + LocalWords[f]) -> Word]
      /\ ws[1].length = lo /\ ws[1].delta = 0 /\ ws[1].params = lo
      /\ ws[2] = PcWord(Sentinel)
  <2>1. lo < FrameLimit /\ 0 \in -128..127 /\ pc \in Target \cup {Sentinel}
    BY <1>3, EngineAssumption
  <2>2. lo \in Nat /\ lo = ParamWords[f] /\ pc = Sentinel
    BY <1>1, <1>3
  <2> PICK length, d : length = lo /\ d = 0
    OBVIOUS
  <2>3. /\ FrameWords(f, length, d) \in [1..(2 + LocalWords[f]) -> Word]
        /\ FrameWords(f, length, d)[1].length = length
        /\ FrameWords(f, length, d)[1].delta = d
        /\ FrameWords(f, length, d)[1].params = ParamWords[f]
        /\ FrameWords(f, length, d)[2] = PcWord(pc)
    <3>1. length \in 0..(FrameLimit - 1) /\ d \in -128..127
      BY <2>1, <2>2, EngineAssumption
    <3> QED BY <3>1, <2>1, FrameWordsFacts
  <2> QED BY <2>2, <2>3
<1> HIDE DEF ws
<1>7. lo \in Addr /\ lo + 1 \in Addr /\ 2 + LocalWords[f] \in Nat
  BY <1>1, <1>3, EngineAssumption DEF Addr
<1>8. /\ stack' \in [Addr -> Word]
      /\ stack'[lo].length = lo /\ stack'[lo].delta = 0 /\ stack'[lo].params = lo
      /\ stack'[lo + 1] = PcWord(Sentinel)
  <2> DEFINE k == 2 + LocalWords[f]
  <2>1. /\ Store(s, lo, ws) \in [Addr -> Word]
        /\ \A a \in Addr : lo <= a /\ a < lo + k
                             => Store(s, lo, ws)[a] = ws[a - lo + 1]
    <3>1. lo \in Int /\ k \in Nat /\ ws \in [1..k -> Word]
      BY <1>1, <1>6
    <3> HIDE DEF k, lo
    <3> QED BY <1>4, <3>1, StoreWords
  <2>2. /\ lo <= lo /\ lo < lo + k /\ lo - lo + 1 = 1
        /\ lo <= lo + 1 /\ lo + 1 < lo + k /\ (lo + 1) - lo + 1 = 2
    BY <1>1
  <2> HIDE DEF k, lo
  <2> QED BY <2>1, <2>2, <1>5, <1>6, <1>7
<1>15. SUFFICES ASSUME NEW base, base = [i \in 1..1 |-> lo],
                       NEW fn, fn = [i \in 1..1 |-> f]
                PROVE  IInv' /\ Chain(1, base, fn)'
  <2>1. \E base, fn : base = [i \in 1..1 |-> lo] /\ fn = [i \in 1..1 |-> f]
    OBVIOUS
  <2> QED BY <2>1
<1>9. /\ base \in [1..1 -> Nat] /\ fn \in [1..1 -> Funcs]
      /\ base[1] = lo /\ fn[1] = f
  BY <1>1, <1>15
<1>10. /\ pc' # Sentinel /\ pc' \in Funcs \X (0..(CodeWords - 1)) /\ pc'[1] = f
  BY <1>5, EngineAssumption, TargetsAreNotSentinel
<1>11. /\ module' = ModuleOf[f] /\ module' \in Modules
       /\ memory' = MemoryOf[module'] /\ table' = TableOf[module']
       /\ memory' \in {MemoryOf[x] : x \in Modules} \cup {ZeroMemory}
       /\ table' \in {TableOf[x] : x \in Modules} \cup {ZeroTable}
  BY <1>1, <1>3, SwapFacts
<1>12. Chain(1, base, fn)'
  <2>1. Registers(1, base, fn)'
    <3>1. Current' = f /\ Operands(fp, Current)' = lo + 2 + LocalWords[f]
      BY <1>5, <1>10 DEF Current, Operands
    <3>2. /\ Operands(fp, Current)' <= sp'
          /\ sp' <= Operands(fp, Current)' + StackUsage[f]
      BY <1>1, <1>5, <3>1
    <3> QED BY <1>5, <1>9, <1>10, <1>11, <3>1, <3>2 DEF Registers
  <2>2. FrameWord(1, base, fn)'
    BY <1>8, <1>9 DEF FrameWord, PcWord
  <2>3. FramePlace(1, base, fn)'
    <3>1. lo + 2 + LocalWords[f] + StackUsage[f] <= StackLen
      BY <1>1, <1>3, EngineAssumption
    <3> QED BY <1>9, <3>1 DEF FramePlace, Operands
  <2>4. Frames(1, base, fn)'
    BY <2>1, <2>2, <2>3 DEF Frames
  <2> QED BY <1>9, <2>4 DEF Chain
<1>13. TypeOK'
  <2>1. sp' \in Nat /\ fp' \in Nat
    BY <1>1, <1>5
  <2> QED BY <1>3, <1>8, <1>10, <1>11, <2>1 DEF IInv, TypeOK
<1>14. Runs'
  <2>1. pause = None /\ ~panicked
    BY <1>3 DEF IInv, Runs, PauseHasRoom, NoPanic, Idle
  <2> QED BY <1>3, <2>1 DEF Runs, PauseHasRoom, NoPanic
<1> QED BY <1>12, <1>13, <1>14 DEF IInv, Framed

-----------------------------------------------------------------------------
(* The invariant *)

(* Every step keeps the invariant. *)
LEMMA NextKeeps ==
  ASSUME IInv, ResumeFirst, [Next]_vars
  PROVE  IInv'
<1>1. CASE Step
  BY <1>1, StepKeeps
<1>2. CASE \E f \in Funcs : invoke(f)
  BY <1>2, InvokeKeeps
<1>3. CASE \E f \in Funcs : \E n \in 0..ParamWords[f] : invoke_type_mismatch(f, n)
  BY <1>3, InvokeMismatchKeeps
<1>4. CASE \E n \in 1..MaxFuel : run(n)
  BY <1>4, RunKeeps
<1>5. CASE resume
  BY <1>5, ResumeKeeps
<1>6. CASE reset
  BY <1>6, ResetKeeps
<1>7. CASE UNCHANGED vars
  <2>1. Framed'
    BY <1>7, SameFrames DEF IInv, vars, context
  <2>2. TypeOK'
    BY <1>7 DEF IInv, TypeOK, vars
  <2>3. Runs'
    BY <1>7 DEF IInv, Runs, PauseHasRoom, NoPanic, Idle, Height, Operands,
                Current, vars
  <2> QED BY <2>1, <2>2, <2>3 DEF IInv
<1> QED BY <1>1, <1>2, <1>3, <1>4, <1>5, <1>6, <1>7 DEF Next, Embedder

(* The invariant holds in every reachable state. *)
LEMMA Invariance ==
  ASSUME ResumeFirst
  PROVE  Spec => []IInv
<1>1. Init => IInv
  BY InitHolds
<1>2. IInv /\ [Next]_vars => IInv'
  BY NextKeeps
<1> QED BY <1>1, <1>2, PTL DEF Spec

(* The registers, the words of the stack, the results and the pauses of the *)
(* engine keep their types.                                                 *)
THEOREM EngineTypes ==
  ASSUME ResumeFirst
  PROVE  Spec => []TypeOK
<1>1. IInv => TypeOK
  BY DEF IInv
<1> QED BY <1>1, Invariance, PTL

(* The capacity test of call_impl and invoke keeps every operand of every   *)
(* call inside the stack, for any program, any stack and any call depth.    *)
THEOREM EngineStackInBounds ==
  ASSUME ResumeFirst
  PROVE  Spec => []StackInBounds
<1>1. IInv => StackInBounds
  BY RegisterFacts DEF IInv
<1> QED BY <1>1, Invariance, PTL

(* However calls, returns and memory.grow cross the modules, the executing  *)
(* function sees the memory and the table of its own module.                *)
THEOREM EngineContext ==
  ASSUME ResumeFirst
  PROVE  Spec => []ContextMatchesCode
<1>1. IInv => ContextMatchesCode
  BY RegisterFacts DEF IInv
<1> QED BY <1>1, Invariance, PTL

(* A returned, trapped or reset engine accepts the next invoke. *)
THEOREM EngineIdleIsClean ==
  ASSUME ResumeFirst
  PROVE  Spec => []IdleIsClean
<1>1. IInv => IdleIsClean
  BY RegisterFacts DEF IInv
<1> QED BY <1>1, Invariance, PTL

(* A host function that pauses leaves a call that waits for its result,    *)
(* with room for it (Interpreter::call_host, Engine::resume).              *)
THEOREM EnginePauses ==
  ASSUME ResumeFirst
  PROVE  Spec => []PauseHasRoom
<1>1. IInv => PauseHasRoom
  BY DEF IInv, Runs
<1> QED BY <1>1, Invariance, PTL

(* A pause never meets one that is pending already: the assertion of       *)
(* Interpreter::call_host holds, whatever traps, resets and runs came      *)
(* before.                                                                 *)
THEOREM EngineNeverPanics ==
  ASSUME ResumeFirst
  PROVE  Spec => []NoPanic
<1>1. IInv => NoPanic
  BY DEF IInv, Runs
<1> QED BY <1>1, Invariance, PTL

-----------------------------------------------------------------------------
(* The walk of the frames finds the live calls *)

(* The frames of s lie at base, each with the length and the return address *)
(* that lead to the one below it.                                           *)
Linked(s, n, base, fn) ==
  /\ n \in 1..StackLen /\ base \in [1..n -> Nat] /\ fn \in [1..n -> Funcs]
  /\ Outermost(s, base[1])
  /\ \A i \in 1..n : s[base[i]].params = ParamWords[fn[i]]
  /\ \A i \in 2..n : /\ ~Outermost(s, base[i])
                     /\ s[base[i]].length = base[i] - base[i - 1]
                     /\ s[base[i] + 1].pc[1] = fn[i - 1]

(* Following the frame words from the innermost frame finds them all. *)
LEMMA BaseFindsFrames ==
  ASSUME NEW s, NEW n, NEW base, NEW fn, Linked(s, n, base, fn)
  PROVE  \A k \in Nat : Base(s, base[n])[k] = IF k < n THEN base[n - k] ELSE base[1]
<1> DEFINE g == [k \in Nat |-> IF k < n THEN base[n - k] ELSE base[1]]
           Follows(f) ==
             f = [k \in Nat |->
                    IF k = 0 THEN base[n]
                    ELSE LET above == f[k - 1]
                         IN IF Outermost(s, above) THEN above
                            ELSE above - s[above].length]
           f == Base(s, base[n])
<1>1. n \in Nat /\ n >= 1 /\ base \in [1..n -> Nat]
  BY EngineAssumption DEF Linked
<1>2. ASSUME NEW k \in Nat \ {0}
      PROVE  g[k] = IF Outermost(s, g[k - 1]) THEN g[k - 1]
                    ELSE g[k - 1] - s[g[k - 1]].length
  <2>1. CASE k < n
    <3> PICK i : i = n - k + 1
      OBVIOUS
    <3>1. i \in 2..n /\ g[k - 1] = base[i] /\ g[k] = base[i - 1]
      BY <1>1, <2>1
    <3>2. ~Outermost(s, base[i]) /\ s[base[i]].length = base[i] - base[i - 1]
      BY <3>1 DEF Linked
    <3>3. base[i] \in Nat /\ base[i - 1] \in Nat
      BY <1>1, <3>1
    <3> PICK x, y : x = base[i] /\ y = base[i - 1]
      OBVIOUS
    <3>4. x - (x - y) = y
      BY <3>3
    <3> HIDE DEF g
    <3> QED BY <3>1, <3>2, <3>4
  <2>2. CASE k >= n
    <3>1. g[k - 1] = base[1] /\ g[k] = base[1]
      BY <1>1, <2>2
    <3> HIDE DEF g
    <3> QED BY <3>1 DEF Linked
  <2> QED BY <1>1, <2>1, <2>2
<1>3. g[0] = base[n]
  BY <1>1
<1>4. Follows(g)
  <2>1. \A k \in Nat \ {0} : g[k] = IF Outermost(s, g[k - 1]) THEN g[k - 1]
                                    ELSE g[k - 1] - s[g[k - 1]].length
    BY <1>2
  <2>2. g = [k \in Nat |-> g[k]]
    OBVIOUS
  <2> HIDE DEF g
  <2> QED BY <2>1, <2>2, <1>3, ZenonT(30)
<1>5. f = CHOOSE h : Follows(h)
  BY DEF Base
<1>6. Follows(f)
  BY <1>4, <1>5, ZenonT(30)
<1>7. /\ f[0] = base[n]
      /\ \A k \in Nat \ {0} : f[k] = IF Outermost(s, f[k - 1]) THEN f[k - 1]
                                     ELSE f[k - 1] - s[f[k - 1]].length
  BY <1>6
<1> DEFINE S == {k \in Nat : f[k] = g[k]}
<1> HIDE DEF f, g, Follows
<1>8. 0 \in S
  BY <1>3, <1>7
<1>9. ASSUME NEW k \in Nat, k \in S PROVE k + 1 \in S
  <2>1. k + 1 \in Nat \ {0} /\ (k + 1) - 1 = k
    OBVIOUS
  <2>2. f[k + 1] = IF Outermost(s, f[k]) THEN f[k] ELSE f[k] - s[f[k]].length
    BY <1>7, <2>1
  <2>3. g[k + 1] = IF Outermost(s, g[k]) THEN g[k] ELSE g[k] - s[g[k]].length
    BY <1>2, <2>1
  <2> QED BY <1>9, <2>2, <2>3
<1> HIDE DEF S
<1>10. Nat \subseteq S
  BY <1>8, <1>9, SetInduction
<1>11. \A k \in Nat : f[k] = g[k]
  BY <1>10 DEF S
<1> QED BY <1>11 DEF f, g

(* The depth that the walk finds is the number of frames. *)
LEMMA DepthCountsFrames ==
  ASSUME NEW s, NEW n, NEW base, NEW fn, Linked(s, n, base, fn)
  PROVE  Depth(s, Base(s, base[n])) = n
<1> DEFINE b == Base(s, base[n])
           Is(d) == /\ Outermost(s, b[d - 1])
                    /\ \A k \in 1..(d - 1) : ~Outermost(s, b[k - 1])
<1>1. n \in Nat /\ n >= 1 /\ n \in 1..StackLen /\ StackLen \in Nat
  BY EngineAssumption DEF Linked
<1>2. \A k \in Nat : b[k] = IF k < n THEN base[n - k] ELSE base[1]
  BY BaseFindsFrames
<1> HIDE DEF b
<1>3. b[n - 1] = base[1]
  BY <1>1, <1>2
<1>4. ASSUME NEW k \in 1..(n - 1) PROVE ~Outermost(s, b[k - 1])
  <2>1. k - 1 \in Nat /\ k - 1 < n /\ n - (k - 1) \in 2..n
    BY <1>1
  <2>2. b[k - 1] = base[n - (k - 1)]
    BY <1>2, <2>1
  <2> QED BY <2>1, <2>2 DEF Linked
<1>5. Is(n)
  BY <1>3, <1>4 DEF Linked
<1>6. ASSUME NEW d \in 1..StackLen, Is(d) PROVE d = n
  <2>1. CASE d < n
    <3>1. d \in 1..(n - 1)
      BY <1>1, <2>1
    <3> QED BY <1>4, <1>6, <3>1
  <2>2. CASE d > n
    <3>1. n \in 1..(d - 1)
      BY <1>1, <2>2
    <3> QED BY <1>5, <1>6, <3>1
  <2> QED BY <1>1, <2>1, <2>2
<1>7. Depth(s, b) = CHOOSE d \in 1..StackLen : Is(d)
  BY DEF Depth
<1> HIDE DEF Is
<1>8. Depth(s, b) = n
  BY <1>1, <1>5, <1>6, <1>7
<1> QED BY <1>8 DEF b

(* The call of f whose frame is at base. *)
Call_of(s, base, f, at, end) ==
  [fn |-> f, at |-> at,
   locals |-> Data(s, base - ParamWords[f], base)
                \o Data(s, base + 2, Operands(base, f)),
   operands |-> Data(s, Operands(base, f), end)]

(* The calls of a chain of frames, the last of which is at the instruction *)
(* at, its operands below end.                                             *)
Calls(s, n, base, fn, at, end) ==
  [i \in 1..n |->
     Call_of(s, base[i], fn[i],
             IF i = n THEN at ELSE s[base[i + 1] + 1].pc[2],
             IF i = n THEN end ELSE base[i + 1] - ParamWords[fn[i + 1]])]

(* The walk from the last frame of a chain finds its calls. *)
LEMMA WalkFindsCalls ==
  ASSUME NEW s, NEW n, NEW base, NEW fn, Linked(s, n, base, fn),
         NEW p, p[1] = fn[n], NEW end
  PROVE  Walk(s, base[n], p, end) = Calls(s, n, base, fn, p[2], end)
<1> DEFINE b == Base(s, base[n])
           Kth(k) == IF k = 0 THEN ActivationAt(s, base[n], p, end)
                     ELSE LET above == b[k - 1]
                          IN ActivationAt(s, b[k], s[above + 1].pc,
                                          above - s[above].params)
           C(i) == Call_of(s, base[i], fn[i],
                     IF i = n THEN p[2] ELSE s[base[i + 1] + 1].pc[2],
                     IF i = n THEN end ELSE base[i + 1] - ParamWords[fn[i + 1]])
<1>1. n \in Nat /\ n >= 1 /\ base \in [1..n -> Nat] /\ fn \in [1..n -> Funcs]
  BY EngineAssumption DEF Linked
<1>2. \A k \in Nat : b[k] = IF k < n THEN base[n - k] ELSE base[1]
  BY BaseFindsFrames
<1>3. Depth(s, b) = n
  BY DepthCountsFrames
<1>4. Walk(s, base[n], p, end) = [i \in 1..n |-> Kth(n - i)]
  <2>1. Walk(s, base[n], p, end) = [i \in 1..Depth(s, b) |-> Kth(Depth(s, b) - i)]
    BY DEF Walk
  <2> HIDE DEF Kth
  <2> QED BY <1>3, <2>1
<1> HIDE DEF b
<1>5. ASSUME NEW i \in 1..n PROVE Kth(n - i) = C(i)
  <2>1. /\ s[base[i]].params = ParamWords[fn[i]]
        /\ i # n => /\ s[base[i + 1]].params = ParamWords[fn[i + 1]]
                    /\ s[base[i + 1] + 1].pc[1] = fn[i]
    <3>1. i # n => i + 1 \in 2..n /\ (i + 1) - 1 = i /\ i + 1 \in 1..n
      BY <1>1
    <3> QED BY <3>1 DEF Linked
  <2>2. CASE i = n
    <3>1. Kth(n - i) = ActivationAt(s, base[n], p, end)
      BY <1>1, <2>2
    <3>2. ActivationAt(s, base[n], p, end) = Call_of(s, base[n], fn[n], p[2], end)
      BY <2>1, <2>2 DEF ActivationAt, Call_of, Operands
    <3> QED BY <2>2, <3>1, <3>2
  <2>3. CASE i # n
    <3>1. n - i \in Nat /\ n - i # 0 /\ n - i < n
          /\ (n - i) - 1 \in Nat /\ (n - i) - 1 < n
          /\ n - (n - i) = i /\ n - ((n - i) - 1) = i + 1
      BY <1>1, <2>3
    <3>2. b[n - i] = base[i] /\ b[(n - i) - 1] = base[i + 1]
      BY <1>2, <3>1
    <3>3. Kth(n - i) = ActivationAt(s, base[i], s[base[i + 1] + 1].pc,
                                    base[i + 1] - s[base[i + 1]].params)
      BY <3>1, <3>2
    <3> PICK e : e = base[i + 1] - ParamWords[fn[i + 1]]
      OBVIOUS
    <3> PICK q : q = s[base[i + 1] + 1].pc
      BY SMTT(30)
    <3>4. ActivationAt(s, base[i], q, e) = Call_of(s, base[i], fn[i], q[2], e)
      BY <2>1, <2>3 DEF ActivationAt, Call_of, Operands
    <3> QED BY <2>1, <2>3, <3>3, <3>4
  <2> QED BY <2>2, <2>3
<1> HIDE DEF Kth, C
<1>6. [i \in 1..n |-> Kth(n - i)] = [i \in 1..n |-> C(i)]
  BY <1>5
<1>7. Calls(s, n, base, fn, p[2], end) = [i \in 1..n |-> C(i)]
  BY DEF Calls, C
<1> QED BY <1>4, <1>6, <1>7

(* What begins above the locals of a frame lies above its two words. *)
LEMMA Above ==
  ASSUME NEW b \in Nat, NEW l \in Nat, NEW t \in Nat, NEW p \in Nat,
         b + 2 + l <= t - p
  PROVE  b + 2 <= t
OBVIOUS

(* A frame takes at least two words, so the chain is not longer than the   *)
(* stack.                                                                  *)
LEMMA ChainFits ==
  ASSUME NEW n \in Nat, n > 0, NEW base \in [1..n -> Nat], NEW fn \in [1..n -> Funcs],
         \A i \in 1..n : FramePlace(i, base, fn)
  PROVE  n \in 1..StackLen
<1>1. StackLen \in Nat
  BY EngineAssumption
<1>2. ASSUME NEW i \in 2..n PROVE base[i - 1] + 2 <= base[i]
  <2>1. Operands(base[i - 1], fn[i - 1]) <= base[i] - ParamWords[fn[i]]
    <3>1. i \in 1..n /\ i - 1 \in 1..(i - 1)
      BY <1>1
    <3> QED BY <1>1, <3>1 DEF FramePlace
  <2>2. /\ base[i] \in Nat /\ base[i - 1] \in Nat
        /\ ParamWords[fn[i]] \in Nat /\ LocalWords[fn[i - 1]] \in Nat
    <3>1. i \in 1..n /\ i - 1 \in 1..n
      BY <1>1
    <3> QED BY <1>1, <3>1, EngineAssumption DEF WordCount
  <2>3. base[i - 1] + 2 + LocalWords[fn[i - 1]] <= base[i] - ParamWords[fn[i]]
    BY <2>1 DEF Operands
  <2> QED BY <2>2, <2>3, Above, Zenon
<1> DEFINE S == {k \in Nat : k + 1 \in 1..n => base[k + 1] >= k}
<1>3. 0 \in S
  BY <1>1
<1>4. ASSUME NEW k \in Nat, k \in S PROVE k + 1 \in S
  <2>1. CASE (k + 1) + 1 \in 1..n
    <3>1. k + 1 \in 1..n /\ (k + 1) + 1 \in 2..n /\ ((k + 1) + 1) - 1 = k + 1
      BY <1>1, <2>1
    <3>2. base[k + 1] >= k /\ base[k + 1] + 2 <= base[(k + 1) + 1]
      BY <1>2, <1>4, <3>1
    <3>3. base[k + 1] \in Nat /\ base[(k + 1) + 1] \in Nat
      BY <1>1, <2>1, <3>1
    <3> QED BY <3>2, <3>3
  <2> QED BY <2>1
<1> HIDE DEF S
<1>5. Nat \subseteq S
  BY <1>3, <1>4, SetInduction
<1>6. base[n] >= n - 1
  <2>1. n - 1 \in Nat /\ (n - 1) + 1 = n
    OBVIOUS
  <2> QED BY <2>1, <1>5 DEF S
<1>7. base[n] + 2 + LocalWords[fn[n]] + StackUsage[fn[n]] <= StackLen
  <2>1. n \in 1..n
    BY <1>1
  <2> QED BY <1>1, <2>1 DEF FramePlace, Operands
<1>8. base[n] \in Nat /\ LocalWords[fn[n]] \in Nat /\ StackUsage[fn[n]] \in Nat
  BY <1>1, EngineAssumption DEF WordCount
<1> QED BY <1>1, <1>6, <1>7, <1>8

(* The frames of a live call, and its function and place, make the linked  *)
(* frames that the walk follows: here and in the next state.               *)
LEMMA ChainIsLinked ==
  ASSUME NEW n \in Nat, n > 0, NEW base \in [1..n -> Nat], NEW fn \in [1..n -> Funcs],
         NEW s,
         \A i \in 1..n :
            /\ FramePlace(i, base, fn)
            /\ s[base[i]].params = ParamWords[fn[i]]
            /\ i = 1 => s[base[i] + 1].pc = Sentinel
            /\ i > 1 => /\ s[base[i]].length = base[i] - base[i - 1]
                        /\ s[base[i] + 1].pc \in Funcs \X (0..(CodeWords - 1))
                        /\ s[base[i] + 1].pc[1] = fn[i - 1]
  PROVE  Linked(s, n, base, fn)
<1>1. n \in 1..StackLen
  BY ChainFits
<1>2. \A i \in 1..n : s[base[i]].params = ParamWords[fn[i]]
  OBVIOUS
<1>3. Outermost(s, base[1])
  BY DEF Outermost
<1>4. ASSUME NEW i \in 2..n
      PROVE  /\ ~Outermost(s, base[i])
             /\ s[base[i]].length = base[i] - base[i - 1]
             /\ s[base[i] + 1].pc[1] = fn[i - 1]
  <2>1. i \in 1..n /\ i > 1
    BY n \in Nat
  <2>2. s[base[i] + 1].pc # Sentinel
    BY <2>1, TargetsAreNotSentinel
  <2> QED BY <2>1, <2>2 DEF Outermost
<1> QED BY <1>1, <1>2, <1>3, <1>4 DEF Linked

(* What the abstraction sees of an engine that executes a chain of calls.  *)
LEMMA LiveCalls ==
  ASSUME NEW n, NEW base, NEW fn, Chain(n, base, fn), n > 0
  PROVE  LiveActivations = Calls(stack, n, base, fn, pc[2], sp)
<1>1. /\ n \in Nat /\ base \in [1..n -> Nat] /\ fn \in [1..n -> Funcs]
      /\ Frames(n, base, fn)
  BY DEF Chain
<1>2. \A i \in 1..n : FrameWord(i, base, fn) /\ FramePlace(i, base, fn)
  BY <1>1 DEF Frames
<1>3. Linked(stack, n, base, fn)
  BY <1>1, <1>2, ChainIsLinked DEF FrameWord
<1>4. pc[1] = fn[n] /\ fp = base[n] /\ ~Idle
  BY <1>1 DEF Frames, Registers, Current, Idle
<1> QED BY <1>3, <1>4, WalkFindsCalls DEF LiveActivations

(* The same in the next state. *)
LEMMA NextLiveCalls ==
  ASSUME NEW n, NEW base, NEW fn, Chain(n, base, fn)', n > 0
  PROVE  LiveActivations' = Calls(stack', n, base, fn, pc'[2], sp')
<1>1. /\ n \in Nat /\ base \in [1..n -> Nat] /\ fn \in [1..n -> Funcs]
      /\ Frames(n, base, fn)'
  BY DEF Chain
<1>2. \A i \in 1..n : FrameWord(i, base, fn)' /\ FramePlace(i, base, fn)
  BY <1>1 DEF Frames, FramePlace, Operands
<1>3. Linked(stack', n, base, fn)
  BY <1>1, <1>2, ChainIsLinked DEF FrameWord
<1>4. pc'[1] = fn[n] /\ fp' = base[n] /\ pc' # Sentinel
  BY <1>1 DEF Frames, Registers, Current
<1>5. LiveActivations' = Walk(stack', fp', pc', sp')
  BY <1>4 DEF LiveActivations, Idle
<1> QED BY <1>3, <1>4, <1>5, WalkFindsCalls

(* An idle engine has no live call. *)
LEMMA NoLiveCalls ==
  ASSUME TRUE
  PROVE  /\ Idle => LiveActivations = <<>>
         /\ pc' = Sentinel => LiveActivations' = <<>>
BY DEF LiveActivations, Idle

-----------------------------------------------------------------------------
(* Words of the stack as sequences of data *)

(* The data of the words from lo to hi, as a sequence. *)
LEMMA DataFacts ==
  ASSUME NEW s, NEW lo \in Int, NEW hi \in Int, lo <= hi,
         NEW S, \A a \in lo..(hi - 1) : s[a].value \in S
  PROVE  /\ Data(s, lo, hi) \in Seq(S)
         /\ Len(Data(s, lo, hi)) = hi - lo
         /\ \A i \in 1..(hi - lo) : Data(s, lo, hi)[i] = s[lo + i - 1].value
<1>1. \A i \in 1..(hi - lo) : lo + i - 1 \in lo..(hi - 1)
  OBVIOUS
<1>2. \A i \in 1..(hi - lo) : Data(s, lo, hi)[i] = s[lo + i - 1].value
  BY DEF Data
<1>3. Data(s, lo, hi) \in [1..(hi - lo) -> S]
  BY <1>1 DEF Data
<1>4. hi - lo \in Nat
  OBVIOUS
<1>5. Data(s, lo, hi) \in Seq(S)
  BY <1>3, <1>4, SeqDef
<1>6. Len(Data(s, lo, hi)) = hi - lo
  BY <1>3, <1>4, LengthOfWords
<1> QED BY <1>2, <1>5, <1>6

(* The values of the words anywhere in s. *)
Held(s) == {s[a].value : a \in Int}

(* The same, for no particular set of data. *)
LEMMA DataHeld ==
  ASSUME NEW s, NEW lo \in Int, NEW hi \in Int, lo <= hi
  PROVE  /\ Data(s, lo, hi) \in Seq(Held(s))
         /\ Len(Data(s, lo, hi)) = hi - lo
         /\ \A i \in 1..(hi - lo) : Data(s, lo, hi)[i] = s[lo + i - 1].value
<1>1. \A a \in lo..(hi - 1) : s[a].value \in Held(s)
  BY DEF Held
<1> QED BY <1>1, DataFacts, ZenonT(30)

(* The data of words that a write does not reach. *)
LEMMA SameData ==
  ASSUME NEW s, NEW t, NEW lo \in Int, NEW hi \in Int,
         \A a \in lo..(hi - 1) : t[a] = s[a]
  PROVE  Data(t, lo, hi) = Data(s, lo, hi)
<1>1. \A i \in 1..(hi - lo) : t[lo + i - 1] = s[lo + i - 1]
  OBVIOUS
<1> QED BY <1>1 DEF Data

(* The data of two adjacent ranges of words, one after the other. *)
LEMMA DataConcat ==
  ASSUME NEW s, NEW lo \in Int, NEW mid \in Int, NEW hi \in Int,
         lo <= mid, mid <= hi
  PROVE  Data(s, lo, hi) = Data(s, lo, mid) \o Data(s, mid, hi)
<1>0. lo <= hi
  OBVIOUS
<1>1. /\ Data(s, lo, hi) \in Seq(Held(s)) /\ Len(Data(s, lo, hi)) = hi - lo
      /\ \A i \in 1..(hi - lo) : Data(s, lo, hi)[i] = s[lo + i - 1].value
  BY <1>0, DataHeld, ZenonT(30)
<1>2. /\ Data(s, lo, mid) \in Seq(Held(s)) /\ Len(Data(s, lo, mid)) = mid - lo
      /\ \A i \in 1..(mid - lo) : Data(s, lo, mid)[i] = s[lo + i - 1].value
  BY DataHeld
<1>3. /\ Data(s, mid, hi) \in Seq(Held(s)) /\ Len(Data(s, mid, hi)) = hi - mid
      /\ \A i \in 1..(hi - mid) : Data(s, mid, hi)[i] = s[mid + i - 1].value
  BY DataHeld
<1> PICK a, b, c : /\ a = Data(s, lo, hi) /\ b = Data(s, lo, mid) /\ c = Data(s, mid, hi)
  OBVIOUS
<1>4. /\ b \o c \in Seq(Held(s)) /\ Len(b \o c) = Len(b) + Len(c)
      /\ \A i \in 1..(Len(b) + Len(c)) :
            (b \o c)[i] = IF i <= Len(b) THEN b[i] ELSE c[i - Len(b)]
  BY <1>2, <1>3, ConcatProperties, SMTT(30)
<1>5. Len(b) + Len(c) = hi - lo /\ Len(b) = mid - lo
  BY <1>2, <1>3
<1>6. ASSUME NEW i \in 1..(hi - lo) PROVE a[i] = (b \o c)[i]
  <2>1. CASE i <= mid - lo
    <3>1. i \in 1..(mid - lo)
      BY <2>1
    <3> QED BY <1>1, <1>2, <1>4, <1>5, <3>1
  <2>2. CASE ~(i <= mid - lo)
    <3>1. i - (mid - lo) \in 1..(hi - mid) /\ mid + (i - (mid - lo)) - 1 = lo + i - 1
      BY <2>2
    <3>2. (b \o c)[i] = c[i - (mid - lo)]
      BY <1>4, <1>5, <2>2
    <3>3. c[i - (mid - lo)] = s[mid + (i - (mid - lo)) - 1].value
      BY <1>3, <3>1
    <3> QED BY <1>1, <3>1, <3>2, <3>3
  <2> QED BY <2>1, <2>2
<1>7. a \in Seq(Held(s)) /\ Len(a) = hi - lo
  BY <1>1
<1>8. a = b \o c
  BY <1>4, <1>5, <1>6, <1>7, SeqEqual, ZenonT(30)
<1> QED BY <1>8

(* A part of a sequence: SubSeq, which the provers expand everywhere. *)
Slice(d, i, j) == SubSeq(d, i, j)

(* The data at the places i to j of the data of a range of words. *)
LEMMA DataSlice ==
  ASSUME NEW s, NEW lo \in Int, NEW hi \in Int, NEW l \in Int, NEW h \in Int,
         lo <= l, l <= h, h <= hi,
         NEW i \in Int, NEW j \in Int, i = l - lo + 1, j = h - lo
  PROVE  Slice(Data(s, lo, hi), i, j) = Data(s, l, h)
<1>1. lo <= hi
  OBVIOUS
<1>2. /\ Data(s, lo, hi) \in Seq(Held(s)) /\ Len(Data(s, lo, hi)) = hi - lo
      /\ \A k \in 1..(hi - lo) : Data(s, lo, hi)[k] = s[lo + k - 1].value
  BY <1>1, DataHeld
<1>3. /\ Data(s, l, h) \in Seq(Held(s)) /\ Len(Data(s, l, h)) = h - l
      /\ \A k \in 1..(h - l) : Data(s, l, h)[k] = s[l + k - 1].value
  BY DataHeld
<1> PICK d, e : d = Data(s, lo, hi) /\ e = Data(s, l, h)
  OBVIOUS
<1>4. \A k \in i..j : k \in 1..(hi - lo)
  OBVIOUS
<1>5. ASSUME NEW k \in i..j PROVE d[k] \in Held(s)
  <2>1. d[k] = s[lo + k - 1].value /\ lo + k - 1 \in Int
    BY <1>2, <1>4
  <2> QED BY <2>1 DEF Held
<1>6. /\ SubSeq(d, i, j) \in Seq(Held(s))
      /\ Len(SubSeq(d, i, j)) = h - l
      /\ \A k \in 1..(h - l) : SubSeq(d, i, j)[k] = d[i + k - 1]
  <2>1. j - i + 1 = h - l
    OBVIOUS
  <2>2. /\ SubSeq(d, i, j) \in Seq(Held(s))
        /\ Len(SubSeq(d, i, j)) = IF i <= j THEN j - i + 1 ELSE 0
        /\ \A k \in 1..(j - i + 1) : SubSeq(d, i, j)[k] = d[i + k - 1]
    BY <1>5, SubSeqProperties
  <2> QED BY <2>1, <2>2
<1>7. ASSUME NEW k \in 1..(h - l) PROVE SubSeq(d, i, j)[k] = e[k]
  <2>1. i + k - 1 \in 1..(hi - lo) /\ lo + (i + k - 1) - 1 = l + k - 1
    OBVIOUS
  <2>2. d[i + k - 1] = s[lo + (i + k - 1) - 1].value
    BY <1>2, <2>1
  <2> QED BY <1>3, <1>6, <2>1, <2>2
<1>8. SubSeq(d, i, j) = e
  BY <1>3, <1>6, <1>7, SeqEqual
<1> QED BY <1>8 DEF Slice

(* All but the last k words, and the last k words, of the data below hi.   *)
LEMMA DataEnds ==
  ASSUME NEW s, NEW lo \in Int, NEW hi \in Int, NEW k \in Int,
         0 <= k, k <= hi - lo
  PROVE  /\ Len(Data(s, lo, hi)) = hi - lo
         /\ Abstract!First(Data(s, lo, hi), k) = Data(s, lo, hi - k)
         /\ Abstract!LastOf(Data(s, lo, hi), k) = Data(s, hi - k, hi)
<1>1. Len(Data(s, lo, hi)) = hi - lo
  <2>1. lo <= hi
    OBVIOUS
  <2> QED BY <2>1, DataHeld
<1> PICK m : m = hi - k
  OBVIOUS
<1>2. m \in Int /\ lo <= m /\ m <= hi /\ lo <= lo /\ hi <= hi
  OBVIOUS
<1>3. Slice(Data(s, lo, hi), 1, hi - lo - k) = Data(s, lo, m)
  <2>1. 1 = lo - lo + 1 /\ hi - lo - k = m - lo /\ hi - lo - k \in Int
    OBVIOUS
  <2> QED BY <1>2, <2>1, DataSlice
<1>4. Slice(Data(s, lo, hi), hi - lo - k + 1, hi - lo) = Data(s, m, hi)
  <2>1. /\ hi - lo - k + 1 = m - lo + 1
        /\ hi - lo - k + 1 \in Int /\ hi - lo \in Int
    OBVIOUS
  <2> QED BY <1>2, <2>1, DataSlice
<1> QED BY <1>1, <1>3, <1>4 DEF Slice, Abstract!First, Abstract!LastOf

(* The data of k words written at lo. *)
LEMMA DataStored ==
  ASSUME NEW s \in [Addr -> Word], NEW lo \in Nat, NEW k \in Nat,
         NEW ws \in [1..k -> Word], lo + k <= StackLen
  PROVE  Data(Store(s, lo, ws), lo, lo + k) = [i \in 1..k |-> ws[i].value]
<1>1. \A a \in Addr : lo <= a /\ a < lo + k => Store(s, lo, ws)[a] = ws[a - lo + 1]
  <2>1. lo \in Int
    OBVIOUS
  <2> QED BY <2>1, StoreWords
<1>2. ASSUME NEW i \in 1..k PROVE Store(s, lo, ws)[lo + i - 1] = ws[i]
  <2>1. /\ lo + i - 1 \in Addr /\ lo <= lo + i - 1 /\ lo + i - 1 < lo + k
        /\ (lo + i - 1) - lo + 1 = i
    BY EngineAssumption DEF Addr
  <2> QED BY <1>1, <2>1
<1>3. (lo + k) - lo = k
  OBVIOUS
<1> QED BY <1>2, <1>3 DEF Data

(* Values that an instruction computes are values of the abstraction. *)
LEMMA WordsHoldValues ==
  ASSUME NEW k, NEW ws \in Words(k)
  PROVE  [i \in 1..k |-> ws[i].value] \in Abstract!Tuples(k)
<1>1. \A i \in 1..k : ws[i].value \in Values
  BY DEF Words, Val
<1> QED BY <1>1 DEF Abstract!Tuples

(* The data of the words an instruction takes off the top. *)
LEMMA TopHolds ==
  ASSUME NEW s, NEW top \in Int, NEW k \in Nat
  PROVE  [i \in 1..k |-> Top(s, top, k)[i].value] = Data(s, top - k, top)
<1>1. top - (top - k) = k
  OBVIOUS
<1>2. \A i \in 1..k : Top(s, top, k)[i] = s[top - k + i - 1]
  BY DEF Top
<1> QED BY <1>1, <1>2 DEF Data

-----------------------------------------------------------------------------
(* The callers *)

(* What lies above the locals of a frame lies above its parameters. *)
LEMMA Below ==
  ASSUME NEW b \in Nat, NEW l \in Nat, NEW p \in Nat, NEW t \in Int, b + 2 + l <= t
  PROVE  b - p <= t
OBVIOUS

(* The places of the frames of a chain, the first above its arguments. *)
Stacked(n, base, fn) ==
  /\ n \in Nat /\ n > 0
  /\ \A i \in 1..n : base[i] \in Nat /\ fn[i] \in Funcs /\ FramePlace(i, base, fn)
  /\ base[1] = ParamWords[fn[1]]

(* The frames of a chain lie one above the other, arguments included.      *)
LEMMA FramesAscend ==
  ASSUME NEW n, NEW base, NEW fn, Stacked(n, base, fn),
         NEW i \in 1..n
  PROVE  /\ ParamWords[fn[i]] \in Nat /\ LocalWords[fn[i]] \in Nat
         /\ base[i] \in Nat /\ ParamWords[fn[i]] <= base[i]
         /\ base[i] + 2 + LocalWords[fn[i]] <= StackLen
         /\ i < n =>
              /\ base[i] + 2 + LocalWords[fn[i]] <= base[i + 1] - ParamWords[fn[i + 1]]
              /\ base[i + 1] - ParamWords[fn[i + 1]] <= base[n] - ParamWords[fn[n]]
              /\ base[i] + 2 + LocalWords[fn[i]] <= base[n] - ParamWords[fn[n]]
<1>0. /\ n \in Nat /\ n > 0 /\ base[1] = ParamWords[fn[1]]
      /\ \A k \in 1..n : base[k] \in Nat /\ fn[k] \in Funcs /\ FramePlace(k, base, fn)
  BY DEF Stacked
<1>1. \A k \in 1..n : /\ ParamWords[fn[k]] \in Nat /\ LocalWords[fn[k]] \in Nat
                      /\ StackUsage[fn[k]] \in Nat
  BY <1>0, EngineAssumption DEF WordCount
<1>2. \A k \in 1..n, j \in 1..n : j < k =>
         base[j] + 2 + LocalWords[fn[j]] <= base[k] - ParamWords[fn[k]]
  <2> SUFFICES ASSUME NEW k \in 1..n, NEW j \in 1..n, j < k
               PROVE  base[j] + 2 + LocalWords[fn[j]] <= base[k] - ParamWords[fn[k]]
    BY <1>0
  <2>1. j \in 1..(k - 1) /\ FramePlace(k, base, fn)
    BY <1>0
  <2>2. Operands(base[j], fn[j]) <= base[k] - ParamWords[fn[k]]
    BY <1>0, <2>1 DEF FramePlace
  <2> QED BY <1>0, <2>2 DEF Operands
<1>3. ParamWords[fn[i]] <= base[i]
  <2>1. CASE i = 1
    BY <1>0, <2>1, <1>1
  <2>2. CASE i # 1
    <3>1. 1 \in 1..n /\ 1 < i
      BY <1>0, <2>2
    <3>2. base[1] + 2 + LocalWords[fn[1]] <= base[i] - ParamWords[fn[i]]
      BY <1>0, <3>1, <1>2
    <3>3. /\ base[1] \in Nat /\ LocalWords[fn[1]] \in Nat
          /\ base[i] \in Nat /\ ParamWords[fn[i]] \in Nat
      BY <1>0, <3>1, <1>1
    <3> QED BY <3>2, <3>3
  <2> QED BY <1>0, <2>1, <2>2
<1>4. base[i] + 2 + LocalWords[fn[i]] <= StackLen
  <2>1. base[i] + 2 + LocalWords[fn[i]] + StackUsage[fn[i]] <= StackLen
    BY <1>0 DEF FramePlace, Operands
  <2> QED BY <1>0, <2>1, <1>1, EngineAssumption
<1>5. ASSUME i < n
      PROVE  /\ base[i] + 2 + LocalWords[fn[i]] <= base[i + 1] - ParamWords[fn[i + 1]]
             /\ base[i + 1] - ParamWords[fn[i + 1]] <= base[n] - ParamWords[fn[n]]
             /\ base[i] + 2 + LocalWords[fn[i]] <= base[n] - ParamWords[fn[n]]
  <2>1. i + 1 \in 1..n /\ i < i + 1 /\ n \in 1..n
    BY <1>0, <1>5
  <2>2. CASE i + 1 = n
    <3>1. base[i] + 2 + LocalWords[fn[i]] <= base[n] - ParamWords[fn[n]]
      BY <1>0, <1>2, <2>1, <2>2
    <3>2. base[n] \in Nat /\ ParamWords[fn[n]] \in Nat
      BY <1>0, <1>1, <2>1
    <3> QED BY <1>0, <2>2, <3>1, <3>2
  <2>3. CASE i + 1 # n
    <3>1. i + 1 < n
      BY <1>0, <1>5, <2>3
    <3>2. /\ base[i] + 2 + LocalWords[fn[i]] <= base[i + 1] - ParamWords[fn[i + 1]]
          /\ base[i + 1] + 2 + LocalWords[fn[i + 1]] <= base[n] - ParamWords[fn[n]]
          /\ base[i] + 2 + LocalWords[fn[i]] <= base[n] - ParamWords[fn[n]]
      BY <1>0, <1>2, <1>5, <2>1, <3>1
    <3> PICK b, l, p, t : /\ b = base[i + 1] /\ l = LocalWords[fn[i + 1]]
                          /\ p = ParamWords[fn[i + 1]]
                          /\ t = base[n] - ParamWords[fn[n]]
      BY <1>0
    <3>3. b \in Nat /\ l \in Nat /\ p \in Nat /\ t \in Int
      BY <1>0, <1>1, <2>1
    <3>6. b + 2 + l <= t
      BY <3>2, Zenon
    <3>4. b - p <= t
      BY <3>3, <3>6, Below
    <3>5. base[i + 1] - ParamWords[fn[i + 1]] <= base[n] - ParamWords[fn[n]]
      BY <3>4, Zenon
    <3> QED BY <3>2, <3>5, Zenon
  <2> QED BY <1>0, <2>2, <2>3
<1> QED BY <1>0, <1>1, <1>3, <1>4, <1>5

(* Two stacks hold the same words below top. *)
AgreeBelow(s, t, top) == \A a \in Addr : a < top => t[a] = s[a]

(* What lies below the arguments of the last frame is all there is to its  *)
(* callers.                                                                *)
LEMMA SameCallers ==
  ASSUME NEW n, NEW base, NEW fn, Stacked(n, base, fn),
         NEW s, NEW t,
         AgreeBelow(s, t, base[n] - ParamWords[fn[n]]),
         NEW i \in 1..n, i < n, NEW at
  PROVE  /\ Call_of(t, base[i], fn[i], at, base[i + 1] - ParamWords[fn[i + 1]])
              = Call_of(s, base[i], fn[i], at, base[i + 1] - ParamWords[fn[i + 1]])
         /\ t[base[i]] = s[base[i]] /\ t[base[i] + 1] = s[base[i] + 1]
<1>1. /\ ParamWords[fn[i]] \in Nat /\ LocalWords[fn[i]] \in Nat
      /\ base[i] \in Nat /\ ParamWords[fn[i]] <= base[i]
      /\ base[i] + 2 + LocalWords[fn[i]] <= base[i + 1] - ParamWords[fn[i + 1]]
      /\ base[i + 1] - ParamWords[fn[i + 1]] <= base[n] - ParamWords[fn[n]]
  BY FramesAscend
<1>2. /\ base[n] - ParamWords[fn[n]] \in Int
      /\ base[n] - ParamWords[fn[n]] <= StackLen
  <2>1. n \in 1..n
    BY DEF Stacked
  <2>2. /\ ParamWords[fn[n]] \in Nat /\ base[n] \in Nat
        /\ base[n] + 2 + LocalWords[fn[n]] <= StackLen /\ LocalWords[fn[n]] \in Nat
        /\ StackLen \in Nat
    BY <2>1, FramesAscend, EngineAssumption
  <2> QED BY <2>2
<1>3. base[i + 1] - ParamWords[fn[i + 1]] \in Int
  <2>1. i + 1 \in 1..n
    BY DEF Stacked
  <2>2. ParamWords[fn[i + 1]] \in Nat /\ base[i + 1] \in Nat
    BY <2>1, FramesAscend
  <2> QED BY <2>2
<1>4. ASSUME NEW top \in Int, top <= StackLen, AgreeBelow(s, t, top),
             NEW end \in Int, end <= top,
             NEW b \in Nat, NEW f, ParamWords[f] \in Nat, ParamWords[f] <= b,
             LocalWords[f] \in Nat, b + 2 + LocalWords[f] <= end
      PROVE  /\ Call_of(t, b, f, at, end) = Call_of(s, b, f, at, end)
             /\ t[b] = s[b] /\ t[b + 1] = s[b + 1]
  <2> PICK p, l : p = ParamWords[f] /\ l = LocalWords[f]
    OBVIOUS
  <2>1. \A a \in Int : 0 <= a /\ a < top => t[a] = s[a]
    BY <1>4, EngineAssumption DEF Addr, AgreeBelow
  <2>2. Data(t, b - p, b) = Data(s, b - p, b)
    <3>1. \A a \in (b - p)..(b - 1) : 0 <= a /\ a < top /\ a \in Int
      BY <1>4
    <3>2. b - p \in Int /\ b \in Int
      BY <1>4
    <3> QED BY <1>4, <2>1, <3>1, <3>2, SameData
  <2>3. Data(t, b + 2, b + 2 + l) = Data(s, b + 2, b + 2 + l)
    <3>1. \A a \in (b + 2)..(b + 2 + l - 1) : 0 <= a /\ a < top /\ a \in Int
      BY <1>4
    <3>2. b + 2 \in Int /\ b + 2 + l \in Int
      BY <1>4
    <3> QED BY <1>4, <2>1, <3>1, <3>2, SameData
  <2>4. Data(t, b + 2 + l, end) = Data(s, b + 2 + l, end)
    <3>1. \A a \in (b + 2 + l)..(end - 1) : 0 <= a /\ a < top /\ a \in Int
      BY <1>4
    <3>2. b + 2 + l \in Int
      BY <1>4
    <3> QED BY <1>4, <2>1, <3>1, <3>2, SameData
  <2>5. t[b] = s[b] /\ t[b + 1] = s[b + 1]
    <3>1. /\ 0 <= b /\ b < top /\ b \in Int
          /\ 0 <= b + 1 /\ b + 1 < top /\ b + 1 \in Int
      BY <1>4
    <3> QED BY <2>1, <3>1
  <2> QED BY <2>2, <2>3, <2>4, <2>5 DEF Call_of, Operands
<1> QED BY <1>1, <1>2, <1>3, <1>4

(* The facts of a chain that the abstraction needs, by themselves. *)
LEMMA ChainFacts ==
  ASSUME NEW n, NEW base, NEW fn, Chain(n, base, fn), ~Idle
  PROVE  /\ n \in Nat \ {0} /\ n \in 1..n /\ n > 0
         /\ base \in [1..n -> Nat] /\ fn \in [1..n -> Funcs]
         /\ \A i \in 1..n : FramePlace(i, base, fn)
         /\ base[1] = ParamWords[fn[1]]
         /\ fp = base[n] /\ Current = fn[n]
<1>1. /\ n \in Nat /\ base \in [1..n -> Nat] /\ fn \in [1..n -> Funcs]
      /\ Frames(n, base, fn)
  BY DEF Chain
<1>2. n > 0 /\ n \in 1..n /\ 1 \in 1..n
  BY <1>1 DEF Frames, Registers, Idle
<1>3. \A i \in 1..n : FramePlace(i, base, fn) /\ FrameWord(i, base, fn)
  BY <1>1 DEF Frames
<1>4. base[1] = ParamWords[fn[1]]
  BY <1>2, <1>3 DEF FrameWord
<1>5. fp = base[n] /\ Current = fn[n]
  BY <1>1, <1>2 DEF Frames, Registers
<1> QED BY <1>1, <1>2, <1>3, <1>4, <1>5

(* There are as many live calls as frames. *)
LEMMA LengthOfCalls ==
  ASSUME NEW s, NEW n \in Nat, NEW base, NEW fn, NEW at, NEW end
  PROVE  Len(Calls(s, n, base, fn, at, end)) = n
<1> DEFINE c == Calls(s, n, base, fn, at, end)
<1>1. c \in [1..n -> {c[i] : i \in 1..n}]
  BY DEF Calls
<1> HIDE DEF c
<1>2. Len(c) = n
  BY <1>1, LengthOfWords
<1> QED BY <1>2 DEF c

(* What the live calls are when one executes. *)
LEMMA Callee ==
  ASSUME NEW n, NEW base, NEW fn, Chain(n, base, fn), ~Idle
  PROVE  /\ LiveActivations = Calls(stack, n, base, fn, pc[2], sp)
         /\ Len(LiveActivations) = n
         /\ DOMAIN LiveActivations = 1..n
         /\ LiveActivations # <<>>
         /\ LiveActivations[n] = Call_of(stack, fp, Current, pc[2], sp)
<1>1. /\ n \in Nat \ {0} /\ n \in 1..n /\ n > 0 /\ fp = base[n] /\ Current = fn[n]
  BY ChainFacts
<1>2. LiveActivations = Calls(stack, n, base, fn, pc[2], sp)
  BY <1>1, LiveCalls
<1>3. Len(LiveActivations) = n
  BY <1>1, <1>2, LengthOfCalls
<1>4. DOMAIN LiveActivations = 1..n
  BY <1>2 DEF Calls
<1>5. LiveActivations # <<>>
  BY <1>1, <1>4
<1>6. LiveActivations[n] = Call_of(stack, fp, Current, pc[2], sp)
  BY <1>1, <1>2 DEF Calls
<1> QED BY <1>2, <1>3, <1>4, <1>5, <1>6

(* The frames of a chain are stacked, the registers at the last one. *)
LEMMA ChainIsStacked ==
  ASSUME NEW n, NEW base, NEW fn, Chain(n, base, fn), ~Idle
  PROVE  Stacked(n, base, fn) /\ n \in 1..n /\ fp = base[n] /\ Current = fn[n]
BY ChainFacts DEF Stacked

(* A step of the callee in its own frame changes the last activation only. *)
LEMMA CalleeMoves ==
  ASSUME NEW n, NEW base, NEW fn, Chain(n, base, fn), ~Idle, KeepsChain,
         fp' = fp, Current' = Current,
         AgreeBelow(stack, stack', fp - ParamWords[Current]),
         stack'[fp + 1] = stack[fp + 1]
  PROVE  LiveActivations'
           = [LiveActivations EXCEPT
                ![n] = Call_of(stack', fp, Current, pc'[2], sp')]
<1>1. Stacked(n, base, fn) /\ n \in 1..n /\ fp = base[n] /\ Current = fn[n]
  BY ChainIsStacked
<1>2. n \in Nat /\ n > 0
  BY <1>1 DEF Stacked
<1>3. Chain(n, base, fn)'
  BY DEF KeepsChain
<1>4. /\ LiveActivations = Calls(stack, n, base, fn, pc[2], sp)
      /\ DOMAIN LiveActivations = 1..n
  BY Callee
<1>5. LiveActivations' = Calls(stack', n, base, fn, pc'[2], sp')
  BY <1>2, <1>3, NextLiveCalls
<1>6. ASSUME NEW i \in 1..n, i # n
      PROVE  Calls(stack', n, base, fn, pc'[2], sp')[i]
               = Calls(stack, n, base, fn, pc[2], sp)[i]
  <2>1. i < n /\ i + 1 \in 1..n
    BY <1>2, <1>6
  <2>2. \A at :
          Call_of(stack', base[i], fn[i], at, base[i + 1] - ParamWords[fn[i + 1]])
            = Call_of(stack, base[i], fn[i], at, base[i + 1] - ParamWords[fn[i + 1]])
    BY <1>1, <2>1, SameCallers
  <2>3. stack'[base[i + 1] + 1] = stack[base[i + 1] + 1]
    <3>1. CASE i + 1 = n
      BY <1>1, <3>1
    <3>2. CASE i + 1 # n
      <4>1. i + 1 < n
        BY <2>1, <3>2, <1>2
      <4> QED BY <1>1, <2>1, <4>1, SameCallers
    <3> QED BY <3>1, <3>2
  <2> QED BY <1>6, <2>2, <2>3 DEF Calls
<1>7. Calls(stack', n, base, fn, pc'[2], sp')[n] = Call_of(stack', fp, Current, pc'[2], sp')
  BY <1>1 DEF Calls
<1>8. DOMAIN Calls(stack', n, base, fn, pc'[2], sp') = 1..n
  BY DEF Calls
<1> PICK c, d : /\ c = Calls(stack, n, base, fn, pc[2], sp)
                /\ d = Calls(stack', n, base, fn, pc'[2], sp')
  OBVIOUS
<1>9. c = [i \in 1..n |-> c[i]] /\ d = [i \in 1..n |-> d[i]]
  BY DEF Calls
<1>10. d = [c EXCEPT ![n] = d[n]]
  BY <1>1, <1>6, <1>9
<1> QED BY <1>4, <1>5, <1>7, <1>10

(* A write that misses the frame words leaves the callers alone.           *)
LEMMA WriteSparesCallers ==
  ASSUME TypeOK, ~Idle, NEW lo \in Int, NEW k \in Nat, NEW ws \in [1..k -> Word],
         Misses(lo, k), stack' = Store(stack, lo, ws), ParamWords[Current] <= fp,
         Operands(fp, Current) <= StackLen
  PROVE  /\ AgreeBelow(stack, stack', fp - ParamWords[Current])
         /\ stack'[fp + 1] = stack[fp + 1]
<1>1. /\ ParamWords[Current] \in Nat /\ LocalWords[Current] \in Nat /\ fp \in Nat
      /\ Operands(fp, Current) = fp + 2 + LocalWords[Current]
      /\ stack \in [Addr -> Word]
  BY CurrentFacts DEF TypeOK, Operands
<1>2. \A a \in Addr : ~(lo <= a /\ a < lo + k) => stack'[a] = stack[a]
  BY <1>1, StoreWords, SMTT(30)
<1>3. ASSUME NEW a \in Addr, a < fp - ParamWords[Current]
      PROVE  stack'[a] = stack[a]
  <2>1. a \in Int
    BY EngineAssumption DEF Addr
  <2>2. ~(lo <= a /\ a < lo + k)
    BY <1>1, <1>3, <2>1 DEF Misses
  <2> QED BY <1>2, <2>2
<1>4. fp + 1 \in Addr /\ ~(lo <= fp + 1 /\ fp + 1 < lo + k)
  <2>1. fp + 1 \in Addr
    BY <1>1, EngineAssumption DEF Addr
  <2> QED BY <1>1, <2>1 DEF Misses
<1> QED BY <1>2, <1>3, <1>4 DEF AgreeBelow

-----------------------------------------------------------------------------
(* The callee *)

(* The abstraction's callee is the call that the registers point at.       *)
LEMMA CalleeFacts ==
  ASSUME IInv, ~Idle
  PROVE  /\ Abstract!Calling
         /\ Abstract!Callee = Call_of(stack, fp, Current, pc[2], sp)
         /\ Abstract!Callee.fn = Current
         /\ Abstract!Callee.at = pc[2]
         /\ Abstract!Callee.operands = Data(stack, Operands(fp, Current), sp)
         /\ Len(Abstract!Callee.operands) = Height
         /\ sp \in Nat /\ fp \in Nat /\ Operands(fp, Current) \in Nat
         /\ Operands(fp, Current) <= sp
<1> PICK n, base, fn : Chain(n, base, fn)
  BY DEF IInv, Framed
<1>1. /\ Len(LiveActivations) = n /\ LiveActivations # <<>>
      /\ LiveActivations[n] = Call_of(stack, fp, Current, pc[2], sp)
  BY Callee
<1>2. Abstract!Calling /\ Abstract!Callee = Call_of(stack, fp, Current, pc[2], sp)
  BY <1>1 DEF Abstract!Calling, Abstract!Callee, Abstract!Depth
<1>3. TypeOK /\ StackInBounds
  BY RegisterFacts DEF IInv
<1>4. /\ sp \in Nat /\ fp \in Nat /\ Operands(fp, Current) \in Nat
      /\ Operands(fp, Current) <= sp
  BY <1>3, CurrentFacts DEF TypeOK, StackInBounds
<1>5. Len(Data(stack, Operands(fp, Current), sp)) = sp - Operands(fp, Current)
  <2>1. sp \in Int /\ Operands(fp, Current) \in Int
    BY <1>4
  <2> QED BY <1>4, <2>1, DataHeld
<1>6. Len(Data(stack, Operands(fp, Current), sp)) = Height
  BY <1>5 DEF Height
<1> QED BY <1>2, <1>4, <1>6 DEF Call_of

(* A step of the callee that keeps the chain and writes no frame word      *)
(* changes the callee alone.                                               *)
LEMMA CalleeBecomes ==
  ASSUME IInv, ~Idle, KeepsChain, fp' = fp, Current' = Current,
         NEW lo \in Int, NEW k \in Nat, NEW ws \in [1..k -> Word],
         Misses(lo, k), stack' = Store(stack, lo, ws)
  PROVE  Abstract!Becomes(Call_of(stack', fp, Current, pc'[2], sp'))
<1> PICK n, base, fn : Chain(n, base, fn)
  BY DEF IInv, Framed
<1>1. Len(LiveActivations) = n
  BY Callee
<1>2. TypeOK /\ StackInBounds
  BY RegisterFacts DEF IInv
<1>3. Operands(fp, Current) <= StackLen
  BY <1>2, CurrentFacts, EngineAssumption DEF StackInBounds
<1>4. ParamWords[Current] <= fp
  <2>1. /\ n \in Nat /\ base \in [1..n -> Nat] /\ fn \in [1..n -> Funcs]
        /\ Frames(n, base, fn)
    BY DEF Chain
  <2>2. n \in 1..n
    BY <2>1 DEF Frames, Registers, Idle
  <2> QED BY <1>2, <2>1, <2>2, FrameAddresses
<1>5. /\ AgreeBelow(stack, stack', fp - ParamWords[Current])
      /\ stack'[fp + 1] = stack[fp + 1]
  BY <1>2, <1>3, <1>4, WriteSparesCallers
<1>6. LiveActivations'
        = [LiveActivations EXCEPT ![n] = Call_of(stack', fp, Current, pc'[2], sp')]
  BY <1>5, CalleeMoves
<1> QED BY <1>1, <1>6 DEF Abstract!Becomes, Abstract!Depth

(* An activation elsewhere in its body, with other operands. *)
At(c, at) == [c EXCEPT !.at = at]
Gone(c, operands, at) == [c EXCEPT !.operands = operands, !.at = at]

Act(f, at, locals, operands) ==
  [fn |-> f, at |-> at, locals |-> locals, operands |-> operands]

(* An activation elsewhere in its body. *)
LEMMA AtFacts ==
  ASSUME NEW f, NEW a, NEW l, NEW o, NEW a1
  PROVE  At(Act(f, a, l, o), a1) = Act(f, a1, l, o)
<1> PICK c : c = Act(f, a, l, o)
  OBVIOUS
<1> QED BY DEF At, Act

(* An activation elsewhere in its body, with other operands. *)
LEMMA GoneFacts ==
  ASSUME NEW f, NEW a, NEW l, NEW o, NEW o1, NEW a1
  PROVE  Gone(Act(f, a, l, o), o1, a1) = Act(f, a1, l, o1)
<1> PICK c : c = Act(f, a, l, o)
  OBVIOUS
<1>1. ASSUME NEW d, d = [c EXCEPT !.operands = o1]
      PROVE  d = Act(f, a, l, o1) /\ Gone(c, o1, a1) = At(d, a1)
  BY <1>1 DEF Act, Gone, At
<1>2. At(Act(f, a, l, o1), a1) = Act(f, a1, l, o1)
  BY AtFacts
<1> HIDE DEF Gone, At
<1> QED BY <1>1, <1>2

(* An instruction that writes among the operands only replaces the last of *)
(* them, and goes on.                                                      *)
LEMMA OperandsBecome ==
  ASSUME IInv, ~Idle, KeepsChain, fp' = fp, Current' = Current,
         NEW p \in Nat, p <= Height, NEW k \in Nat, NEW ws \in [1..k -> Word],
         stack' = Store(stack, sp - p, ws), sp' = sp - p + k, sp' <= StackLen
  PROVE  Abstract!Becomes(
           Gone(Abstract!Callee,
                Abstract!First(Abstract!Callee.operands, p)
                  \o [i \in 1..k |-> ws[i].value],
                pc'[2]))
<1> DEFINE lo == sp - p
           bottom == Operands(fp, Current)
<1>1. /\ sp \in Nat /\ fp \in Nat /\ bottom \in Nat /\ bottom <= sp
      /\ Abstract!Callee = Call_of(stack, fp, Current, pc[2], sp)
  BY CalleeFacts
<1>2. /\ lo \in Nat /\ bottom <= lo /\ lo <= sp /\ p <= sp - bottom
      /\ lo + k <= StackLen
  BY <1>1 DEF Height
<1>12. lo + k = sp'
  OBVIOUS
<1>3. /\ ParamWords[Current] \in Nat /\ LocalWords[Current] \in Nat
      /\ bottom = fp + 2 + LocalWords[Current] /\ stack \in [Addr -> Word]
  BY CurrentFacts DEF Operands, IInv, TypeOK
<1>4. Abstract!Becomes(Call_of(stack', fp, Current, pc'[2], sp'))
  <2>1. Misses(lo, k) /\ lo \in Int
    BY <1>2 DEF Misses
  <2> QED BY <2>1, CalleeBecomes
<1>5. \A a \in Addr : a < lo => stack'[a] = stack[a]
  <2>1. \A a \in Addr : ~(lo <= a /\ a < lo + k) => stack'[a] = stack[a]
    <3>1. lo \in Int
      BY <1>2
    <3> QED BY <1>3, <3>1, StoreWords
  <2>2. \A a \in Addr : a < lo => ~(lo <= a /\ a < lo + k)
    BY <1>2, EngineAssumption DEF Addr
  <2> QED BY <2>1, <2>2
<1>6. \A a \in Int : 0 <= a /\ a < lo => stack'[a] = stack[a]
  <2>1. lo <= StackLen /\ StackLen \in Nat
    BY <1>2, EngineAssumption
  <2> QED BY <1>2, <1>5, <2>1 DEF Addr
<1>7. ParamWords[Current] <= fp
  <2> PICK n, base, fn : Chain(n, base, fn)
    BY DEF IInv, Framed
  <2>1. /\ n \in Nat /\ base \in [1..n -> Nat] /\ fn \in [1..n -> Funcs]
        /\ Frames(n, base, fn)
    BY DEF Chain
  <2>2. n \in 1..n
    BY <2>1 DEF Frames, Registers, Idle
  <2> QED BY <2>1, <2>2, FrameAddresses DEF IInv
<1> HIDE DEF lo, bottom
<1>8. Data(stack', fp - ParamWords[Current], fp)
        = Data(stack, fp - ParamWords[Current], fp)
  <2> PICK low : low = fp - ParamWords[Current]
    OBVIOUS
  <2>1. /\ low \in Nat /\ fp \in Nat /\ fp <= lo /\ lo \in Nat
    <3> PICK pw, lw : pw = ParamWords[Current] /\ lw = LocalWords[Current]
      OBVIOUS
    <3>1. pw \in Nat /\ lw \in Nat /\ bottom = fp + 2 + lw /\ pw <= fp /\ low = fp - pw
      BY <1>3, <1>7
    <3>2. fp <= bottom /\ low \in Nat
      BY <1>1, <3>1, SMTT(30)
    <3> QED BY <1>1, <1>2, <3>2
  <2>2. \A a \in low..(fp - 1) : a \in Int /\ 0 <= a /\ a < lo
    BY <2>1
  <2>3. low \in Int /\ fp \in Int
    BY <2>1
  <2> QED BY <1>6, <2>2, <2>3, SameData
<1>9. Data(stack', fp + 2, bottom) = Data(stack, fp + 2, bottom)
  <2>1. /\ fp + 2 \in Int /\ bottom \in Int
        /\ \A a \in (fp + 2)..(bottom - 1) : a \in Int /\ 0 <= a /\ a < lo
    BY <1>1, <1>2, <1>3, SMTT(30)
  <2> QED BY <1>6, <2>1, SameData
<1>10. Data(stack', bottom, sp')
         = Abstract!First(Data(stack, bottom, sp), p) \o [i \in 1..k |-> ws[i].value]
  <2>1. Data(stack', bottom, sp') = Data(stack', bottom, lo) \o Data(stack', lo, sp')
    <3>1. bottom \in Int /\ lo \in Int /\ sp' \in Int /\ bottom <= lo /\ lo <= sp'
      BY <1>1, <1>2, <1>12
    <3> QED BY <3>1, DataConcat, ZenonT(30)
  <2>2. Data(stack', bottom, lo) = Data(stack, bottom, lo)
    <3>1. /\ bottom \in Int /\ lo \in Int
          /\ \A a \in bottom..(lo - 1) : a \in Int /\ 0 <= a /\ a < lo
      BY <1>1, <1>2
    <3> QED BY <1>6, <3>1, SameData
  <2>3. Data(stack, bottom, lo) = Abstract!First(Data(stack, bottom, sp), p)
    <3>1. bottom \in Int /\ sp \in Int /\ p \in Int /\ 0 <= p /\ lo = sp - p
      BY <1>1 DEF lo
    <3>2. Abstract!First(Data(stack, bottom, sp), p) = Data(stack, bottom, sp - p)
      BY <1>2, <3>1, DataEnds
    <3> QED BY <3>1, <3>2
  <2>4. Data(stack', lo, sp') = [i \in 1..k |-> ws[i].value]
    <3>1. ASSUME NEW x \in Nat, x + k <= StackLen
          PROVE  Data(Store(stack, x, ws), x, x + k) = [i \in 1..k |-> ws[i].value]
      BY <1>3, <3>1, DataStored
    <3>2. stack' = Store(stack, lo, ws)
      BY DEF lo
    <3>3. lo \in Nat /\ lo + k <= StackLen
      BY <1>2, <1>3
    <3> HIDE DEF lo
    <3>4. Data(Store(stack, lo, ws), lo, lo + k) = [i \in 1..k |-> ws[i].value]
      BY <3>1, <3>3, Zenon
    <3> QED BY <1>12, <3>2, <3>4, Zenon
  <2> QED BY <2>1, <2>2, <2>3, <2>4
<1> PICK vals : vals = [i \in 1..k |-> ws[i].value]
  OBVIOUS
<1>11. Call_of(stack', fp, Current, pc'[2], sp')
         = Gone(Abstract!Callee,
                Abstract!First(Abstract!Callee.operands, p) \o vals, pc'[2])
  <2> PICK l, m, d, e, t : /\ l = Data(stack, fp - ParamWords[Current], fp)
                           /\ m = Data(stack, fp + 2, bottom)
                           /\ d = Data(stack, bottom, sp)
                           /\ e = Data(stack', bottom, sp')
                           /\ t = Abstract!First(d, p) \o vals
    OBVIOUS
  <2>1. e = t
    BY <1>10
  <2>2. /\ Call_of(stack, fp, Current, pc[2], sp) = Act(Current, pc[2], l \o m, d)
        /\ Call_of(stack', fp, Current, pc'[2], sp') = Act(Current, pc'[2], l \o m, e)
    BY <1>8, <1>9 DEF Call_of, bottom, Act
  <2>3. Abstract!Callee.operands = d
    BY CalleeFacts DEF bottom
  <2>4. Gone(Act(Current, pc[2], l \o m, d), t, pc'[2]) = Act(Current, pc'[2], l \o m, t)
    BY GoneFacts
  <2> QED BY <1>1, <2>1, <2>2, <2>3, <2>4
<1> QED BY <1>4, <1>11

-----------------------------------------------------------------------------
(* The instructions, as the abstraction sees them *)

(* What the abstraction sees of the pause and the result. *)
LEMMA WaitingFacts ==
  ASSUME UNCHANGED <<result, pause>>
  PROVE  UNCHANGED <<pause, IF result = None THEN None
                            ELSE [i \in DOMAIN result |-> result[i].value]>>
OBVIOUS

(* An instruction that replaces operands by values is a Compute. *)
LEMMA Computes ==
  ASSUME IInv, Executing, KeepsChain, fp' = fp, Current' = Current,
         NEW p \in 0..Height, NEW q \in 0..2, NEW ws \in Words(q),
         stack' = Store(stack, sp - p, ws), sp' = sp - p + q, sp' <= StackLen,
         pc'[2] \in 0..(CodeWords - 1), UNCHANGED <<result, pause>>
  PROVE  Abstract!Next
<1>1. /\ ~Idle /\ pause = None /\ Height \in Nat
  BY ExecutingFacts
<1>2. p \in Nat /\ p <= Height /\ q \in Nat /\ ws \in [1..q -> Word]
  BY <1>1, ValuesAreWords
<1> DEFINE values == [i \in 1..q |-> ws[i].value]
<1>3. values \in Abstract!Tuples(q)
  BY WordsHoldValues
<1>4. Abstract!Becomes(Gone(Abstract!Callee,
                            Abstract!First(Abstract!Callee.operands, p) \o values,
                            pc'[2]))
  BY <1>1, <1>2, OperandsBecome
<1> HIDE DEF values
<1>5. Abstract!Compute(p, q)
  BY <1>3, <1>4, WaitingFacts DEF Abstract!Compute, Gone
<1>6. p \in 0..Len(Abstract!Callee.operands) /\ Abstract!Calling
  BY <1>1, CalleeFacts
<1> QED BY <1>1, <1>5, <1>6 DEF Abstract!Next

(* A numeric, memory or global instruction is a Compute. *)
LEMMA OperateComputes ==
  ASSUME IInv, Executing, NEW p \in 0..Height, NEW q \in 0..2, Operate(p, q)
  PROVE  Abstract!Next
<1>1. PICK ws \in Words(q) : stack' = Store(stack, sp - p, ws)
  BY DEF Operate
<1>2. KeepsChain
  BY OperateKeeps
<1>3. /\ sp' = sp - p + q /\ pc' = Next_pc(1) /\ Falls(1)
      /\ fp' = fp /\ UNCHANGED <<result, pause>>
      /\ p <= Height /\ Height - p + q <= StackUsage[Current]
  BY DEF Operate, Pops
<1>4. Current' = Current /\ pc'[2] \in 0..(CodeWords - 1)
  BY <1>3, ExecutingFacts, NextPcFacts DEF Current
<1>5. sp' <= StackLen
  BY <1>3, ExecutingFacts, EngineAssumption DEF StackInBounds
<1> QED BY <1>1, <1>2, <1>3, <1>4, <1>5, Computes

(* The parameters and locals of the callee, in the stack s, and where the  *)
(* j-th of their words is.                                                 *)
LocalsOf(s) == Data(s, fp - ParamWords[Current], fp)
                 \o Data(s, fp + 2, Operands(fp, Current))
Place(j) == IF j <= ParamWords[Current] THEN fp - ParamWords[Current] + j - 1
            ELSE fp + 2 + (j - ParamWords[Current]) - 1

(* The parameters of the executing function lie below its frame word. *)
LEMMA ParamsBelow ==
  ASSUME IInv, ~Idle
  PROVE  ParamWords[Current] <= fp
<1> PICK n, base, fn : Chain(n, base, fn)
  BY DEF IInv, Framed
<1>1. /\ n \in Nat /\ base \in [1..n -> Nat] /\ fn \in [1..n -> Funcs]
      /\ Frames(n, base, fn)
  BY DEF Chain
<1>2. n \in 1..n
  BY <1>1 DEF Frames, Registers, Idle
<1> QED BY <1>1, <1>2, FrameAddresses DEF IInv

(* The parameters and locals of the executing function as one sequence. *)
LEMMA LocalsFacts ==
  ASSUME IInv, ~Idle, NEW s
  PROVE  LET k == ParamWords[Current] + LocalWords[Current]
         IN /\ k \in Nat
            /\ LocalsOf(s) \in Seq(Held(s)) /\ Len(LocalsOf(s)) = k
            /\ LocalsOf(s) = [j \in 1..k |-> s[Place(j)].value]
<1> PICK P, L, base : P = ParamWords[Current] /\ L = LocalWords[Current] /\ base = fp
  OBVIOUS
<1>1. /\ P \in Nat /\ L \in Nat /\ base \in Nat
      /\ Operands(fp, Current) = base + 2 + L
  BY CurrentFacts DEF IInv, TypeOK, Operands
<1> PICK b, c : /\ b = Data(s, base - P, base) /\ c = Data(s, base + 2, base + 2 + L)
  OBVIOUS
<1>2. /\ b \in Seq(Held(s)) /\ Len(b) = P
      /\ \A i \in 1..P : b[i] = s[base - P + i - 1].value
  <2>1. base - (base - P) = P
    BY <1>1
  <2>2. b = [i \in 1..P |-> s[base - P + i - 1].value]
    BY <2>1 DEF Data
  <2>3. \A i \in 1..P : s[base - P + i - 1].value \in Held(s)
    <3>1. \A i \in 1..P : base - P + i - 1 \in Int
      BY <1>1
    <3> QED BY <3>1 DEF Held
  <2>4. b \in [1..P -> Held(s)]
    BY <2>2, <2>3
  <2>5. b \in Seq(Held(s)) /\ Len(b) = P
    BY <1>1, <2>4, SeqDef, LengthOfWords, SMTT(30)
  <2> QED BY <2>2, <2>5
<1>3. /\ c \in Seq(Held(s)) /\ Len(c) = L
      /\ \A i \in 1..L : c[i] = s[base + 2 + i - 1].value
  <2>1. /\ base + 2 \in Int /\ base + 2 + L \in Int /\ base + 2 <= base + 2 + L
        /\ (base + 2 + L) - (base + 2) = L
    BY <1>1
  <2> QED BY <2>1, DataHeld, SMTT(30)
<1>4. LocalsOf(s) = b \o c
  BY <1>1 DEF LocalsOf
<1>5. /\ b \o c \in Seq(Held(s)) /\ Len(b \o c) = Len(b) + Len(c)
      /\ \A i \in 1..(Len(b) + Len(c)) :
            (b \o c)[i] = IF i <= Len(b) THEN b[i] ELSE c[i - Len(b)]
  BY <1>2, <1>3, ConcatProperties
<1> PICK d : d = b \o c
  OBVIOUS
<1>6. d \in Seq(Held(s)) /\ Len(d) = P + L
      /\ \A i \in 1..(P + L) : d[i] = IF i <= P THEN b[i] ELSE c[i - P]
  BY <1>2, <1>3, <1>5, SMTT(30)
<1>7. ASSUME NEW j \in 1..(P + L) PROVE d[j] = s[Place(j)].value
  <2>1. CASE j <= P
    <3>1. j \in 1..P /\ Place(j) = base - P + j - 1
      BY <2>1, <1>1 DEF Place
    <3> QED BY <1>2, <1>6, <2>1, <3>1
  <2>2. CASE ~(j <= P)
    <3>1. j - P \in 1..L /\ Place(j) = base + 2 + (j - P) - 1
      BY <2>2, <1>1, SMTT(30) DEF Place
    <3> QED BY <1>3, <1>6, <2>2, <3>1, ZenonT(30)
  <2> QED BY <2>1, <2>2
<1>8. d = [j \in 1..(P + L) |-> s[Place(j)].value]
  <2>1. d = [j \in 1..(P + L) |-> d[j]]
    <3>1. d \in [1..Len(d) -> Held(s)]
      BY <1>6, LenProperties
    <3> QED BY <1>6, <3>1
  <2> QED BY <1>7, <2>1, ZenonT(30)
<1>9. P + L \in Nat
  BY <1>1
<1> QED BY <1>4, <1>6, <1>8, <1>9

(* Of k words of locals, those from i on are the w at the address a. *)
HoldsLocal(k, w, a, i) ==
  \A j \in 1..k : /\ j \in i..(i + w - 1) <=> (a <= Place(j) /\ Place(j) < a + w)
                  /\ j \in i..(i + w - 1) => Place(j) = a + (j - i)

(* The words of one local, and no others, are at its address. *)
LEMMA LocalIndex ==
  ASSUME IInv, Executing, NEW w \in 1..2, NEW a \in LocalAddr(w)
  PROVE  \A k : k = ParamWords[Current] + LocalWords[Current] =>
           \E i \in 1..(k - w + 1) : HoldsLocal(k, w, a, i)
<1> TAKE k
<1> HAVE k = ParamWords[Current] + LocalWords[Current]
<1> PICK P, L, base : P = ParamWords[Current] /\ L = LocalWords[Current] /\ base = fp
  OBVIOUS
<1>1. /\ P \in Nat /\ L \in Nat /\ base \in Nat /\ a \in Nat /\ w \in Nat /\ w > 0
      /\ k \in Nat /\ k = P + L
  BY ExecutingFacts, LocalFacts
<1>2. \/ base - P <= a /\ a + w <= base
      \/ base + 2 <= a /\ a + w <= base + 2 + L
  BY DEF LocalAddr
<1>3. \A j \in 1..k : Place(j) = IF j <= P THEN base - P + j - 1
                                       ELSE base + 2 + (j - P) - 1
  BY DEF Place
<1>4. ASSUME base - P <= a /\ a + w <= base
      PROVE  \E i \in 1..(k - w + 1) : HoldsLocal(k, w, a, i)
  <2> PICK i : i = a - (base - P) + 1
    OBVIOUS
  <2>1. i \in 1..(k - w + 1) /\ i \in Int
    BY <1>1, <1>4
  <2>2. ASSUME NEW j \in 1..k
        PROVE  /\ j \in i..(i + w - 1) <=> (a <= Place(j) /\ Place(j) < a + w)
               /\ j \in i..(i + w - 1) => Place(j) = a + (j - i)
    <3> PICK t : t = Place(j)
      OBVIOUS
    <3>1. t = IF j <= P THEN base - P + j - 1 ELSE base + 2 + (j - P) - 1
      BY <1>3
    <3>2. /\ j \in i..(i + w - 1) <=> (a <= t /\ t < a + w)
          /\ j \in i..(i + w - 1) => t = a + (j - i)
      BY <1>1, <1>4, <3>1
    <3> QED BY <3>2
  <2>3. HoldsLocal(k, w, a, i)
    BY <2>2 DEF HoldsLocal
  <2> QED BY <2>1, <2>3
<1>5. ASSUME base + 2 <= a /\ a + w <= base + 2 + L
      PROVE  \E i \in 1..(k - w + 1) : HoldsLocal(k, w, a, i)
  <2> PICK i : i = P + (a - (base + 2)) + 1
    OBVIOUS
  <2>1. i \in 1..(k - w + 1) /\ i \in Int
    BY <1>1, <1>5
  <2>2. ASSUME NEW j \in 1..k
        PROVE  /\ j \in i..(i + w - 1) <=> (a <= Place(j) /\ Place(j) < a + w)
               /\ j \in i..(i + w - 1) => Place(j) = a + (j - i)
    <3> PICK t : t = Place(j)
      OBVIOUS
    <3>1. t = IF j <= P THEN base - P + j - 1 ELSE base + 2 + (j - P) - 1
      BY <1>3
    <3>2. /\ j \in i..(i + w - 1) <=> (a <= t /\ t < a + w)
          /\ j \in i..(i + w - 1) => t = a + (j - i)
      <4>1. CASE j <= P
        BY <1>1, <1>5, <3>1, <4>1
      <4>2. CASE ~(j <= P)
        <5>1. t = base + 2 + (j - P) - 1 /\ j \in Int
          BY <3>1, <4>2
        <5>2. i \in Int /\ j - i = t - a /\ t \in Int
          BY <1>1, <5>1
        <5>3. (i <= j <=> a <= t) /\ (j <= i + w - 1 <=> t < a + w) /\ t = a + (j - i)
          BY <1>1, <5>1, <5>2
        <5>4. j \in i..(i + w - 1) <=> i <= j /\ j <= i + w - 1
          BY <1>1, <5>1, <5>2
        <5> QED BY <5>3, <5>4, Zenon
      <4> QED BY <4>1, <4>2
    <3> QED BY <3>2
  <2>3. HoldsLocal(k, w, a, i)
    BY <2>2 DEF HoldsLocal
  <2> QED BY <2>1, <2>3
<1>6. \E i \in 1..(k - w + 1) : HoldsLocal(k, w, a, i)
  BY <1>2, <1>4, <1>5
<1> QED BY <1>6

Got(c, at, operands) == [c EXCEPT !.at = at, !.operands = operands]

(* An activation with other operands, elsewhere in its body. *)
LEMMA GotFacts ==
  ASSUME NEW f, NEW a, NEW l, NEW o, NEW o1, NEW a1
  PROVE  Got(Act(f, a, l, o), a1, o1) = Act(f, a1, l, o1)
<1> PICK c : c = Act(f, a, l, o)
  OBVIOUS
<1> DEFINE Taken(x) == [x EXCEPT !.operands = o1]
<1>1. Got(c, a1, o1) = Taken(At(c, a1))
  BY DEF Got, At, Act
<1>2. At(c, a1) = Act(f, a1, l, o)
  BY AtFacts
<1>3. ASSUME NEW d, d = Act(f, a1, l, o) PROVE Taken(d) = Act(f, a1, l, o1)
  BY <1>3 DEF Act
<1> HIDE DEF Taken
<1> QED BY <1>1, <1>2, <1>3

(* The callee as the registers and the stack give it. *)
LEMMA CalleeIs ==
  ASSUME IInv, ~Idle
  PROVE  /\ Abstract!Callee = Act(Current, pc[2], LocalsOf(stack),
                                  Data(stack, Operands(fp, Current), sp))
         /\ Abstract!Callee.locals = LocalsOf(stack)
         /\ Abstract!Callee.operands = Data(stack, Operands(fp, Current), sp)
<1>1. Abstract!Callee = Call_of(stack, fp, Current, pc[2], sp)
  BY CalleeFacts
<1> QED BY <1>1 DEF Call_of, Act, LocalsOf

(* The words of a local in the callee's locals. *)
LEMMA LocalSlice ==
  ASSUME IInv, Executing, NEW w \in 1..2, NEW a \in LocalAddr(w),
         NEW k, k = ParamWords[Current] + LocalWords[Current],
         NEW i \in 1..(k - w + 1), HoldsLocal(k, w, a, i)
  PROVE  Slice(LocalsOf(stack), i, i + w - 1)
           = [m \in 1..w |-> stack[a + m - 1].value]
<1> PICK d : d = LocalsOf(stack)
  OBVIOUS
<1>1. /\ k \in Nat /\ d \in Seq(Held(stack)) /\ Len(d) = k
      /\ d = [j \in 1..k |-> stack[Place(j)].value]
  BY ExecutingFacts, LocalsFacts
<1>2. w \in Nat /\ i \in Nat /\ i + w - 1 \in 1..k /\ a \in Nat
  BY <1>1, LocalFacts
<1>3. \A j \in i..(i + w - 1) : j \in 1..k /\ d[j] = stack[a + (j - i)].value
  <2>1. \A j \in i..(i + w - 1) : j \in 1..k
    BY <1>1, <1>2
  <2>2. \A j \in 1..k : j \in i..(i + w - 1) => Place(j) = a + (j - i)
    BY DEF HoldsLocal
  <2>3. \A j \in 1..k : d[j] = stack[Place(j)].value
    BY <1>1
  <2> QED BY <2>1, <2>2, <2>3, Zenon
<1>4. \A j \in i..(i + w - 1) : d[j] \in Held(stack)
  <2>1. \A j \in i..(i + w - 1) : a + (j - i) \in Int
    BY <1>2
  <2> QED BY <1>3, <2>1 DEF Held
<1> PICK z : z = i + w - 1
  OBVIOUS
<1>5. /\ SubSeq(d, i, z) \in Seq(Held(stack))
      /\ Len(SubSeq(d, i, z)) = w
      /\ \A m \in 1..w : SubSeq(d, i, z)[m] = d[i + m - 1]
  <2>1. z - i + 1 = w /\ i <= z /\ i \in Int /\ z \in Int
    BY <1>2
  <2>2. /\ SubSeq(d, i, z) \in Seq(Held(stack))
        /\ Len(SubSeq(d, i, z)) = IF i <= z THEN z - i + 1 ELSE 0
        /\ \A m \in 1..(z - i + 1) : SubSeq(d, i, z)[m] = d[i + m - 1]
    BY <1>4, <2>1, SubSeqProperties
  <2> QED BY <2>1, <2>2
<1>6. ASSUME NEW m \in 1..w
      PROVE  d[i + m - 1] = stack[a + m - 1].value
  <2>1. i + m - 1 \in i..(i + w - 1) /\ a + ((i + m - 1) - i) = a + m - 1
    BY <1>2
  <2>2. d[i + m - 1] = stack[a + ((i + m - 1) - i)].value
    BY <1>3, <2>1
  <2> QED BY <2>1, <2>2
<1>7. SubSeq(d, i, z) = [m \in 1..w |-> stack[a + m - 1].value]
  <2>1. DOMAIN SubSeq(d, i, z) = 1..w
    BY <1>5, LenProperties
  <2>2. SubSeq(d, i, z) = [m \in 1..w |-> SubSeq(d, i, z)[m]]
    <3>1. SubSeq(d, i, z) \in [1..w -> Held(stack)]
      BY <1>5, LenProperties
    <3> QED BY <3>1
  <2> QED BY <1>5, <1>6, <2>2
<1> QED BY <1>7 DEF Slice

(* The same for one that takes no operand away. *)
LEMMA OperandsGrow ==
  ASSUME IInv, ~Idle, KeepsChain, fp' = fp, Current' = Current,
         NEW k \in Nat, NEW ws \in [1..k -> Word],
         stack' = Store(stack, sp, ws), sp' = sp + k, sp' <= StackLen
  PROVE  Abstract!Becomes(
           Gone(Abstract!Callee,
                Abstract!Callee.operands \o [i \in 1..k |-> ws[i].value],
                pc'[2]))
<1>1. /\ sp \in Nat /\ Operands(fp, Current) \in Nat /\ Operands(fp, Current) <= sp
  BY CalleeFacts
<1>2. /\ 0 \in Nat /\ 0 <= Height /\ sp - 0 = sp
      /\ Operands(fp, Current) \in Int /\ sp \in Int /\ 0 \in Int /\ 0 <= 0
      /\ 0 <= sp - Operands(fp, Current)
  BY <1>1 DEF Height
<1>3. stack' = Store(stack, sp - 0, ws) /\ sp' = sp - 0 + k
  BY <1>2
<1>4. Abstract!Becomes(
        Gone(Abstract!Callee,
             Abstract!First(Abstract!Callee.operands, 0)
               \o [i \in 1..k |-> ws[i].value],
             pc'[2]))
  BY <1>2, <1>3, OperandsBecome
<1>5. Abstract!First(Data(stack, Operands(fp, Current), sp), 0)
        = Data(stack, Operands(fp, Current), sp)
  <2>1. ASSUME NEW lo \in Int, NEW hi \in Int, 0 <= hi - lo
        PROVE  Abstract!First(Data(stack, lo, hi), 0) = Data(stack, lo, hi - 0)
    BY <2>1, DataEnds
  <2> QED BY <1>2, <2>1
<1>6. Abstract!First(Abstract!Callee.operands, 0) = Abstract!Callee.operands
  BY <1>5, CalleeIs
<1> QED BY <1>4, <1>6

(* local.get is a GetLocal. *)
LEMMA LocalGetGets ==
  ASSUME IInv, Executing, NEW w \in 1..2, local_get(w)
  PROVE  Abstract!Next
<1>1. PICK a \in LocalAddr(w) : stack' = Store(stack, sp, Top(stack, a + w, w))
  BY DEF local_get
<1> PICK t : t = a + w
  OBVIOUS
<1> PICK ws : ws = Top(stack, t, w)
  OBVIOUS
<1>2. stack' = Store(stack, sp, ws) /\ ws \in [1..w -> Word] /\ w \in Nat
  <2>1. t \in Nat /\ w \in Nat /\ w <= t /\ t <= StackLen
    BY LocalFacts
  <2> QED BY <1>1, <2>1, ExecutingFacts, TopWords DEF TypeOK
<1>3. KeepsChain /\ ~Idle /\ pause = None
  BY LocalGetKeeps, ExecutingFacts
<1>4. /\ sp' = sp + w /\ pc' = Next_pc(2) /\ Falls(2)
      /\ fp' = fp /\ UNCHANGED <<result, pause>>
      /\ Height - 0 + w <= StackUsage[Current]
  BY DEF local_get, Pops
<1>5. Current' = Current /\ pc'[2] \in 0..(CodeWords - 1)
  BY <1>4, ExecutingFacts, NextPcFacts DEF Current
<1>6. sp' <= StackLen
  <2>1. /\ Height = sp - Operands(fp, Current) /\ Operands(fp, Current) \in Nat
        /\ sp \in Nat /\ Height \in Nat /\ StackUsage[Current] \in Nat
        /\ Operands(fp, Current) + StackUsage[Current] <= StackLen
    BY ExecutingFacts DEF StackInBounds
  <2>2. sp' = sp + w /\ w \in Nat /\ Height - 0 + w <= StackUsage[Current]
    BY <1>2, <1>4
  <2> QED BY <2>1, <2>2, EngineAssumption
<1> DEFINE values == [m \in 1..w |-> ws[m].value]
           c == Abstract!Callee
<1>7. Abstract!Becomes(Gone(c, c.operands \o values, pc'[2]))
  BY <1>2, <1>3, <1>4, <1>5, <1>6, OperandsGrow
<1> PICK k : k = ParamWords[Current] + LocalWords[Current]
  OBVIOUS
<1>9. PICK i \in 1..(k - w + 1) : HoldsLocal(k, w, a, i)
  BY LocalIndex
<1>10. Len(c.locals) = k
  BY <1>3, CalleeIs, LocalsFacts
<1>11. Slice(c.locals, i, i + w - 1) = values
  <2>1. Slice(LocalsOf(stack), i, i + w - 1) = [m \in 1..w |-> stack[a + m - 1].value]
    BY <1>3, <1>9, LocalSlice, ZenonT(30)
  <2>2. ASSUME NEW m \in 1..w PROVE ws[m] = stack[a + m - 1]
    <3>1. t - w + m - 1 = a + m - 1
      BY LocalFacts
    <3>2. ws[m] = stack[t - w + m - 1]
      BY DEF Top
    <3> QED BY <3>1, <3>2
  <2>3. values = [m \in 1..w |-> stack[a + m - 1].value]
    BY <2>2
  <2> QED BY <1>3, <2>1, <2>3, CalleeIs
<1> HIDE DEF values
<1>12. \A o : Gone(c, o, pc'[2]) = Got(c, pc'[2], o)
  BY <1>3, CalleeIs, GoneFacts, GotFacts
<1> HIDE DEF c
<1>13. Abstract!Becomes(Got(c, pc'[2], c.operands \o Slice(c.locals, i, i + w - 1)))
  BY <1>7, <1>11, <1>12
<1>14. Abstract!GetLocal(w)
  <2>1. i \in 1..(Len(c.locals) - w + 1)
    BY <1>9, <1>10
  <2> QED BY <1>4, <1>5, <1>13, <2>1, WaitingFacts DEF Abstract!GetLocal, Got, Slice, c
<1> QED BY <1>3, <1>14, CalleeFacts DEF Abstract!Next

Stored(c, at, operands, locals) ==
  [c EXCEPT !.at = at, !.operands = operands, !.locals = locals]

(* An activation with other operands and locals, elsewhere in its body. *)
LEMMA StoredFacts ==
  ASSUME NEW f, NEW a, NEW l, NEW o, NEW o1, NEW a1, NEW l1
  PROVE  Stored(Act(f, a, l, o), a1, o1, l1) = Act(f, a1, l1, o1)
<1> PICK c : c = Act(f, a, l, o)
  OBVIOUS
<1> DEFINE Taken(x) == [x EXCEPT !.locals = l1]
<1>1. Stored(c, a1, o1, l1) = Taken(Got(c, a1, o1))
  BY DEF Stored, Got, Act
<1>2. Got(c, a1, o1) = Act(f, a1, l, o1)
  BY GotFacts
<1>3. ASSUME NEW d, d = Act(f, a1, l, o1) PROVE Taken(d) = Act(f, a1, l1, o1)
  BY <1>3 DEF Act
<1> HIDE DEF Taken
<1> QED BY <1>1, <1>2, <1>3

(* The parameters and locals lie in the stack. *)
LEMMA PlaceFacts ==
  ASSUME IInv, Executing, NEW j \in 1..(ParamWords[Current] + LocalWords[Current])
  PROVE  Place(j) \in Addr /\ Place(j) \in Int
<1> PICK P, L, base : P = ParamWords[Current] /\ L = LocalWords[Current] /\ base = fp
  OBVIOUS
<1>1. /\ P \in Nat /\ L \in Nat /\ base \in Nat /\ P <= base
      /\ base + 2 + L <= StackLen /\ StackLen \in Nat
  <2>1. Operands(fp, Current) <= StackLen
    BY ExecutingFacts, EngineAssumption
  <2> QED BY <2>1, ExecutingFacts, ParamsBelow, EngineAssumption
<1>2. Place(j) = IF j <= P THEN base - P + j - 1 ELSE base + 2 + (j - P) - 1
  BY DEF Place
<1>3. Place(j) \in 0..(StackLen - 1)
  <2>1. CASE j <= P
    BY <1>1, <1>2, <2>1
  <2>2. CASE ~(j <= P)
    BY <1>1, <1>2, <2>2
  <2> QED BY <2>1, <2>2
<1> QED BY <1>3 DEF Addr

(* local.set and local.tee are a SetLocal. *)
LEMMA LocalSetSets ==
  ASSUME IInv, Executing, NEW w \in 1..2, NEW keep \in {0, w},
         local_set(w, keep)
  PROVE  Abstract!SetLocal(w, keep)
<1> DEFINE bottom == Operands(fp, Current)
           c == Abstract!Callee
<1>1. PICK a \in LocalAddr(w) : stack' = Store(stack, a, Top(stack, sp, w))
  BY DEF local_set
<1> PICK ws : ws = Top(stack, sp, w)
  OBVIOUS
<1>2. /\ sp' = sp - w + keep /\ pc' = Next_pc(2) /\ Falls(2)
      /\ fp' = fp /\ UNCHANGED <<result, pause>> /\ w <= Height
  BY DEF local_set, Pops
<1>3. /\ sp \in Nat /\ bottom \in Nat /\ w <= sp - bottom /\ w \in Nat /\ keep \in 0..w
      /\ sp <= StackLen /\ w <= sp /\ Height = sp - bottom
      /\ bottom = fp + 2 + LocalWords[Current] /\ LocalWords[Current] \in Nat
      /\ ParamWords[Current] \in Nat
  BY <1>2, ExecutingFacts
<1>4. ws \in [1..w -> Word]
  BY <1>3, ExecutingFacts, TopWords DEF TypeOK
<1>5. KeepsChain /\ ~Idle
  BY LocalSetKeeps, ExecutingFacts
<1>6. Current' = Current /\ pc'[2] \in 0..(CodeWords - 1)
  BY <1>2, ExecutingFacts, NextPcFacts DEF Current
<1>7. /\ a \in Int /\ a \in Nat /\ Misses(a, w) /\ a + w <= bottom
  <2>1. a \in Nat /\ Misses(a, w)
    BY LocalFacts
  <2>2. \/ fp - ParamWords[Current] <= a /\ a + w <= fp
        \/ fp + 2 <= a /\ a + w <= fp + 2 + LocalWords[Current]
    BY DEF LocalAddr
  <2>3. fp \in Nat
    BY ExecutingFacts
  <2>4. a + w <= bottom
    BY <1>3, <2>1, <2>2, <2>3
  <2> QED BY <2>1, <2>4
<1>8. /\ \A x \in Addr : ~(a <= x /\ x < a + w) => stack'[x] = stack[x]
      /\ \A x \in Addr : a <= x /\ x < a + w => stack'[x] = ws[x - a + 1]
  <2>1. stack \in [Addr -> Word] /\ stack' = Store(stack, a, ws)
    BY <1>1, ExecutingFacts DEF TypeOK
  <2> QED BY <1>3, <1>4, <1>7, <2>1, StoreWords, SMTT(30)
<1>9. Abstract!Becomes(Call_of(stack', fp, Current, pc'[2], sp'))
  BY <1>1, <1>2, <1>3, <1>4, <1>5, <1>6, <1>7, CalleeBecomes
<1> HIDE DEF bottom
<1>10. Data(stack', bottom, sp') = Abstract!First(c.operands, w - keep)
  <2> PICK hi : hi = sp - w + keep
    OBVIOUS
  <2>1. hi \in Int /\ bottom <= hi /\ hi <= sp /\ hi = sp - (w - keep) /\ hi <= StackLen
    <3>1. /\ sp \in Nat /\ bottom \in Nat /\ w \in Nat /\ keep \in Nat /\ keep <= w
          /\ w <= sp - bottom /\ sp <= StackLen /\ StackLen \in Nat
      BY <1>3, EngineAssumption
    <3> QED BY <3>1
  <2>2. \A x \in bottom..(hi - 1) : x \in Addr /\ ~(a <= x /\ x < a + w)
    BY <1>3, <1>7, <2>1, EngineAssumption DEF Addr
  <2>3. \A x \in bottom..(hi - 1) : stack'[x] = stack[x]
    BY <1>8, <2>2
  <2>4. Data(stack', bottom, hi) = Data(stack, bottom, hi)
    <3>1. bottom \in Int
      BY <1>3
    <3> QED BY <2>1, <2>3, <3>1, SameData
  <2>5. Abstract!First(Data(stack, bottom, sp), w - keep) = Data(stack, bottom, sp - (w - keep))
    <3>1. /\ bottom \in Int /\ sp \in Int /\ w - keep \in Int
          /\ 0 <= w - keep /\ w - keep <= sp - bottom
      BY <1>3
    <3> QED BY <3>1, DataEnds
  <2>6. c.operands = Data(stack, bottom, sp)
    BY <1>5, CalleeIs DEF bottom
  <2>7. Data(stack', bottom, sp') = Data(stack', bottom, hi)
    BY <1>2
  <2>8. Data(stack, bottom, sp - (w - keep)) = Data(stack, bottom, hi)
    BY <2>1
  <2> QED BY <2>4, <2>5, <2>6, <2>7, <2>8
<1>11. /\ Abstract!LastOf(c.operands, w) = [m \in 1..w |-> ws[m].value]
       /\ Len(c.operands) = sp - bottom
  <2>1. c.operands = Data(stack, bottom, sp)
    BY <1>5, CalleeIs DEF bottom
  <2>2. /\ Abstract!LastOf(Data(stack, bottom, sp), w) = Data(stack, sp - w, sp)
        /\ Len(Data(stack, bottom, sp)) = sp - bottom
    <3>1. bottom \in Int /\ sp \in Int /\ w \in Int /\ 0 <= w /\ w <= sp - bottom
      BY <1>3
    <3> QED BY <3>1, DataEnds
  <2>3. [m \in 1..w |-> Top(stack, sp, w)[m].value] = Data(stack, sp - w, sp)
    BY <1>3, TopHolds
  <2> QED BY <2>1, <2>2, <2>3
<1> PICK k : k = ParamWords[Current] + LocalWords[Current]
  OBVIOUS
<1>12. PICK i \in 1..(k - w + 1) : HoldsLocal(k, w, a, i)
  BY LocalIndex
<1>13. /\ c.locals = [j \in 1..k |-> stack[Place(j)].value]
       /\ Len(c.locals) = k /\ DOMAIN c.locals = 1..k /\ k \in Nat
       /\ LocalsOf(stack') = [j \in 1..k |-> stack'[Place(j)].value]
  <2>1. c.locals = LocalsOf(stack)
    BY <1>5, CalleeIs
  <2>2. /\ LocalsOf(stack) = [j \in 1..k |-> stack[Place(j)].value]
        /\ Len(LocalsOf(stack)) = k /\ k \in Nat
        /\ LocalsOf(stack') = [j \in 1..k |-> stack'[Place(j)].value]
    BY <1>5, LocalsFacts
  <2>3. DOMAIN LocalsOf(stack) = 1..k
    BY <2>2
  <2> QED BY <2>1, <2>2, <2>3
<1>14. ASSUME NEW j \in 1..k
       PROVE  stack'[Place(j)].value
                = IF j \in i..(i + w - 1) THEN ws[j - i + 1].value
                  ELSE stack[Place(j)].value
  <2>1. Place(j) \in Addr /\ Place(j) \in Int
    BY PlaceFacts
  <2>2. CASE j \in i..(i + w - 1)
    <3>1. a <= Place(j) /\ Place(j) < a + w /\ Place(j) = a + (j - i)
      BY <1>12, <2>2 DEF HoldsLocal
    <3>2. stack'[Place(j)] = ws[Place(j) - a + 1]
      BY <1>8, <2>1, <3>1
    <3>3. Place(j) - a + 1 = j - i + 1
      BY <1>7, <2>2, <3>1, <1>13
    <3> QED BY <2>2, <3>2, <3>3
  <2>3. CASE ~(j \in i..(i + w - 1))
    <3>1. ~(a <= Place(j) /\ Place(j) < a + w)
      BY <1>12, <2>3 DEF HoldsLocal
    <3> QED BY <1>8, <2>1, <2>3, <3>1
  <2> QED BY <2>2, <2>3
<1> DEFINE l1 == [j \in DOMAIN c.locals |->
                    IF j \in i..(i + w - 1)
                    THEN Abstract!LastOf(c.operands, w)[j - i + 1] ELSE c.locals[j]]
<1>15. LocalsOf(stack') = l1
  <2>1. ASSUME NEW j \in 1..k
        PROVE  stack'[Place(j)].value
                 = IF j \in i..(i + w - 1)
                   THEN Abstract!LastOf(c.operands, w)[j - i + 1] ELSE c.locals[j]
    <3>1. j \in i..(i + w - 1) => j - i + 1 \in 1..w
      <4>1. i \in Nat /\ j \in Nat /\ w \in Nat
        BY <1>3, <1>13
      <4> QED BY <4>1
    <3> HIDE DEF c
    <3> QED BY <1>11, <1>13, <1>14, <3>1
  <2> HIDE DEF c
  <2> QED BY <1>13, <2>1
<1> HIDE DEF l1
<1>16. Call_of(stack', fp, Current, pc'[2], sp')
         = Stored(c, pc'[2], Abstract!First(c.operands, w - keep), l1)
  <2>1. Call_of(stack', fp, Current, pc'[2], sp')
          = Act(Current, pc'[2], l1, Abstract!First(c.operands, w - keep))
    BY <1>10, <1>15 DEF Call_of, Act, LocalsOf, bottom
  <2> QED BY <2>1, <1>5, CalleeIs, StoredFacts
<1>17. w <= Len(c.operands) /\ i \in 1..(Len(c.locals) - w + 1)
  BY <1>3, <1>11, <1>12, <1>13
<1> HIDE DEF c
<1>18. Abstract!Becomes(Stored(c, pc'[2], Abstract!First(c.operands, w - keep), l1))
  BY <1>9, <1>16
<1> QED BY <1>2, <1>6, <1>17, <1>18, WaitingFacts DEF Abstract!SetLocal, Stored, l1, c

(* A branch within the body is a Branch. *)
LEMMA BranchBranches ==
  ASSUME IInv, Executing, NEW selector \in 0..1, NEW depth \in 0..Height,
         NEW arity \in 0..2, br_impl(selector, depth, arity)
  PROVE  Abstract!Next
<1> DEFINE bottom == Operands(fp, Current)
           c == Abstract!Callee
<1> PICK ws : ws = Top(stack, sp - selector, arity)
  OBVIOUS
<1> PICK p : p = selector + depth
  OBVIOUS
<1>1. /\ stack' = Store(stack, (sp - selector) - depth, ws)
      /\ sp' = (sp - selector) - depth + arity
      /\ fp' = fp /\ UNCHANGED <<result, pause>>
      /\ p <= Height /\ arity <= depth
      /\ Height - p + arity <= StackUsage[Current]
  BY DEF br_impl, Pops
<1>2. PICK target \in 0..(CodeWords - 1) : pc' = <<Current, target>>
  BY DEF br_impl
<1>3. /\ sp \in Nat /\ bottom \in Nat /\ sp <= StackLen /\ Height = sp - bottom
      /\ selector \in Nat /\ depth \in Nat /\ arity \in Nat /\ p \in Nat
      /\ p <= sp - bottom
  BY <1>1, ExecutingFacts
<1>4. /\ sp - p = (sp - selector) - depth /\ sp - selector \in Nat
      /\ arity <= sp - selector /\ sp - selector <= StackLen
  BY <1>1, <1>3, EngineAssumption
<1>5. ws \in [1..arity -> Word]
  BY <1>3, <1>4, ExecutingFacts, TopWords DEF TypeOK
<1>6. KeepsChain /\ ~Idle /\ pause = None
  BY BranchKeeps, ExecutingFacts
<1>7. Current' = Current /\ pc'[2] \in 0..(CodeWords - 1)
  BY <1>2 DEF Current
<1>8. stack' = Store(stack, sp - p, ws) /\ sp' = sp - p + arity
  BY <1>1, <1>4
<1>9. sp' <= StackLen
  BY <1>1, <1>3, <1>8, EngineAssumption
<1> DEFINE values == [i \in 1..arity |-> ws[i].value]
<1>10. Abstract!Becomes(Gone(c, Abstract!First(c.operands, p) \o values, pc'[2]))
  BY <1>1, <1>3, <1>5, <1>6, <1>7, <1>8, <1>9, OperandsBecome
<1> HIDE DEF bottom
<1>11. values = Abstract!LastOf(Abstract!First(c.operands, selector), arity)
  <2> PICK top : top = sp - selector
    OBVIOUS
  <2>1. c.operands = Data(stack, bottom, sp)
    BY <1>6, CalleeIs DEF bottom
  <2>2. Abstract!First(Data(stack, bottom, sp), selector) = Data(stack, bottom, sp - selector)
    <3>1. /\ bottom \in Int /\ sp \in Int /\ selector \in Int /\ 0 <= selector
          /\ selector <= sp - bottom
      BY <1>1, <1>3
    <3> QED BY <3>1, DataEnds
  <2>3. Abstract!LastOf(Data(stack, bottom, top), arity) = Data(stack, top - arity, top)
    <3>1. /\ bottom \in Int /\ top \in Int /\ arity \in Int /\ 0 <= arity
          /\ arity <= top - bottom
      BY <1>1, <1>3
    <3> QED BY <3>1, DataEnds
  <2>4. values = Data(stack, top - arity, top)
    <3>1. top \in Int /\ ws = Top(stack, top, arity)
      BY <1>3
    <3> QED BY <1>3, <3>1, TopHolds
  <2> QED BY <2>1, <2>2, <2>3, <2>4
<1> HIDE DEF values, c
<1>12. Abstract!Becomes(Got(c, pc'[2], Abstract!First(c.operands, p) \o values))
  <2>1. \A o : Gone(c, o, pc'[2]) = Got(c, pc'[2], o)
    BY <1>6, CalleeIs, GoneFacts, GotFacts DEF c
  <2> QED BY <1>10, <2>1
<1>13. Abstract!Branch(selector, depth, arity)
  <2>1. Abstract!Becomes(Got(c, pc'[2], Abstract!First(c.operands, selector + depth)
            \o Abstract!LastOf(Abstract!First(c.operands, selector), arity)))
    BY <1>11, <1>12
  <2> QED BY <1>1, <1>7, <2>1, WaitingFacts DEF Abstract!Branch, Got, c
<1>14. /\ Len(Abstract!Callee.operands) = Height /\ Abstract!Calling
  BY <1>6, CalleeFacts
<1>15. Abstract!Operand(selector + depth) /\ depth \in 0..Len(Abstract!Callee.operands)
  BY <1>1, <1>14 DEF Abstract!Operand
<1> QED BY <1>1, <1>6, <1>13, <1>14, <1>15 DEF Abstract!Next

(* A trap, of any instruction. *)
LEMMA UnwindTraps ==
  ASSUME IInv, Executing, Unwind, UNCHANGED <<result, pause>>
  PROVE  Abstract!Next
<1>1. LiveActivations' = <<>>
  BY NoLiveCalls DEF Unwind
<1>2. Abstract!Trap
  BY <1>1, WaitingFacts DEF Abstract!Trap
<1> QED BY <1>2, ExecutingFacts, CalleeFacts DEF Abstract!Next

(* memory.grow is a Compute, or a Trap. *)
LEMMA MemoryGrowComputes ==
  ASSUME IInv, Executing, memory_grow
  PROVE  Abstract!Next
<1>1. CASE /\ memory' = MemoryOf[module]
           /\ \E words \in Words(1) : stack' = Store(stack, sp - 1, words)
           /\ pc' = Next_pc(1) /\ Continue /\ UNCHANGED <<sp, fp>>
  <2>1. PICK ws \in Words(1) : stack' = Store(stack, sp - 1, ws)
    BY <1>1
  <2>2. UNCHANGED <<result, pause>> /\ Falls(1) /\ 1 <= Height
    BY DEF memory_grow, Pops
  <2>3. pc' \in Funcs \X (0..(CodeWords - 1)) /\ Current' = Current
    BY <1>1, <2>2, ExecutingFacts, NextPcFacts DEF Current
  <2>4. KeepsChain
    BY <2>3, MemoryGrowKeeps, TargetsAreNotSentinel
  <2>5. /\ sp' = sp - 1 + 1 /\ sp' <= StackLen /\ fp' = fp
        /\ 1 \in 0..Height /\ 1 \in 0..2 /\ pc'[2] \in 0..(CodeWords - 1)
    BY <1>1, <2>2, <2>3, ExecutingFacts
  <2> QED BY <2>1, <2>2, <2>3, <2>4, <2>5, Computes
<1>2. CASE Unwind
  BY <1>2, UnwindTraps DEF memory_grow
<1> QED BY <1>1, <1>2 DEF memory_grow

(* A trapping instruction is a Trap. *)
LEMMA InstructionTrapsTraps ==
  ASSUME IInv, Executing, InstructionTraps
  PROVE  Abstract!Next
BY UnwindTraps DEF InstructionTraps

(* Writing no words changes nothing. *)
LEMMA NothingStored ==
  ASSUME NEW s \in [Addr -> Word], NEW lo \in Int, NEW ws \in [1..0 -> Word]
  PROVE  Store(s, lo, ws) = s
<1>1. \A a \in Addr : ~(lo <= a /\ a < lo + 0)
  BY EngineAssumption DEF Addr
<1>2. ASSUME NEW k \in Nat, NEW v \in [1..k -> Word]
      PROVE  /\ Store(s, lo, v) \in [Addr -> Word]
             /\ \A a \in Addr : ~(lo <= a /\ a < lo + k) => Store(s, lo, v)[a] = s[a]
  BY StoreWords
<1>3. 0 \in Nat
  OBVIOUS
<1>4. /\ Store(s, lo, ws) \in [Addr -> Word]
      /\ \A a \in Addr : ~(lo <= a /\ a < lo + 0) => Store(s, lo, ws)[a] = s[a]
  BY <1>2, <1>3, Zenon
<1>5. \A a \in Addr : Store(s, lo, ws)[a] = s[a]
  BY <1>1, <1>4, Zenon
<1> PICK t : t = Store(s, lo, ws)
  OBVIOUS
<1>6. t \in [Addr -> Word] /\ \A a \in Addr : t[a] = s[a]
  BY <1>4, <1>5
<1>7. t = s
  BY <1>6
<1> QED BY <1>7

(* Appending no data changes nothing. *)
LEMMA NothingAppended ==
  ASSUME NEW s, NEW lo \in Int, NEW hi \in Int, lo <= hi,
         NEW e \in [1..0 -> Values]
  PROVE  Data(s, lo, hi) \o e = Data(s, lo, hi)
<1>1. Data(s, lo, hi) \in Seq(Held(s)) /\ e = << >>
  BY DataHeld
<1> QED BY <1>1

(* A host call is a Compute when answered, an AskHost when it pauses. *)
LEMMA CallHostAsks ==
  ASSUME IInv, Executing, NEW h \in Hosts, NEW index \in 0..1,
         call_host(h, index)
  PROVE  Abstract!Next
<1> PICK p : p = index + HostParams[h]
  OBVIOUS
<1> DEFINE c == Abstract!Callee
           bottom == Operands(fp, Current)
<1>1. /\ HostParams[h] \in Nat /\ HostResult[h] \in 0..2 /\ p \in Nat
      /\ sp - p = sp - index - HostParams[h] /\ p <= Height
      /\ Height - p + HostResult[h] <= StackUsage[Current]
      /\ Falls(2) /\ UNCHANGED <<fp, result>>
  <2>1. HostParams[h] \in Nat /\ HostResult[h] \in 0..2
    BY EngineAssumption
  <2>2. sp \in Nat
    BY ExecutingFacts
  <2> QED BY <2>1, <2>2 DEF call_host, Pops
<1>2. /\ ~Idle /\ pause = None /\ sp \in Nat /\ bottom \in Nat
      /\ Height = sp - bottom /\ Height \in Nat
  BY ExecutingFacts
<1>3. CASE /\ \E words \in Words(HostResult[h]) :
                 stack' = Store(stack, sp - index - HostParams[h], words)
           /\ sp' = sp - index - HostParams[h] + HostResult[h] /\ pc' = Next_pc(2)
           /\ Continue /\ UNCHANGED pause
  <2>1. PICK ws \in Words(HostResult[h]) : stack' = Store(stack, sp - p, ws)
    BY <1>1, <1>3
  <2>2. pc' \in Funcs \X (0..(CodeWords - 1)) /\ Current' = Current
    BY <1>1, <1>3, ExecutingFacts, NextPcFacts DEF Current
  <2>3. KeepsChain
    BY <2>2, CallHostKeeps, TargetsAreNotSentinel
  <2>4. /\ sp' = sp - p + HostResult[h] /\ fp' = fp /\ p \in 0..Height
        /\ pc'[2] \in 0..(CodeWords - 1) /\ UNCHANGED <<result, pause>>
    BY <1>1, <1>2, <1>3, <2>2
  <2>5. sp' <= StackLen
    <3> PICK r : r = HostResult[h]
      OBVIOUS
    <3>1. r \in Nat /\ Height - p + r <= StackUsage[Current] /\ sp' = sp - p + r
      BY <1>1, <2>4
    <3> QED BY <3>1, <1>1, <1>2, ExecutingFacts, EngineAssumption DEF StackInBounds
  <2> QED BY <1>1, <2>1, <2>2, <2>3, <2>4, <2>5, Computes
<1>4. CASE /\ pause = None /\ pause' = HostResult[h]
           /\ sp' = sp - index - HostParams[h]
           /\ pc' = Next_pc(2) /\ Break("Pause") /\ UNCHANGED stack
  <2>1. /\ pc' \in Funcs \X (0..(CodeWords - 1)) /\ Current' = Current
        /\ pc'[2] = pc[2] + 2
    BY <1>1, <1>4, ExecutingFacts, NextPcFacts DEF Current, Next_pc
  <2>2. KeepsChain
    BY <2>1, CallHostKeeps, TargetsAreNotSentinel
  <2> DEFINE none == [i \in 1..0 |-> Val(Zero)]
  <2>3. none \in [1..0 -> Word] /\ 0 \in Nat
    OBVIOUS
  <2>4. stack' = Store(stack, sp - p, none)
    <3>1. stack \in [Addr -> Word] /\ sp - p \in Int
      BY <1>1, <1>2, ExecutingFacts, SMTT(30) DEF TypeOK
    <3> QED BY <1>4, <2>3, <3>1, NothingStored
  <2>5. sp' = sp - p + 0 /\ sp' <= StackLen
    BY <1>1, <1>2, <1>4, ExecutingFacts, EngineAssumption
  <2> PICK ws : ws = none
    OBVIOUS
  <2> HIDE DEF none
  <2>6. Abstract!Becomes(Gone(c, Abstract!First(c.operands, p)
                                   \o [i \in 1..0 |-> ws[i].value], pc'[2]))
    BY <1>1, <1>2, <2>1, <2>2, <2>3, <2>4, <2>5, OperandsBecome
  <2> HIDE DEF bottom
  <2>7. Abstract!First(c.operands, p) \o [i \in 1..0 |-> ws[i].value]
          = Abstract!First(c.operands, p)
    <3>1. Abstract!First(Data(stack, bottom, sp), p) = Data(stack, bottom, sp - p)
      <4>1. /\ bottom \in Int /\ sp \in Int /\ p \in Int /\ 0 <= p /\ p <= sp - bottom
        BY <1>1, <1>2
      <4> QED BY <4>1, DataEnds
    <3>2. Data(stack, bottom, sp - p) \o [i \in 1..0 |-> ws[i].value]
            = Data(stack, bottom, sp - p)
      <4> PICK e : e = [i \in 1..0 |-> ws[i].value]
        OBVIOUS
      <4> PICK hi : hi = sp - p
        OBVIOUS
      <4>1. bottom \in Int /\ hi \in Int /\ bottom <= hi /\ e \in [1..0 -> Values]
        BY <1>1, <1>2
      <4>2. Data(stack, bottom, hi) \o e = Data(stack, bottom, hi)
        BY <4>1, NothingAppended
      <4> QED BY <4>2
    <3>3. c.operands = Data(stack, bottom, sp)
      BY <1>2, CalleeIs DEF bottom
    <3> QED BY <3>1, <3>2, <3>3
  <2>8. c.at = pc[2]
    BY <1>2, CalleeFacts
  <2> HIDE DEF c
  <2>9. Abstract!Becomes(Gone(c, Abstract!First(c.operands, p), c.at + 2))
    BY <2>1, <2>6, <2>7, <2>8
  <2>10. Abstract!AskHost(h, index)
    BY <1>1, <1>4, <2>9 DEF Abstract!AskHost, Gone, c
  <2>11. Abstract!Operand(index + HostParams[h]) /\ Abstract!Calling
    BY <1>1, <1>2, CalleeFacts DEF Abstract!Operand
  <2> QED BY <1>2, <2>10, <2>11 DEF Abstract!Next
<1>5. CASE pause # None
  BY <1>2, <1>5
<1> QED BY <1>3, <1>4, <1>5 DEF call_host

Took(c, operands) == [c EXCEPT !.operands = operands]

(* An activation with other operands. *)
LEMMA TookFacts ==
  ASSUME NEW f, NEW a, NEW l, NEW o, NEW o1
  PROVE  Took(Act(f, a, l, o), o1) = Act(f, a, l, o1)
<1> PICK c : c = Act(f, a, l, o)
  OBVIOUS
<1> QED BY DEF Took, Act

(* resume is an Answer. *)
LEMMA ResumeAnswers ==
  ASSUME IInv, resume
  PROVE  Abstract!Next
<1> DEFINE c == Abstract!Callee
<1>1. PICK ws \in Words(pause) : stack' = Store(stack, sp, ws)
  BY DEF resume
<1>2. /\ pause # None /\ sp' = sp + pause /\ pause' = None /\ pc' = pc
      /\ fp' = fp /\ result' = result /\ TypeOK /\ PauseHasRoom
  BY DEF resume, IInv, Runs
<1>3. /\ pause \in Nat /\ ~Idle /\ Height + pause <= StackUsage[Current]
      /\ ws \in [1..pause -> Word]
  BY <1>2, ValuesAreWords DEF TypeOK, PauseHasRoom
<1>4. sp' <= StackLen
  <2>1. StackInBounds
    BY RegisterFacts DEF IInv
  <2>2. /\ Operands(fp, Current) + StackUsage[Current] <= StackLen
        /\ Operands(fp, Current) \in Nat /\ StackUsage[Current] \in Nat
        /\ Height = sp - Operands(fp, Current) /\ sp \in Nat
    BY <1>2, <1>3, <2>1, CurrentFacts DEF StackInBounds, Height, TypeOK
  <2> QED BY <1>2, <1>3, <2>2, EngineAssumption
<1>5. KeepsChain /\ Current' = Current
  BY <1>2, ResumeKeeps DEF Current
<1> PICK k : k = pause
  OBVIOUS
<1> DEFINE values == [i \in 1..k |-> ws[i].value]
<1>6. Abstract!Becomes(Gone(c, c.operands \o values, pc'[2]))
  <2>1. k \in Nat /\ ws \in [1..k -> Word] /\ sp' = sp + k
    BY <1>2, <1>3
  <2> QED BY <1>1, <1>2, <1>3, <1>4, <1>5, <2>1, OperandsGrow
<1>7. values \in Abstract!Tuples(k)
  BY WordsHoldValues
<1>8. ASSUME NEW o PROVE Gone(c, o, pc'[2]) = Took(c, o)
  <2>1. pc'[2] = pc[2]
    BY <1>2
  <2> QED BY <1>3, <2>1, CalleeIs, GoneFacts, TookFacts
<1> HIDE DEF c, values
<1>9. Abstract!Becomes(Took(c, c.operands \o values))
  BY <1>6, <1>8
<1>10. Abstract!Answer
  BY <1>2, <1>7, <1>9 DEF Abstract!Answer, Took, c
<1> QED BY <1>3, <1>10, CalleeFacts DEF Abstract!Next

(* The words of a new frame above the words of s. *)
LEMMA FrameData ==
  ASSUME NEW s \in [Addr -> Word], NEW top \in Nat, NEW f \in Funcs,
         NEW length \in 0..(FrameLimit - 1), NEW delta \in Int, delta \in -128..127,
         pc \in Target \cup {Sentinel},
         top + 2 + LocalWords[f] <= StackLen,
         NEW t, t = Store(s, top, FrameWords(f, length, delta))
  PROVE  /\ Data(t, top + 2, top + 2 + LocalWords[f]) = [i \in 1..LocalWords[f] |-> Zero]
         /\ AgreeBelow(s, t, top)
         /\ t[top + 1] = PcWord(pc)
<1> PICK L, ws : L = LocalWords[f] /\ ws = FrameWords(f, length, delta)
  OBVIOUS
<1>1. L \in Nat /\ top + 2 + L <= StackLen /\ StackLen \in Nat
  BY EngineAssumption DEF WordCount
<1>2. /\ ws \in [1..(2 + L) -> Word]
      /\ ws[2] = PcWord(pc)
  BY FrameWordsFacts
<1>3. \A i \in 1..L : ws[2 + i] = Val(Zero)
  <2>1. \A j \in 1..(2 + L) : j > 2 => ws[j] = Val(Zero)
    BY DEF FrameWords
  <2>2. \A i \in 1..L : 2 + i \in 1..(2 + L) /\ 2 + i > 2
    BY <1>1
  <2> QED BY <2>1, <2>2
<1> DEFINE k == 2 + L
<1>4. k \in Nat /\ top \in Int /\ ws \in [1..k -> Word] /\ t = Store(s, top, ws)
  BY <1>1, <1>2
<1>5. /\ \A a \in Addr : ~(top <= a /\ a < top + k) => t[a] = s[a]
      /\ \A a \in Addr : top <= a /\ a < top + k => t[a] = ws[a - top + 1]
  <2> HIDE DEF k
  <2> QED BY <1>4, StoreWords
<1>6. AgreeBelow(s, t, top)
  <2>1. \A a \in Addr : a < top => ~(top <= a /\ a < top + k)
    BY EngineAssumption DEF Addr
  <2> QED BY <1>5, <2>1 DEF AgreeBelow
<1>7. t[top + 1] = PcWord(pc)
  <2>1. /\ top + 1 \in Addr /\ top <= top + 1 /\ top + 1 < top + k
        /\ (top + 1) - top + 1 = 2
    BY <1>1 DEF Addr
  <2> QED BY <1>2, <1>5, <2>1
<1>8. ASSUME NEW i \in 1..L PROVE t[top + 2 + i - 1].value = Zero
  <2>1. /\ top + 2 + i - 1 \in Addr /\ top <= top + 2 + i - 1
        /\ top + 2 + i - 1 < top + k /\ (top + 2 + i - 1) - top + 1 = 2 + i
    BY <1>1 DEF Addr
  <2>2. t[top + 2 + i - 1] = ws[2 + i]
    BY <1>5, <2>1
  <2> QED BY <1>3, <2>2 DEF Val
<1>9. Data(t, top + 2, top + 2 + L) = [i \in 1..L |-> Zero]
  <2>1. (top + 2 + L) - (top + 2) = L
    BY <1>1
  <2> QED BY <1>8, <2>1 DEF Data
<1> QED BY <1>6, <1>7, <1>9

(* No words at all. *)
LEMMA NoData ==
  ASSUME NEW s, NEW lo \in Int
  PROVE  Data(s, lo, lo) = << >>
<1>1. Data(s, lo, lo) \in Seq(Held(s)) /\ Len(Data(s, lo, lo)) = 0
  BY DataHeld
<1> QED BY <1>1, EmptySeq

(* The data of words written at the bottom of the stack. *)
LEMMA DataAtBottom ==
  ASSUME NEW s \in [Addr -> Word], NEW k \in Nat, NEW ws \in [1..k -> Word],
         k <= StackLen
  PROVE  \A lo : lo = 0 =>
           Data(Store(s, lo, ws), lo, k) = [i \in 1..k |-> ws[i].value]
<1>1. \A lo \in Nat : lo + k <= StackLen =>
        Data(Store(s, lo, ws), lo, lo + k) = [i \in 1..k |-> ws[i].value]
  BY DataStored
<1> TAKE lo
<1> HAVE lo = 0
<1>2. lo \in Nat /\ lo + k <= StackLen /\ lo + k = k
  OBVIOUS
<1>3. Data(Store(s, lo, ws), lo, lo + k) = [i \in 1..k |-> ws[i].value]
  BY <1>1, <1>2, Zenon
<1> QED BY <1>2, <1>3, Zenon

(* invoke is a Begin. *)
LEMMA InvokeBegins ==
  ASSUME IInv, NEW f \in Funcs, invoke(f)
  PROVE  Abstract!Next
<1> PICK P, L : P = ParamWords[f] /\ L = LocalWords[f]
  OBVIOUS
<1>1. /\ P \in Nat /\ L \in Nat /\ StackUsage[f] \in Nat
      /\ P < FrameLimit /\ StackLen \in Nat /\ FrameLimit \in Nat
  BY EngineAssumption DEF WordCount
<1>2. PICK args \in Words(P) : call_impl(Store(stack, 0, args), P, f, 0)
  BY DEF invoke
<1>3. /\ pc = Sentinel /\ fp = 0 /\ P + 2 + L <= StackLen
      /\ result' = None /\ pause' = pause
  <2>1. P + (StackUsage[f] + 2 + L) <= StackLen
    BY DEF invoke, required_stack_words
  <2> QED BY <1>1, <2>1 DEF invoke
<1> PICK s : s = Store(stack, 0, args)
  OBVIOUS
<1>4. /\ s \in [Addr -> Word] /\ args \in [1..P -> Word]
      /\ stack \in [Addr -> Word]
  <2>1. args \in [1..P -> Word] /\ stack \in [Addr -> Word] /\ 0 \in Int
    BY ValuesAreWords DEF IInv, TypeOK
  <2> QED BY <2>1, <1>1, StoreWords
<1>5. /\ stack' = Store(s, P, FrameWords(f, P, 0)) /\ pc' = <<f, 0>>
      /\ sp' = P + 2 + L
  BY <1>1, <1>2, <1>3 DEF call_impl
<1>6. /\ Data(stack', P + 2, P + 2 + L) = [i \in 1..L |-> Zero]
      /\ AgreeBelow(s, stack', P)
  <2> PICK delta : delta = 0
    OBVIOUS
  <2>1. /\ P \in 0..(FrameLimit - 1) /\ delta \in Int /\ delta \in -128..127
        /\ pc \in Target \cup {Sentinel} /\ P + 2 + LocalWords[f] <= StackLen
    BY <1>1, <1>3
  <2>2. stack' = Store(s, P, FrameWords(f, P, delta))
    BY <1>5
  <2>3. /\ Data(stack', P + 2, P + 2 + LocalWords[f]) = [i \in 1..LocalWords[f] |-> Zero]
        /\ AgreeBelow(s, stack', P)
    BY <1>1, <1>4, <2>1, <2>2, FrameData, SMTT(30)
  <2> QED BY <2>3
<1>13. fp \in Nat /\ fp + P = P /\ fp + P <= StackLen /\ P - P = fp
  BY <1>1, <1>3
<1>14. fp \in Nat /\ fp + P <= StackLen
  BY <1>1, <1>3
<1>7. Data(stack', fp, P) = [i \in 1..P |-> args[i].value]
  <2>1. s = Store(stack, fp, args)
    BY <1>3
  <2>2. Data(s, fp, P) = [i \in 1..P |-> args[i].value]
    <3>1. \A lo : lo = 0 => Data(Store(stack, lo, args), lo, P)
                             = [i \in 1..P |-> args[i].value]
      <4>1. P <= StackLen
        BY <1>1, <1>13
      <4> QED BY <1>1, <1>4, <4>1, DataAtBottom
    <3> QED BY <1>3, <2>1, <3>1, Zenon
  <2>3. \A a \in fp..(P - 1) : stack'[a] = s[a]
    <3>1. \A a \in fp..(P - 1) : a \in Addr /\ a < P
      BY <1>1, <1>3, <1>14 DEF Addr
    <3> QED BY <1>6, <3>1 DEF AgreeBelow
  <2>4. fp \in Int /\ P \in Int
    BY <1>1, <1>13
  <2>5. Data(stack', fp, P) = Data(s, fp, P)
    BY <2>3, <2>4, SameData
  <2> QED BY <2>2, <2>5
<1> PICK values : values = [i \in 1..P |-> args[i].value]
  OBVIOUS
<1>8. values \in Abstract!Tuples(P)
  BY WordsHoldValues
<1>9. LiveActivations' = <<Call_of(stack', P, f, 0, P + 2 + L)>>
  <2> PICK base, fn : base = [i \in 1..1 |-> P] /\ fn = [i \in 1..1 |-> f]
    OBVIOUS
  <2>1. Chain(1, base, fn)'
    BY InvokeKeeps
  <2> PICK n : n = 1
    OBVIOUS
  <2>2. Chain(n, base, fn)' /\ n > 0
    BY <2>1
  <2>3. LiveActivations' = Calls(stack', n, base, fn, pc'[2], sp')
    BY <2>2, NextLiveCalls
  <2>4. Calls(stack', n, base, fn, pc'[2], sp') = [i \in 1..1 |-> Call_of(stack', P, f, pc'[2], sp')]
    BY DEF Calls
  <2>5. pc'[2] = 0
    BY <1>5
  <2> PICK c : c = Call_of(stack', P, f, pc'[2], sp')
    OBVIOUS
  <2>6. [i \in 1..1 |-> c] = <<c>>
    OBVIOUS
  <2> QED BY <1>5, <2>3, <2>4, <2>5, <2>6
<1>10. Call_of(stack', P, f, 0, P + 2 + L) = Abstract!Activation(f, values)
  <2>1. P - P = fp /\ Operands(P, f) = P + 2 + L
    BY <1>1, <1>13 DEF Operands
  <2>2. Data(stack', P + 2 + L, P + 2 + L) = << >>
    <3> PICK hi : hi = P + 2 + L
      OBVIOUS
    <3>1. hi \in Int
      BY <1>1
    <3>2. Data(stack', hi, hi) = << >>
      BY <3>1, NoData
    <3> QED BY <3>2
  <2>3. Data(stack', P + 2, P + 2 + L) = [i \in 1..LocalWords[f] |-> Zero]
    BY <1>6
  <2>4. Data(stack', fp, P) = values
    BY <1>7
  <2> QED BY <2>1, <2>2, <2>3, <2>4 DEF Call_of, Abstract!Activation
<1>11. ~Abstract!Calling
  BY <1>3, NoLiveCalls DEF Abstract!Calling, Idle
<1>12. Abstract!Begin(f)
  BY <1>3, <1>8, <1>9, <1>10, <1>11 DEF Abstract!Begin
<1> QED BY <1>12 DEF Abstract!Next

-----------------------------------------------------------------------------
(* Calls and returns, as the abstraction sees them *)

(* A sequence with one element more. *)
LEMMA Appended ==
  ASSUME NEW n \in Nat, NEW T, NEW s \in [1..n -> T], NEW m, m = n + 1,
         NEW t \in [1..m -> T], NEW e,
         \A i \in 1..n : t[i] = s[i], t[m] = e
  PROVE  t = Append(s, e)
<1>1. e \in T /\ n \in Nat /\ m \in Nat /\ n + 1 = m
  OBVIOUS
<1>4. t \in Seq(T) /\ Len(t) = m
  BY <1>1, SeqDef, LengthOfWords
<1>5. s \in Seq(T) /\ Len(s) = n
  BY SeqDef, LengthOfWords
<1>6. /\ Append(s, e) \in Seq(T) /\ Len(Append(s, e)) = m
      /\ \A i \in 1..m : Append(s, e)[i] = IF i <= n THEN s[i] ELSE e
  BY <1>1, <1>5
<1>7. \A i \in 1..m : t[i] = Append(s, e)[i]
  <2> PICK a, b, k : a = Append(s, e) /\ b = t /\ k = m
    OBVIOUS
  <2>1. \A i \in 1..k : (i \in 1..n /\ i <= n) \/ (i = k /\ ~(i <= n))
    OBVIOUS
  <2>2. ASSUME NEW i \in 1..k PROVE b[i] = a[i]
    <3>1. a[i] = IF i <= n THEN s[i] ELSE e
      BY <1>6
    <3>2. CASE i \in 1..n /\ i <= n
      BY <3>1, <3>2, Zenon
    <3>3. CASE i = k /\ ~(i <= n)
      BY <3>1, <3>3, Zenon
    <3> QED BY <2>1, <3>2, <3>3
  <2> QED BY <2>2, Zenon
<1> QED BY <1>4, <1>6, <1>7, SeqEqual

(* A sequence without its last element. *)
LEMMA Shortened ==
  ASSUME NEW n \in Nat, n > 0, NEW s
  PROVE  Slice(s, 1, n - 1) = [i \in 1..(n - 1) |-> s[i]]
<1> DEFINE T == {s[i] : i \in 1..(n - 1)}
<1> PICK t : t = [i \in 1..(n - 1) |-> s[i]]
  OBVIOUS
<1> PICK m : m = n - 1
  OBVIOUS
<1>1. m \in Nat /\ m \in Int /\ 1 \in Int /\ n - 1 = m
  OBVIOUS
<1>2. /\ t \in [1..m -> T] /\ \A i \in 1..m : s[i] \in T
      /\ \A i \in 1..m : t[i] = s[i]
  BY <1>1
<1> HIDE DEF T
<1>3. t \in Seq(T) /\ Len(t) = m
  BY <1>1, <1>2, SeqDef, LengthOfWords
<1>4. /\ SubSeq(s, 1, m) \in Seq(T)
      /\ Len(SubSeq(s, 1, m)) = IF 1 <= m THEN m - 1 + 1 ELSE 0
      /\ \A i \in 1..(m - 1 + 1) : SubSeq(s, 1, m)[i] = s[1 + i - 1]
  BY <1>1, <1>2, SubSeqProperties
<1>5. /\ Len(SubSeq(s, 1, m)) = m
      /\ \A i \in 1..m : SubSeq(s, 1, m)[i] = s[i]
  <2>1. m - 1 + 1 = m /\ \A i \in 1..m : 1 + i - 1 = i
    BY <1>1
  <2>2. (IF 1 <= m THEN m - 1 + 1 ELSE 0) = m
    BY <1>1
  <2> QED BY <1>4, <2>1, <2>2
<1>6. \A i \in 1..m : t[i] = SubSeq(s, 1, m)[i]
  BY <1>2, <1>5
<1>7. t = SubSeq(s, 1, m)
  BY <1>1, <1>3, <1>4, <1>5, <1>6, SeqEqual
<1> QED BY <1>1, <1>7 DEF Slice

(* The frames of the next state's chain. *)
LEMMA NextChainIsStacked ==
  ASSUME NEW n, NEW base, NEW fn, Chain(n, base, fn)', n > 0
  PROVE  Stacked(n, base, fn)
<1>1. /\ n \in Nat /\ base \in [1..n -> Nat] /\ fn \in [1..n -> Funcs]
      /\ Frames(n, base, fn)'
  BY DEF Chain
<1>2. \A i \in 1..n : FrameWord(i, base, fn)' /\ FramePlace(i, base, fn)
  BY <1>1 DEF Frames, FramePlace, Operands
<1>3. base[1] = ParamWords[fn[1]]
  <2>1. 1 \in 1..n
    BY <1>1
  <2> QED BY <1>2, <2>1 DEF FrameWord
<1> QED BY <1>1, <1>2, <1>3 DEF Stacked

(* What the call of f makes of the registers and the stack. *)
LEMMA CallFacts ==
  ASSUME IInv, Executing, NEW f \in Funcs, NEW index \in 0..1, Call(f, index)
  PROVE  /\ index + ParamWords[f] <= Height /\ UNCHANGED <<result, pause>>
         /\ \A top : top = sp - index =>
            \/ Unwind
            \/ /\ pc' # Sentinel /\ pc'[2] = 0 /\ sp' = top + 2 + LocalWords[f]
               /\ top + 2 + LocalWords[f] <= StackLen
               /\ Data(stack', top + 2, top + 2 + LocalWords[f])
                    = [i \in 1..LocalWords[f] |-> Zero]
               /\ AgreeBelow(stack, stack', top)
               /\ stack'[top + 1] = PcWord(pc)
<1>1. /\ index + ParamWords[f] <= Height /\ UNCHANGED <<result, pause>>
  BY DEF Call, Pops
<1> SUFFICES ASSUME NEW top, top = sp - index, ~Unwind
             PROVE  /\ pc' # Sentinel /\ pc'[2] = 0 /\ sp' = top + 2 + LocalWords[f]
                    /\ top + 2 + LocalWords[f] <= StackLen
                    /\ Data(stack', top + 2, top + 2 + LocalWords[f])
                         = [i \in 1..LocalWords[f] |-> Zero]
                    /\ AgreeBelow(stack, stack', top)
                    /\ stack'[top + 1] = PcWord(pc)
  BY <1>1
<1>2. /\ StackLen >= top + required_stack_words(f)
      /\ call_impl(stack, top, f, ModuleDelta(module, ModuleOf[f]))
  BY DEF Call
<1> PICK delta : delta = ModuleDelta(module, ModuleOf[f])
  OBVIOUS
<1> PICK length : length = top - fp
  OBVIOUS
<1>3. /\ stack' = Store(stack, top, FrameWords(f, length, delta))
      /\ pc' = <<f, 0>> /\ sp' = top + 2 + LocalWords[f]
  BY <1>2 DEF call_impl
<1>4. /\ ParamWords[f] \in Nat /\ LocalWords[f] \in Nat /\ StackUsage[f] \in Nat
      /\ ModuleOf[f] \in Modules
  BY EngineAssumption DEF WordCount
<1>5. delta \in Int /\ delta \in -128..127
  <2>1. module \in 0..255 /\ ModuleOf[f] \in 0..255
    BY <1>4, ExecutingFacts, EngineAssumption, ZenonT(30) DEF TypeOK
  <2>2. ModuleDelta(module, ModuleOf[f]) \in -128..127
    BY <2>1, DeltaRestores, ZenonT(30)
  <2> QED BY <2>2
<1>6. /\ top \in Nat /\ length \in 0..(FrameLimit - 1)
  <2>1. /\ sp <= Operands(fp, Current) + StackUsage[Current]
        /\ Operands(fp, Current) = fp + 2 + LocalWords[Current]
        /\ Operands(fp, Current) \in Nat /\ sp \in Nat /\ fp \in Nat
        /\ Height = sp - Operands(fp, Current)
        /\ LocalWords[Current] \in Nat /\ StackUsage[Current] \in Nat
        /\ 2 + LocalWords[Current] + StackUsage[Current] < FrameLimit
        /\ FrameLimit \in Nat
    BY ExecutingFacts, EngineAssumption DEF StackInBounds
  <2>2. index \in Nat /\ index <= sp - Operands(fp, Current)
    BY <1>1, <1>4, <2>1
  <2> QED BY <2>1, <2>2
<1>7. top + 2 + LocalWords[f] <= StackLen
  BY <1>2, <1>4, <1>6, EngineAssumption DEF required_stack_words
<1>8. pc \in Target \cup {Sentinel} /\ stack \in [Addr -> Word]
  <2>1. pc \in Funcs \X (0..(CodeWords - 1)) /\ CodeWords \in Nat \ {0}
    BY ExecutingFacts, EngineAssumption DEF TypeOK, Idle
  <2>2. 0..(CodeWords - 1) \subseteq 0..CodeWords
    BY <2>1
  <2>3. pc \in Target
    BY <2>1, <2>2 DEF Target
  <2> QED BY <2>3, ExecutingFacts DEF TypeOK
<1>9. /\ Data(stack', top + 2, top + 2 + LocalWords[f])
           = [i \in 1..LocalWords[f] |-> Zero]
      /\ AgreeBelow(stack, stack', top)
      /\ stack'[top + 1] = PcWord(pc)
  <2>1. ASSUME NEW x \in 0..(FrameLimit - 1), NEW d \in Int, d \in -128..127,
               stack' = Store(stack, top, FrameWords(f, x, d))
        PROVE  /\ Data(stack', top + 2, top + 2 + LocalWords[f])
                    = [i \in 1..LocalWords[f] |-> Zero]
               /\ AgreeBelow(stack, stack', top)
               /\ stack'[top + 1] = PcWord(pc)
    BY <1>6, <1>7, <1>8, <2>1, FrameData
  <2>2. stack' = Store(stack, top, FrameWords(f, length, delta))
    BY <1>3
  <2>3. length \in 0..(FrameLimit - 1) /\ delta \in Int /\ delta \in -128..127
    BY <1>5, <1>6
  <2> HIDE DEF FrameWords, Data, AgreeBelow, Store
  <2> QED BY <2>1, <2>2, <2>3, Zenon
<1>10. pc' # Sentinel /\ pc'[2] = 0
  BY <1>3, EngineAssumption, TargetsAreNotSentinel
<1> QED BY <1>3, <1>7, <1>9, <1>10

(* f has n elements, and f1 the x after them. *)
Lengthens(m, f1, n, f, x) == m = n + 1 /\ f1 = Longer(n, f, x)

(* d is c with last in the place of its n-th element, and new after it. *)
Grown(c, d, n, m, last, new) ==
  /\ \A i \in 1..(n - 1) : d[i] = c[i]
  /\ d[n] = last /\ d[m] = new

(* One call more: the callers as they were, the last one short of the       *)
(* arguments it passed, and the new one.                                    *)
LEMMA CallsGrow ==
  ASSUME NEW n \in Nat, n > 0, NEW base, NEW fn, NEW at, NEW end, NEW s, NEW t,
         NEW top \in Nat, NEW f, ParamWords[f] \in Nat,
         NEW m, NEW base1, Lengthens(m, base1, n, base, top),
         NEW fn1, Lengthens(m, fn1, n, fn, f), Stacked(m, base1, fn1),
         AgreeBelow(s, t, top), t[top + 1] = PcWord(<<fn[n], at>>),
         NEW at1, NEW end1
  PROVE  Grown(Calls(s, n, base, fn, at, end), Calls(t, m, base1, fn1, at1, end1), n, m,
               Call_of(s, base[n], fn[n], at, top - ParamWords[f]),
               Call_of(t, top, f, at1, end1))
<1>0. /\ m \in Nat /\ n \in 1..m /\ n < m /\ m \in 1..m /\ m - 1 = n /\ n + 1 = m
      /\ \A i \in 1..n : i \in 1..m /\ i < m /\ i # m
  BY DEF Lengthens
<1>1. /\ m \in Nat /\ n \in 1..m /\ n < m /\ m \in 1..m /\ m - 1 = n
      /\ base1[m] = top /\ fn1[m] = f
      /\ \A i \in 1..n : base1[i] = base[i] /\ fn1[i] = fn[i] /\ i \in 1..m /\ i < m
                         /\ i # m
  <2>1. /\ base1 = [i \in 1..m |-> IF i = m THEN top ELSE base[i]]
        /\ fn1 = [i \in 1..m |-> IF i = m THEN f ELSE fn[i]]
    BY <1>0 DEF Longer, Lengthens
  <2> QED BY <1>0, <2>1, Zenon
<1>2. AgreeBelow(s, t, base1[m] - ParamWords[fn1[m]])
  <2>1. \A a \in Addr : a < top - ParamWords[f] => a < top
    BY EngineAssumption DEF Addr
  <2> QED BY <1>1, <2>1 DEF AgreeBelow
<1>3. \A i \in 1..n : \A a :
        /\ Call_of(t, base1[i], fn1[i], a, base1[i + 1] - ParamWords[fn1[i + 1]])
             = Call_of(s, base1[i], fn1[i], a, base1[i + 1] - ParamWords[fn1[i + 1]])
        /\ t[base1[i] + 1] = s[base1[i] + 1]
  <2> TAKE i \in 1..n
  <2> TAKE a
  <2>1. i \in 1..m /\ i < m
    BY <1>0
  <2>2. ASSUME NEW q, Stacked(q, base1, fn1),
               AgreeBelow(s, t, base1[q] - ParamWords[fn1[q]]),
               NEW j \in 1..q, j < q
        PROVE  /\ Call_of(t, base1[j], fn1[j], a, base1[j + 1] - ParamWords[fn1[j + 1]])
                    = Call_of(s, base1[j], fn1[j], a, base1[j + 1] - ParamWords[fn1[j + 1]])
               /\ t[base1[j] + 1] = s[base1[j] + 1]
    BY <2>2, SameCallers
  <2> QED BY <1>2, <2>1, <2>2, Zenon
<1>4. ASSUME NEW i \in 1..(n - 1)
      PROVE  Calls(t, m, base1, fn1, at1, end1)[i] = Calls(s, n, base, fn, at, end)[i]
  <2>1. i \in 1..n /\ i + 1 \in 1..n /\ i # n
    OBVIOUS
  <2>2. /\ base1[i] = base[i] /\ fn1[i] = fn[i] /\ i \in 1..m /\ i # m
        /\ base1[i + 1] = base[i + 1] /\ fn1[i + 1] = fn[i + 1]
    BY <1>1, <2>1
  <2>3. t[base[i + 1] + 1] = s[base[i + 1] + 1]
    BY <1>3, <2>1, <2>2
  <2>4. \A a : Call_of(t, base[i], fn[i], a, base[i + 1] - ParamWords[fn[i + 1]])
             = Call_of(s, base[i], fn[i], a, base[i + 1] - ParamWords[fn[i + 1]])
    BY <1>3, <2>1, <2>2
  <2> QED BY <2>1, <2>2, <2>3, <2>4 DEF Calls
<1>5. Calls(t, m, base1, fn1, at1, end1)[n]
        = Call_of(s, base[n], fn[n], at, top - ParamWords[f])
  <2>1. n \in 1..n /\ n # m
    BY <1>1
  <2>2. Calls(t, m, base1, fn1, at1, end1)[n]
          = Call_of(t, base[n], fn[n], t[top + 1].pc[2], top - ParamWords[f])
    BY <1>1, <2>1 DEF Calls
  <2>3. t[top + 1].pc[2] = at
    BY DEF PcWord
  <2> QED BY <1>1, <1>3, <2>1, <2>2, <2>3
<1>6. Calls(t, m, base1, fn1, at1, end1)[m] = Call_of(t, top, f, at1, end1)
  BY <1>1 DEF Calls
<1> QED BY <1>4, <1>5, <1>6 DEF Grown

(* The activations with other operands in the last one. *)
Passing(acts, n, operands) == [acts EXCEPT ![n].operands = operands]

(* d is acts with x in the place of its last element. *)
Altered(d, n, S, acts, x) ==
  /\ d \in [1..n -> S \cup {x}]
  /\ \A i \in 1..(n - 1) : d[i] = acts[i]
  /\ d[n] = x

(* Other operands in the last activation leave the others alone. *)
LEMMA PassingFacts ==
  ASSUME NEW n \in Nat, n > 0, NEW S, NEW acts, acts \in [1..n -> S], NEW o
  PROVE  Altered(Passing(acts, n, o), n, S, acts, Took(acts[n], o))
<1> PICK x : x = Took(acts[n], o)
  OBVIOUS
<1>1. Passing(acts, n, o) = [acts EXCEPT ![n] = x]
  BY DEF Passing, Took
<1>2. /\ [acts EXCEPT ![n] = x] \in [1..n -> S \cup {x}]
      /\ \A i \in 1..(n - 1) : [acts EXCEPT ![n] = x][i] = acts[i]
      /\ [acts EXCEPT ![n] = x][n] = x
  OBVIOUS
<1> QED BY <1>1, <1>2 DEF Altered

(* A call passes operands on to an activation of its own. *)
LEMMA CallPasses ==
  ASSUME IInv, ~Idle, NEW n, NEW base, NEW fn, Chain(n, base, fn),
         NEW f \in Funcs, NEW top \in Nat,
         AgreeBelow(stack, stack', top), stack'[top + 1] = PcWord(pc),
         NEW m, NEW base1, NEW fn1,
         Lengthens(m, base1, n, base, top), Lengthens(m, fn1, n, fn, f),
         Chain(m, base1, fn1)', m > 0,
         NEW left, left = Data(stack, Operands(fp, Current), top - ParamWords[f]),
         NEW new, new = Call_of(stack', top, f, pc'[2], sp')
  PROVE  LiveActivations' = Append(Passing(LiveActivations, n, left), new)
<1>1. /\ n \in Nat /\ n > 0 /\ fp = base[n] /\ Current = fn[n]
  BY ChainFacts
<1>2. /\ LiveActivations = Calls(stack, n, base, fn, pc[2], sp)
      /\ Len(LiveActivations) = n
      /\ LiveActivations[n] = Abstract!Callee
  BY Callee, CalleeFacts
<1>3. /\ LiveActivations' = Calls(stack', m, base1, fn1, pc'[2], sp')
      /\ Stacked(m, base1, fn1)
  BY NextLiveCalls, NextChainIsStacked
<1>4. stack'[top + 1] = PcWord(<<fn[n], pc[2]>>)
  <2>1. pc \in Funcs \X (0..(CodeWords - 1))
    BY DEF IInv, TypeOK, Idle
  <2> QED BY <1>1, <2>1 DEF Current
<1>5. ParamWords[f] \in Nat
  BY EngineAssumption DEF WordCount
<1>6. ASSUME NEW s, NEW t, NEW at, NEW end, NEW at1, NEW end1,
             AgreeBelow(s, t, top), t[top + 1] = PcWord(<<fn[n], at>>)
      PROVE  Grown(Calls(s, n, base, fn, at, end), Calls(t, m, base1, fn1, at1, end1),
                   n, m, Call_of(s, base[n], fn[n], at, top - ParamWords[f]),
                   Call_of(t, top, f, at1, end1))
  BY <1>1, <1>3, <1>5, <1>6, CallsGrow
<1>7. /\ \A i \in 1..(n - 1) : Calls(stack', m, base1, fn1, pc'[2], sp')[i]
                                   = Calls(stack, n, base, fn, pc[2], sp)[i]
      /\ Calls(stack', m, base1, fn1, pc'[2], sp')[n]
           = Call_of(stack, base[n], fn[n], pc[2], top - ParamWords[f])
      /\ Calls(stack', m, base1, fn1, pc'[2], sp')[m]
           = Call_of(stack', top, f, pc'[2], sp')
  <2>1. Grown(Calls(stack, n, base, fn, pc[2], sp),
              Calls(stack', m, base1, fn1, pc'[2], sp'),
              n, m, Call_of(stack, base[n], fn[n], pc[2], top - ParamWords[f]),
              Call_of(stack', top, f, pc'[2], sp'))
    BY <1>4, <1>6
  <2> QED BY <2>1 DEF Grown
<1>8. Call_of(stack, fp, Current, pc[2], top - ParamWords[f]) = Took(Abstract!Callee, left)
  <2>1. Call_of(stack, fp, Current, pc[2], top - ParamWords[f])
          = Act(Current, pc[2], LocalsOf(stack), left)
    BY DEF Call_of, Act, LocalsOf
  <2> QED BY <2>1, CalleeIs, TookFacts
<1> DEFINE S == {LiveActivations[i] : i \in 1..n}
           T == (S \cup {Took(Abstract!Callee, left)}) \cup {new}
<1>9. LiveActivations \in [1..n -> S]
  BY <1>2 DEF Calls
<1> HIDE DEF S
<1>10. /\ Passing(LiveActivations, n, left) \in [1..n -> S \cup {Took(Abstract!Callee, left)}]
       /\ \A i \in 1..(n - 1) : Passing(LiveActivations, n, left)[i] = LiveActivations[i]
       /\ Passing(LiveActivations, n, left)[n] = Took(Abstract!Callee, left)
  <2>1. Altered(Passing(LiveActivations, n, left), n, S, LiveActivations,
                Took(LiveActivations[n], left))
    BY <1>1, <1>9, PassingFacts
  <2> QED BY <1>2, <2>1 DEF Altered
<1> PICK s : s = Passing(LiveActivations, n, left)
  OBVIOUS
<1>11. s \in [1..n -> T]
  BY <1>10
<1>12. \A i \in 1..n : LiveActivations'[i] = s[i]
  <2>1. \A i \in 1..n : i \in 1..(n - 1) \/ i = n
    BY <1>1
  <2> QED BY <1>1, <1>2, <1>3, <1>7, <1>8, <1>10, <2>1
<1>13. LiveActivations'[m] = new
  BY <1>3, <1>7
<1>14. m = n + 1 /\ \A i \in 1..m : i \in 1..n \/ i = m
  BY <1>1 DEF Lengthens
<1>15. \A i \in 1..m : LiveActivations'[i] \in T
  <2>1. \A i \in 1..n : s[i] \in T
    BY <1>11
  <2>2. new \in T
    OBVIOUS
  <2> HIDE DEF T
  <2> QED BY <1>12, <1>13, <1>14, <2>1, <2>2, Zenon
<1> HIDE DEF T
<1>16. LiveActivations' \in [1..m -> T]
  <2>1. LiveActivations' = [i \in 1..m |-> LiveActivations'[i]]
    BY <1>3 DEF Calls
  <2>2. [i \in 1..m |-> LiveActivations'[i]] \in [1..m -> T]
    BY <1>15
  <2> QED BY <2>1, <2>2, Zenon
<1>17. ASSUME NEW t \in [1..m -> T], \A i \in 1..n : t[i] = s[i], t[m] = new
       PROVE  t = Append(s, new)
  BY <1>1, <1>11, <1>14, <1>17, Appended
<1>18. LiveActivations' = Append(s, new)
  BY <1>12, <1>13, <1>16, <1>17, Zenon
<1> QED BY <1>18

(* A call is an Enter, or a Trap when the stack has no room. *)
LEMMA CallEnters ==
  ASSUME IInv, Executing, NEW f \in Funcs, NEW index \in 0..1, Call(f, index)
  PROVE  Abstract!Next
<1> DEFINE bottom == Operands(fp, Current)
           c == Abstract!Callee
<1> PICK top : top = sp - index
  OBVIOUS
<1> PICK P, L : P = ParamWords[f] /\ L = LocalWords[f]
  OBVIOUS
<1>1. /\ index + P <= Height /\ UNCHANGED <<result, pause>>
      /\ P \in Nat /\ L \in Nat /\ index \in Nat
  <2>1. ParamWords[f] \in Nat /\ LocalWords[f] \in Nat /\ index \in Nat
    BY EngineAssumption DEF WordCount
  <2>2. index + ParamWords[f] <= Height /\ UNCHANGED <<result, pause>>
    BY CallFacts
  <2> QED BY <2>1, <2>2
<1>2. CASE Unwind
  BY <1>1, <1>2, UnwindTraps
<1>3. CASE ~Unwind
  <2>1. /\ pc' # Sentinel /\ pc'[2] = 0 /\ sp' = top + 2 + L
        /\ top + 2 + L <= StackLen
        /\ Data(stack', top + 2, top + 2 + L) = [i \in 1..L |-> Zero]
        /\ AgreeBelow(stack, stack', top)
        /\ stack'[top + 1] = PcWord(pc)
    BY <1>3, CallFacts
  <2>2. /\ sp \in Nat /\ bottom \in Nat /\ Height = sp - bottom /\ ~Idle /\ pause = None
    BY ExecutingFacts
  <2>3. /\ top \in Nat /\ bottom <= top - P /\ index <= sp - bottom /\ P <= top - bottom
    BY <1>1, <2>2
  <2> PICK n, base, fn : Chain(n, base, fn)
    BY ExecutingFacts DEF Framed
  <2>4. /\ n \in Nat /\ n > 0 /\ fp = base[n] /\ Current = fn[n]
    BY <2>2, ChainFacts
  <2>5. Len(LiveActivations) = n
    BY <2>2, Callee
  <2>6. PICK m, base1, fn1 : /\ Lengthens(m, base1, n, base, top)
                            /\ Lengthens(m, fn1, n, fn, f)
                            /\ Chain(m, base1, fn1)' /\ m > 0
    <3>1. \E m, base1, fn1 : /\ m = n + 1 /\ base1 = Longer(n, base, top)
                             /\ fn1 = Longer(n, fn, f)
      OBVIOUS
    <3>2. ASSUME NEW m, NEW base1, NEW fn1, m = n + 1,
                 base1 = Longer(n, base, top), fn1 = Longer(n, fn, f)
          PROVE  Chain(m, base1, fn1)' /\ m > 0
      BY <2>1, <2>4, <3>2, CallKeeps
    <3> QED BY <3>1, <3>2 DEF Lengthens
  <2> PICK rest, args, left :
        /\ rest = Abstract!First(c.operands, index)
        /\ args = Abstract!LastOf(rest, P)
        /\ left = Abstract!First(rest, P)
    OBVIOUS
  <2>10. /\ args = Data(stack, top - P, top)
         /\ left = Data(stack, bottom, top - P)
    <3>1. c.operands = Data(stack, bottom, sp)
      BY <2>2, CalleeIs
    <3>2. rest = Data(stack, bottom, top)
      <4>1. /\ bottom \in Int /\ sp \in Int /\ index \in Int /\ 0 <= index
        BY <1>1, <2>2
      <4>2. Abstract!First(Data(stack, bottom, sp), index) = Data(stack, bottom, sp - index)
        BY <2>3, <4>1, DataEnds
      <4> QED BY <3>1, <4>2
    <3>3. /\ Abstract!LastOf(Data(stack, bottom, top), P) = Data(stack, top - P, top)
          /\ Abstract!First(Data(stack, bottom, top), P) = Data(stack, bottom, top - P)
      <4>1. /\ bottom \in Int /\ top \in Int /\ P \in Int /\ 0 <= P
        BY <1>1, <2>2, <2>3
      <4> QED BY <2>3, <4>1, DataEnds
    <3> QED BY <3>2, <3>3
  <2>12. Call_of(stack', top, f, pc'[2], sp') = Abstract!Activation(f, args)
    <3>1. Data(stack', top - P, top) = Data(stack, top - P, top)
      <4>1. top - P \in Int /\ top \in Int
        BY <1>1, <2>3
      <4>2. \A a \in (top - P)..(top - 1) : stack'[a] = stack[a]
        <5> PICK lo : lo = top - P
          OBVIOUS
        <5>4. top + 2 + L <= StackLen
          BY <2>1
        <5>2. lo \in Nat /\ top \in Nat /\ top <= StackLen /\ StackLen \in Nat
          BY <1>1, <5>4, <2>2, <2>3, EngineAssumption
        <5>3. \A a \in lo..(top - 1) : a \in 0..(StackLen - 1) /\ a < top
          BY <5>2
        <5>1. \A a \in (top - P)..(top - 1) : a \in Addr /\ a < top
          BY <5>3 DEF Addr
        <5> QED BY <2>1, <5>1 DEF AgreeBelow
      <4> QED BY <4>1, <4>2, SameData
    <3>2. Data(stack', top + 2 + L, top + 2 + L) = << >>
      <4> PICK hi : hi = top + 2 + L
        OBVIOUS
      <4>1. hi \in Int
        BY <1>1, <2>3
      <4>2. Data(stack', hi, hi) = << >>
        BY <4>1, NoData
      <4> QED BY <4>2
    <3>3. Operands(top, f) = top + 2 + L
      BY DEF Operands
    <3> QED BY <2>1, <2>10, <3>1, <3>2, <3>3 DEF Call_of, Abstract!Activation
  <2> PICK new : new = Abstract!Activation(f, args)
    OBVIOUS
  <2>13. LiveActivations' = Append(Passing(LiveActivations, n, left), new)
    <3>1. left = Data(stack, Operands(fp, Current), top - ParamWords[f])
      BY <2>10
    <3>2. new = Call_of(stack', top, f, pc'[2], sp')
      BY <2>12
    <3>3. ASSUME NEW t \in Nat, AgreeBelow(stack, stack', t), stack'[t + 1] = PcWord(pc),
                 NEW o, o = Data(stack, Operands(fp, Current), t - ParamWords[f]),
                 NEW x, x = Call_of(stack', t, f, pc'[2], sp'),
                 Lengthens(m, base1, n, base, t)
          PROVE  LiveActivations' = Append(Passing(LiveActivations, n, o), x)
      BY <2>2, <2>6, <3>3, CallPasses
    <3> QED BY <2>1, <2>3, <2>6, <3>1, <3>2, <3>3, Zenon
  <2>14. Abstract!Enter(f, index)
    BY <1>1, <2>5, <2>13, WaitingFacts
    DEF Abstract!Enter, Abstract!Depth, Passing
  <2>15. Abstract!Operand(index + ParamWords[f]) /\ Abstract!Calling
    BY <1>1, <2>2, CalleeFacts DEF Abstract!Operand
  <2> QED BY <2>2, <2>14, <2>15 DEF Abstract!Next
<1> QED BY <1>2, <1>3

(* A call that resumes with a result. *)
Back(c, words) == Gone(c, c.operands \o words, c.at + 2)
Returned(acts, k, words) ==
  [acts EXCEPT ![k].operands = @ \o words, ![k].at = @ + 2]

(* A result on the last activation leaves the others alone. *)
LEMMA ReturnedFacts ==
  ASSUME NEW k \in Nat, k > 0, NEW S, NEW acts, acts \in [1..k -> S],
         NEW f, NEW a, NEW l, NEW o, acts[k] = Act(f, a, l, o), NEW words
  PROVE  Altered(Returned(acts, k, words), k, S, acts, Back(acts[k], words))
<1> DEFINE d == [acts EXCEPT ![k].operands = @ \o words]
           e == [d EXCEPT ![k].at = @ + 2]
<1>1. Returned(acts, k, words) = e
  BY DEF Returned
<1>2. d = [acts EXCEPT ![k] = Took(acts[k], o \o words)]
  <2>1. acts[k].operands = o
    BY DEF Act
  <2> QED BY <2>1 DEF Took
<1>3. Took(acts[k], o \o words) = Act(f, a, l, o \o words)
  BY TookFacts
<1> HIDE DEF d
<1> PICK x, y : x = Act(f, a, l, o \o words) /\ y = Act(f, a + 2, l, o \o words)
  OBVIOUS
<1>4. /\ d \in [1..k -> S \cup {x}]
      /\ \A i \in 1..(k - 1) : d[i] = acts[i]
      /\ d[k] = x
  BY <1>2, <1>3
<1>5. e = [d EXCEPT ![k] = At(x, a + 2)]
  <2>1. d[k].at = a
    BY <1>4 DEF Act
  <2> QED BY <1>4, <2>1 DEF At
<1>6. At(x, a + 2) = y
  BY AtFacts
<1>7. /\ e \in [1..k -> (S \cup {x}) \cup {y}]
      /\ \A i \in 1..(k - 1) : e[i] = acts[i]
      /\ e[k] = y
  <2> HIDE DEF e
  <2> QED BY <1>4, <1>5, <1>6
<1>8. Back(acts[k], words) = y
  <2>1. acts[k].operands = o /\ acts[k].at = a
    BY DEF Act
  <2> QED BY <2>1, GoneFacts DEF Back
<1>9. e \in [1..k -> S \cup {y}]
  <2>1. e = [i \in 1..k |-> e[i]]
    BY <1>7
  <2> HIDE DEF e
  <2>2. \A i \in 1..k : i \in 1..(k - 1) \/ i = k
    OBVIOUS
  <2>3. \A i \in 1..k : e[i] \in S \cup {y}
    BY <1>7, <2>2
  <2> QED BY <2>1, <2>3
<1> QED BY <1>1, <1>7, <1>8, <1>9 DEF Altered

(* f1 is f without the last of its n elements. *)
Cut(m, f1, n, f) == m = n - 1 /\ f1 = Shorter(n, f)

(* d is the first m elements of c with last in the place of the last one. *)
Shrunk(c, d, m, last) ==
  /\ \A i \in 1..(m - 1) : d[i] = c[i]
  /\ d[m] = last

(* The place of the result of call n; the state after writing it; the end   *)
(* of the caller's operands; the caller's call instruction.                 *)
ResultAt(lo, n, base, fn) == lo = base[n] - ParamWords[fn[n]]
Wrote(t, s, lo, k, ws) ==
  ws \in [1..k -> Word] /\ lo + k <= StackLen /\ t = Store(s, lo, ws)
Ends(hi, lo, k) == hi = lo + k
CalledAt(at, s, base) == at = s[base + 1].pc[2]

(* The result written over the arguments leaves what is below alone. *)
LEMMA WroteFacts ==
  ASSUME NEW s \in [Addr -> Word], NEW lo \in Nat, NEW k \in Nat, NEW ws, NEW t,
         Wrote(t, s, lo, k, ws), NEW hi, Ends(hi, lo, k)
  PROVE  /\ AgreeBelow(s, t, lo)
         /\ Data(t, lo, hi) = [i \in 1..k |-> ws[i].value]
         /\ hi \in Nat /\ lo <= hi
<1>1. lo \in Int /\ ws \in [1..k -> Word] /\ lo + k <= StackLen
  BY DEF Wrote
<1>2. AgreeBelow(s, t, lo)
  <2>1. \A a \in Addr : ~(lo <= a /\ a < lo + k) => Store(s, lo, ws)[a] = s[a]
    BY <1>1, StoreWords
  <2>2. \A a \in Addr : a < lo => ~(lo <= a /\ a < lo + k)
    BY EngineAssumption DEF Addr
  <2> QED BY <2>1, <2>2 DEF AgreeBelow, Wrote
<1>3. Data(Store(s, lo, ws), lo, lo + k) = [i \in 1..k |-> ws[i].value]
  BY <1>1, DataStored
<1>4. t = Store(s, lo, ws) /\ hi = lo + k
  BY DEF Wrote, Ends
<1>5. Data(t, lo, hi) = [i \in 1..k |-> ws[i].value]
  BY <1>3, <1>4, Zenon
<1>6. hi \in Nat /\ lo <= hi
  BY DEF Ends
<1> QED BY <1>2, <1>5, <1>6

SameCall(s, t, base, fn, i, at) ==
  /\ Call_of(t, base[i], fn[i], at, base[i + 1] - ParamWords[fn[i + 1]])
       = Call_of(s, base[i], fn[i], at, base[i + 1] - ParamWords[fn[i + 1]])
  /\ t[base[i] + 1] = s[base[i] + 1]

(* One call fewer: the callers as they were, the last one with the result   *)
(* on its operands.                                                         *)
LEMMA CallsShrink ==
  ASSUME NEW n \in Nat, n > 1, NEW base, NEW fn, Stacked(n, base, fn),
         NEW at, NEW end, NEW s \in [Addr -> Word], NEW t,
         NEW lo \in Nat, ResultAt(lo, n, base, fn),
         NEW k \in Nat, NEW ws, Wrote(t, s, lo, k, ws),
         NEW m, NEW base1, Cut(m, base1, n, base), NEW fn1, Cut(m, fn1, n, fn),
         NEW at1, CalledAt(at1, s, base[n]), NEW hi, Ends(hi, lo, k)
  PROVE  Shrunk(Calls(s, n, base, fn, at, end),
                Calls(t, m, base1, fn1, at1 + 2, hi), m,
                Back(Calls(s, n, base, fn, at, end)[m], [i \in 1..k |-> ws[i].value]))
<1> DEFINE c == Calls(s, n, base, fn, at, end)
           d == Calls(t, m, base1, fn1, at1 + 2, hi)
<1>1. /\ m \in Nat /\ m > 0 /\ m \in 1..m /\ m \in 1..n /\ m < n /\ m # n /\ m + 1 = n
      /\ \A i \in 1..m : i \in 1..n /\ i < n /\ i # n
      /\ \A i \in 1..(m - 1) : i \in 1..m /\ i # m /\ i + 1 \in 1..m
  BY DEF Cut
<1>2. /\ \A i \in 1..m : base1[i] = base[i] /\ fn1[i] = fn[i]
  <2>1. /\ base1 = [i \in 1..m |-> base[i]] /\ fn1 = [i \in 1..m |-> fn[i]]
    BY DEF Cut, Shorter
  <2> QED BY <2>1, Zenon
<1>3. /\ AgreeBelow(s, t, lo) /\ hi \in Nat /\ lo <= hi
      /\ Data(t, lo, hi) = [i \in 1..k |-> ws[i].value]
  BY WroteFacts
<1>14. AgreeBelow(s, t, base[n] - ParamWords[fn[n]])
  BY <1>3 DEF ResultAt
<1>4. ASSUME NEW i \in 1..m, NEW a
      PROVE  /\ Call_of(t, base[i], fn[i], a, base[i + 1] - ParamWords[fn[i + 1]])
                  = Call_of(s, base[i], fn[i], a, base[i + 1] - ParamWords[fn[i + 1]])
             /\ t[base[i] + 1] = s[base[i] + 1]
  <2>1. i \in 1..n /\ i < n
    BY <1>1
  <2>2. ASSUME NEW q, Stacked(q, base, fn), NEW x, NEW y,
               AgreeBelow(x, y, base[q] - ParamWords[fn[q]]),
               NEW j \in 1..q, j < q
        PROVE  SameCall(x, y, base, fn, j, a)
    BY <2>2, SameCallers DEF SameCall
  <2>3. SameCall(s, t, base, fn, i, a)
    BY <1>14, <2>1, <2>2
  <2> QED BY <2>3 DEF SameCall
<1>5. ASSUME NEW i \in 1..(m - 1) PROVE d[i] = c[i]
  <2>1. /\ i \in 1..m /\ i # m /\ i # n /\ i + 1 \in 1..m /\ i \in 1..n
    BY <1>1
  <2>2. /\ base1[i] = base[i] /\ fn1[i] = fn[i]
        /\ base1[i + 1] = base[i + 1] /\ fn1[i + 1] = fn[i + 1]
    BY <1>2, <2>1
  <2>3. t[base[i + 1] + 1] = s[base[i + 1] + 1]
    BY <1>4, <2>1
  <2> QED BY <1>4, <2>1, <2>2, <2>3 DEF Calls
<1> PICK values : values = [i \in 1..k |-> ws[i].value]
  OBVIOUS
<1>15. base[n] - ParamWords[fn[n]] = lo /\ s[base[n] + 1].pc[2] = at1
  BY DEF ResultAt, CalledAt
<1>6. c[m] = Call_of(s, base[m], fn[m], at1, lo)
  <2>1. c[m] = Call_of(s, base[m], fn[m], s[base[m + 1] + 1].pc[2],
                       base[m + 1] - ParamWords[fn[m + 1]])
    BY <1>1 DEF Calls
  <2> QED BY <1>1, <1>15, <2>1
<1>7. d[m] = Call_of(t, base[m], fn[m], at1 + 2, hi)
  BY <1>1, <1>2 DEF Calls
<1>8. Call_of(t, base[m], fn[m], at1, lo) = Call_of(s, base[m], fn[m], at1, lo)
  BY <1>1, <1>4, <1>15
<1> PICK bottom : bottom = Operands(base[m], fn[m])
  OBVIOUS
<1> PICK ls, os, lt, ot :
      /\ ls = Data(s, base[m] - ParamWords[fn[m]], base[m])
                \o Data(s, base[m] + 2, bottom)
      /\ lt = Data(t, base[m] - ParamWords[fn[m]], base[m])
                \o Data(t, base[m] + 2, bottom)
      /\ os = Data(s, bottom, lo)
      /\ ot = Data(t, bottom, lo)
  OBVIOUS
<1>9. lt = ls /\ ot = os
  BY <1>8 DEF Call_of
<1>16. bottom \in Nat /\ bottom <= lo
  <2>1. /\ base[m] \in Nat /\ LocalWords[fn[m]] \in Nat
        /\ base[m] + 2 + LocalWords[fn[m]] <= base[m + 1] - ParamWords[fn[m + 1]]
    BY <1>1, FramesAscend
  <2>2. base[m] + 2 + LocalWords[fn[m]] <= lo
    BY <1>1, <1>15, <2>1
  <2> QED BY <2>1, <2>2, SMTT(30) DEF Operands
<1>10. Data(t, bottom, hi) = os \o values
  <2>2. Data(t, bottom, hi) = Data(t, bottom, lo) \o Data(t, lo, hi)
    <3>1. bottom \in Int /\ lo \in Int /\ hi \in Int /\ bottom <= lo /\ lo <= hi
      BY <1>3, <1>16
    <3>2. ASSUME NEW l \in Int, NEW mid \in Int, NEW h \in Int, l <= mid, mid <= h
          PROVE  Data(t, l, h) = Data(t, l, mid) \o Data(t, mid, h)
      BY <3>2, DataConcat
    <3> QED BY <3>1, <3>2, ZenonT(30)
  <2> QED BY <1>3, <1>9, <2>2, Zenon
<1>11. d[m] = Act(fn[m], at1 + 2, ls, os \o values)
  BY <1>7, <1>9, <1>10 DEF Call_of, Act
<1>12. c[m] = Act(fn[m], at1, ls, os)
  BY <1>6 DEF Call_of, Act
<1>13. d[m] = Back(c[m], values)
  <2>1. c[m].operands = os /\ c[m].at = at1
    BY <1>12 DEF Act
  <2> HIDE DEF c, d
  <2> QED BY <1>11, <1>12, <2>1, GoneFacts DEF Back
<1> QED BY <1>5, <1>13 DEF Shrunk

(* What a return makes of the registers, the stack and the result. *)
LEMMA ReturnFacts ==
  ASSUME IInv, Executing, NEW selector \in 0..1, Return(selector),
         NEW n, NEW base, NEW fn, Chain(n, base, fn),
         NEW lo, ResultAt(lo, n, base, fn),
         NEW k, k = ResultWords[Current],
         NEW ws, ws = Top(stack, sp - selector, k)
  PROVE  /\ lo \in Nat /\ k \in Nat /\ k \in 0..2 /\ selector + k <= Height
         /\ Wrote(stack', stack, lo, k, ws) /\ pause' = pause
         /\ \/ n = 1 /\ pc' = Sentinel /\ result' = ws
            \/ /\ n > 1 /\ pc' # Sentinel /\ pc'[2] = stack[base[n] + 1].pc[2] + 2
               /\ sp' = lo + k /\ result' = result
<1>1. /\ ~Idle /\ stack \in [Addr -> Word] /\ sp \in Nat /\ fp \in Nat /\ sp <= StackLen
      /\ Operands(fp, Current) \in Nat /\ Height = sp - Operands(fp, Current)
      /\ Operands(fp, Current) = fp + 2 + LocalWords[Current]
      /\ ResultWords[Current] \in 0..2 /\ ParamWords[Current] \in Nat
      /\ LocalWords[Current] \in Nat
  BY ExecutingFacts DEF TypeOK
<1>2. n \in Nat /\ n > 0 /\ fp = base[n] /\ Current = fn[n] /\ n \in 1..n
  BY <1>1, ChainFacts
<1>3. FrameWord(n, base, fn)
  BY <1>2 DEF Chain, Frames
<1>4. /\ stack[fp].params = ParamWords[Current]
      /\ n = 1 => stack[fp + 1].pc = Sentinel
      /\ n > 1 => stack[fp + 1].pc # Sentinel
  <2>1. n > 1 => stack[fp + 1].pc \in Funcs \X (0..(CodeWords - 1))
    BY <1>2, <1>3 DEF FrameWord
  <2>2. \A p \in Funcs \X (0..(CodeWords - 1)) : p # Sentinel
    BY EngineAssumption
  <2>3. n > 1 => stack[fp + 1].pc # Sentinel
    BY <2>1, <2>2
  <2> QED BY <1>2, <1>3, <2>3 DEF FrameWord
<1>5. /\ selector + k <= Height /\ pause' = pause
      /\ return_(sp - selector, k)
  BY DEF Return
<1>6. ParamWords[Current] <= fp /\ lo = fp - ParamWords[Current]
  <2>1. lo = fp - ParamWords[Current]
    BY <1>2 DEF ResultAt
  <2> QED BY <1>1, <2>1, ParamsBelow
<1>7. /\ lo \in Nat /\ k \in Nat /\ k \in 0..2 /\ lo + k <= StackLen
      /\ sp - selector \in Nat /\ k <= sp - selector /\ sp - selector <= StackLen
  <2>1. StackLen \in Nat
    BY EngineAssumption
  <2> QED BY <1>1, <1>5, <1>6, <2>1
<1>8. ws \in [1..k -> Word]
  BY <1>1, <1>7, TopWords
<1>9. stack' = Store(stack, lo, ws)
  BY <1>4, <1>5, <1>6 DEF return_
<1>10. Wrote(stack', stack, lo, k, ws)
  BY <1>7, <1>8, <1>9 DEF Wrote
<1>11. CASE n = 1
  <2>1. pc' = Sentinel /\ result' = ws
    BY <1>4, <1>5, <1>11 DEF return_
  <2> QED BY <1>5, <1>7, <1>10, <1>11, <2>1
<1>12. CASE n > 1
  <2>1. /\ pc' = <<stack[fp + 1].pc[1], stack[fp + 1].pc[2] + 2>>
        /\ sp' = fp - stack[fp].params + k /\ result' = result
    BY <1>4, <1>5, <1>12 DEF return_
  <2>2. pc'[2] = stack[base[n] + 1].pc[2] + 2 /\ sp' = lo + k
    BY <1>2, <1>4, <1>6, <2>1
  <2>3. pc' # Sentinel
    <3>1. stack[fp + 1].pc[1] \in Funcs /\ stack[fp + 1].pc[2] + 2 \in Nat
      <4>1. stack[fp + 1].pc \in Funcs \X (0..(CodeWords - 1))
        BY <1>2, <1>3, <1>12 DEF FrameWord
      <4>2. CodeWords \in Nat
        BY EngineAssumption
      <4> PICK q : q = stack[fp + 1].pc
        OBVIOUS
      <4>3. q[1] \in Funcs /\ q[2] \in 0..(CodeWords - 1)
        BY <4>1
      <4>4. q[2] + 2 \in Nat
        BY <4>2, <4>3
      <4> QED BY <4>3, <4>4
    <3>2. pc' \in Funcs \X Nat
      BY <2>1, <3>1
    <3> QED BY <3>2, EngineAssumption
  <2> QED BY <1>5, <1>7, <1>10, <1>12, <2>1, <2>2, <2>3
<1> QED BY <1>2, <1>11, <1>12

(* The words a return hands on are the last operands, below a selector. *)
LEMMA ReturnedWords ==
  ASSUME IInv, Executing, NEW selector \in 0..1, NEW k \in Nat, selector + k <= Height,
         NEW ws, ws = Top(stack, sp - selector, k)
  PROVE  [i \in 1..k |-> ws[i].value]
           = Abstract!LastOf(Abstract!First(Abstract!Callee.operands, selector), k)
<1> DEFINE bottom == Operands(fp, Current)
<1> PICK top : top = sp - selector
  OBVIOUS
<1>1. /\ ~Idle /\ sp \in Nat /\ bottom \in Nat /\ Height = sp - bottom
      /\ selector \in Nat /\ top \in Nat
  <2>1. sp - selector \in Nat
    BY ExecutingFacts
  <2> QED BY <2>1, ExecutingFacts
<1>2. Abstract!Callee.operands = Data(stack, bottom, sp)
  BY <1>1, CalleeIs
<1> HIDE DEF bottom
<1>3. Abstract!First(Data(stack, bottom, sp), selector) = Data(stack, bottom, sp - selector)
  <2>1. /\ bottom \in Int /\ sp \in Int /\ selector \in Int /\ 0 <= selector
        /\ selector <= sp - bottom
    BY <1>1
  <2> QED BY <2>1, DataEnds
<1>4. Abstract!LastOf(Data(stack, bottom, top), k) = Data(stack, top - k, top)
  <2>1. /\ bottom \in Int /\ top \in Int /\ k \in Int /\ 0 <= k
        /\ k <= top - bottom
    BY <1>1
  <2> QED BY <2>1, DataEnds
<1>5. [i \in 1..k |-> Top(stack, top, k)[i].value] = Data(stack, top - k, top)
  <2>1. top \in Int
    BY <1>1
  <2> QED BY <2>1, TopHolds
<1> QED BY <1>2, <1>3, <1>4, <1>5

(* A return to a caller, as the abstraction sees it. *)
LEMMA ReturnPasses ==
  ASSUME IInv, ~Idle, NEW n, NEW base, NEW fn, Chain(n, base, fn), n > 1,
         NEW m, NEW base1, NEW fn1, Cut(m, base1, n, base), Cut(m, fn1, n, fn),
         Chain(m, base1, fn1)', m > 0,
         NEW lo \in Nat, ResultAt(lo, n, base, fn),
         NEW k \in Nat, NEW ws, Wrote(stack', stack, lo, k, ws), Ends(sp', lo, k),
         NEW at1, CalledAt(at1, stack, base[n]), pc'[2] = at1 + 2,
         NEW values, values = [i \in 1..k |-> ws[i].value]
  PROVE  LiveActivations' = Returned(Slice(LiveActivations, 1, m), m, values)
<1>1. /\ n \in Nat /\ n > 0 /\ Stacked(n, base, fn) /\ stack \in [Addr -> Word]
      /\ m \in Nat /\ m = n - 1
  BY ChainFacts, ChainIsStacked DEF IInv, TypeOK, Cut
<1>2. LiveActivations = Calls(stack, n, base, fn, pc[2], sp)
  BY Callee
<1>3. LiveActivations' = Calls(stack', m, base1, fn1, pc'[2], sp')
  BY NextLiveCalls
<1>4. ASSUME NEW s \in [Addr -> Word], NEW t, Wrote(t, s, lo, k, ws),
             NEW at, NEW end, CalledAt(at1, s, base[n]), NEW hi, Ends(hi, lo, k)
      PROVE  Shrunk(Calls(s, n, base, fn, at, end),
                    Calls(t, m, base1, fn1, at1 + 2, hi), m,
                    Back(Calls(s, n, base, fn, at, end)[m], [i \in 1..k |-> ws[i].value]))
  BY <1>1, <1>4, CallsShrink
<1>5. Shrunk(Calls(stack, n, base, fn, pc[2], sp),
             Calls(stack', m, base1, fn1, at1 + 2, sp'), m,
             Back(Calls(stack, n, base, fn, pc[2], sp)[m], [i \in 1..k |-> ws[i].value]))
  BY <1>1, <1>4
<1>6. Shrunk(LiveActivations, LiveActivations', m, Back(LiveActivations[m], values))
  BY <1>2, <1>3, <1>5
<1> PICK d, c, x : d = LiveActivations' /\ c = LiveActivations
                   /\ x = Back(LiveActivations[m], values)
  OBVIOUS
<1> PICK s : s = Slice(LiveActivations, 1, m)
  OBVIOUS
<1>7. /\ \A i \in 1..(m - 1) : d[i] = c[i]
      /\ d[m] = x
  BY <1>6 DEF Shrunk
<1> DEFINE S == {c[i] : i \in 1..m}
<1>8. s \in [1..m -> S] /\ \A i \in 1..m : s[i] = c[i]
  <2>1. s = [i \in 1..m |-> c[i]]
    <3>1. Slice(c, 1, n - 1) = [i \in 1..(n - 1) |-> c[i]]
      BY <1>1, Shortened
    <3> QED BY <1>1, <3>1
  <2> QED BY <2>1
<1>9. m \in 1..m /\ m \in 1..n /\ m # n /\ \A i \in 1..m : i \in 1..(m - 1) \/ i = m
  BY <1>1
<1>10. \E f, a, l, o : c[m] = Act(f, a, l, o)
  BY <1>2, <1>9 DEF Calls, Call_of, Act
<1>11. Altered(Returned(s, m, values), m, S, s, Back(s[m], values))
  <2>1. \E f, a, l, o : s[m] = Act(f, a, l, o)
    <3>1. s[m] = c[m]
      BY <1>8, <1>9
    <3> QED BY <1>10, <3>1, Zenon
  <2> PICK f, a, l, o : s[m] = Act(f, a, l, o)
    BY <2>1
  <2> HIDE DEF S
  <2>2. ASSUME NEW T, NEW acts, acts \in [1..m -> T], acts[m] = Act(f, a, l, o)
        PROVE  Altered(Returned(acts, m, values), m, T, acts, Back(acts[m], values))
    BY <1>1, <2>2, ReturnedFacts
  <2> QED BY <1>8, <2>2
<1> PICK e : e = Returned(s, m, values)
  OBVIOUS
<1>12. /\ e \in [1..m -> S \cup {x}]
       /\ \A i \in 1..m : e[i] = d[i]
  <2>1. Back(s[m], values) = x
    BY <1>8, <1>9
  <2>2. /\ e \in [1..m -> S \cup {x}]
        /\ \A i \in 1..(m - 1) : e[i] = s[i]
        /\ e[m] = x
    BY <1>11, <2>1 DEF Altered
  <2>3. \A i \in 1..(m - 1) : s[i] = c[i]
    BY <1>1, <1>8
  <2> HIDE DEF S
  <2> QED BY <1>7, <1>9, <2>2, <2>3
<1>13. d = [i \in 1..m |-> d[i]]
  BY <1>3 DEF Calls
<1>14. e = [i \in 1..m |-> e[i]]
  <2> HIDE DEF S
  <2> QED BY <1>12
<1>15. d = e
  BY <1>12, <1>13, <1>14
<1> QED BY <1>15

(* A return is a Leave. *)
LEMMA ReturnLeaves ==
  ASSUME IInv, Executing, NEW selector \in 0..1, Return(selector)
  PROVE  Abstract!Next
<1> PICK n, base, fn : Chain(n, base, fn)
  BY ExecutingFacts DEF Framed
<1> PICK k : k = ResultWords[Current]
  OBVIOUS
<1> PICK ws : ws = Top(stack, sp - selector, k)
  OBVIOUS
<1> PICK lo : ResultAt(lo, n, base, fn)
  BY DEF ResultAt
<1> PICK values : values = [i \in 1..k |-> ws[i].value]
  OBVIOUS
<1>1. ~Idle /\ pause = None
  BY ExecutingFacts
<1>2. /\ lo \in Nat /\ k \in Nat /\ k \in 0..2 /\ selector + k <= Height
      /\ Wrote(stack', stack, lo, k, ws) /\ pause' = pause
      /\ \/ n = 1 /\ pc' = Sentinel /\ result' = ws
         \/ /\ n > 1 /\ pc' # Sentinel /\ pc'[2] = stack[base[n] + 1].pc[2] + 2
            /\ sp' = lo + k /\ result' = result
  BY ReturnFacts
<1>3. values = Abstract!LastOf(Abstract!First(Abstract!Callee.operands, selector), k)
  BY <1>2, ReturnedWords
<1>4. /\ Len(LiveActivations) = n /\ n \in Nat
      /\ LiveActivations[n] = Abstract!Callee
      /\ Abstract!Callee.fn = Current /\ Abstract!Calling
      /\ Abstract!Operand(selector + ResultWords[Abstract!Callee.fn])
  <2>1. /\ Len(LiveActivations) = n /\ n \in Nat
        /\ Abstract!Callee.fn = Current /\ Abstract!Calling
        /\ Len(Abstract!Callee.operands) = Height
    BY <1>1, Callee, ChainFacts, CalleeFacts
  <2>2. LiveActivations[n] = Abstract!Callee
    BY <2>1 DEF Abstract!Callee, Abstract!Depth
  <2> QED BY <1>2, <2>1, <2>2 DEF Abstract!Operand
<1>5. Abstract!Leave(selector)
  <2>1. CASE n = 1
    <3>1. LiveActivations' = <<>> /\ result' = ws
      BY <1>2, <2>1, NoLiveCalls
    <3>2. ws \in [1..k -> Word] /\ ws # None
      BY <1>2, RefinementAssumption DEF Wrote
    <3>3. (IF result' = None THEN None ELSE [i \in DOMAIN result' |-> result'[i].value])
             = values
      BY <3>1, <3>2
    <3>4. Abstract!Depth = 1
      BY <1>4, <2>1, SMTT(30) DEF Abstract!Depth
    <3> QED BY <1>2, <1>3, <1>4, <3>1, <3>3, <3>4 DEF Abstract!Leave
  <2>2. CASE n > 1
    <3>1. /\ pc' # Sentinel /\ pc'[2] = stack[base[n] + 1].pc[2] + 2
          /\ Ends(sp', lo, k) /\ result' = result
      BY <1>2, <2>2 DEF Ends
    <3> PICK at1 : CalledAt(at1, stack, base[n]) /\ pc'[2] = at1 + 2
      BY <3>1 DEF CalledAt
    <3> PICK m, base1, fn1 : Cut(m, base1, n, base) /\ Cut(m, fn1, n, fn)
      <4>1. \E m, base1, fn1 : m = n - 1 /\ base1 = Shorter(n, base) /\ fn1 = Shorter(n, fn)
        OBVIOUS
      <4> QED BY <4>1 DEF Cut
    <3>2. Chain(m, base1, fn1)' /\ m > 0 /\ m = n - 1 /\ m \in Nat
      <4>1. base1 = Shorter(n, base) /\ fn1 = Shorter(n, fn) /\ m = n - 1
        BY DEF Cut
      <4>2. Chain(n - 1, base1, fn1)'
        BY <2>2, <3>1, <4>1, ReturnKeeps
      <4> QED BY <1>4, <2>2, <4>1, <4>2
    <3>3. LiveActivations' = Returned(Slice(LiveActivations, 1, m), m, values)
      BY <1>1, <1>2, <2>2, <3>1, <3>2, ReturnPasses, SMTT(30)
    <3>4. /\ Abstract!Depth - 1 = m /\ Abstract!Depth > 1
      BY <1>4, <2>2, <3>2 DEF Abstract!Depth
    <3>5. LiveActivations' = [SubSeq(LiveActivations, 1, Abstract!Depth - 1) EXCEPT
                                ![Abstract!Depth - 1].operands = @ \o values,
                                ![Abstract!Depth - 1].at = @ + 2]
      BY <3>3, <3>4 DEF Returned, Slice
    <3>6. UNCHANGED IF result = None THEN None
                    ELSE [i \in DOMAIN result |-> result[i].value]
      BY <3>1
    <3> QED BY <1>2, <1>3, <1>4, <3>4, <3>5, <3>6 DEF Abstract!Leave
  <2> QED BY <1>2, <2>1, <2>2
<1> QED BY <1>1, <1>4, <1>5 DEF Abstract!Next

-----------------------------------------------------------------------------
(* The refinement *)

(* The abstraction sees nothing of fuel, outcome and the context. *)
LEMMA SameActivations ==
  ASSUME UNCHANGED <<pc, sp, fp, stack, result, pause>>
  PROVE  UNCHANGED Abstract!avars
<1>1. LiveActivations' = LiveActivations
  BY DEF LiveActivations, Idle
<1>2. UNCHANGED <<pause, IF result = None THEN None
                         ELSE [i \in DOMAIN result |-> result[i].value]>>
  BY WaitingFacts
<1> QED BY <1>1, <1>2 DEF Abstract!avars

(* Every instruction is a step of the activations. *)
LEMMA StepImplements ==
  ASSUME IInv, Step
  PROVE  Abstract!Next
<1>1. CASE \E p \in 0..Height, q \in 0..2 : Operate(p, q)
  BY <1>1, OperateComputes DEF Step
<1>2. CASE \E w \in 1..2 : local_get(w)
  BY <1>2, LocalGetGets DEF Step
<1>3. CASE \E w \in 1..2 : local_set(w, 0) \/ local_set(w, w)
  <2>1. PICK w \in 1..2 : local_set(w, 0) \/ local_set(w, w)
    BY <1>3
  <2>2. Executing /\ Abstract!Calling /\ pause = None
    BY ExecutingFacts, CalleeFacts DEF Step
  <2>3. CASE local_set(w, 0)
    <3> PICK keep : keep = 0
      OBVIOUS
    <3>1. Abstract!SetLocal(w, keep)
      BY <2>2, <2>3, LocalSetSets
    <3> QED BY <2>2, <3>1 DEF Abstract!Next
  <2>4. CASE local_set(w, w)
    <3>1. Abstract!SetLocal(w, w)
      BY <2>2, <2>4, LocalSetSets
    <3> QED BY <2>2, <3>1 DEF Abstract!Next
  <2> QED BY <2>1, <2>3, <2>4
<1>4. CASE \E selector \in 0..1, depth \in 0..Height, arity \in 0..2 :
              br_impl(selector, depth, arity)
  BY <1>4, BranchBranches DEF Step
<1>5. CASE \E selector \in 0..1 : Return(selector)
  BY <1>5, ReturnLeaves DEF Step
<1>6. CASE \E f \in Funcs, index \in 0..1 : Call(f, index)
  BY <1>6, CallEnters DEF Step
<1>7. CASE \E h \in Hosts, index \in 0..1 : call_host(h, index)
  BY <1>7, CallHostAsks DEF Step
<1>8. CASE memory_grow
  BY <1>8, MemoryGrowComputes DEF Step
<1>9. CASE InstructionTraps
  BY <1>9, InstructionTrapsTraps DEF Step
<1> QED BY <1>1, <1>2, <1>3, <1>4, <1>5, <1>6, <1>7, <1>8, <1>9 DEF Step

(* Every step of the engine and its embedder is one too, or a stutter. *)
LEMMA NextImplements ==
  ASSUME IInv, [Next]_vars
  PROVE  [Abstract!Next]_(Abstract!avars)
<1>1. CASE Step
  BY <1>1, StepImplements
<1>2. CASE \E f \in Funcs : invoke(f)
  BY <1>2, InvokeBegins
<1>3. CASE \E f \in Funcs : \E n \in 0..ParamWords[f] : invoke_type_mismatch(f, n)
  <2>1. /\ pc = Sentinel /\ pc' = Sentinel /\ UNCHANGED <<result, pause>>
    BY <1>3 DEF invoke_type_mismatch
  <2>2. LiveActivations = <<>> /\ LiveActivations' = <<>>
    BY <2>1, NoLiveCalls DEF Idle
  <2> QED BY <2>1, <2>2, WaitingFacts DEF Abstract!avars
<1>4. CASE \E n \in 1..MaxFuel : run(n)
  <2>1. UNCHANGED <<pc, sp, fp, stack, result, pause>>
    BY <1>4 DEF run
  <2> QED BY <2>1, SameActivations
<1>5. CASE resume
  BY <1>5, ResumeAnswers
<1>6. CASE reset
  <2>1. /\ pc' = Sentinel /\ result' = None /\ pause' = None
    BY <1>6 DEF reset
  <2>2. LiveActivations' = <<>>
    BY <2>1, NoLiveCalls
  <2> QED BY <2>1, <2>2 DEF Abstract!Abandon, Abstract!Next
<1>7. CASE UNCHANGED vars
  BY <1>7, SameActivations DEF vars
<1> QED BY <1>1, <1>2, <1>3, <1>4, <1>5, <1>6, <1>7 DEF Next, Embedder

(* The new engine has no activation, no pause and no answer. *)
LEMMA InitImplements ==
  ASSUME Init
  PROVE  Abstract!Init
BY NoLiveCalls DEF Init, Abstract!Init, Idle

(* Frames, locals and operands packed in one array behave as separate       *)
(* activations, for any program, any stack size and any call depth: every   *)
(* step of the engine is one of Activations or changes nothing it sees.     *)
THEOREM EngineImplementsActivations ==
  ASSUME ResumeFirst
  PROVE  Spec => ImplementsActivations
<1>1. Init => Abstract!Init
  BY InitImplements
<1>2. IInv /\ [Next]_vars => [Abstract!Next]_(Abstract!avars)
  BY NextImplements
<1> QED BY <1>1, <1>2, Invariance, PTL DEF Spec, ImplementsActivations, Abstract!Spec

=============================================================================
