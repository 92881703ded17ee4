-------------------------- MODULE CompiledRunProofs --------------------------
(***************************************************************************)
(* Proofs about the compiler of function bodies (Compiler, in              *)
(* CompiledRun): for any bodies, any instructions and any limits, the      *)
(* branches that wait for the end of a block are the ones on its chain,    *)
(* and every label of an accepted body leads where it should.              *)
(*                                                                         *)
(* The chains run through the label words themselves, so the invariant     *)
(* relates all the code to all the open frames (Woven): each frame has a   *)
(* chain of its own, newest label first, and every label is either settled *)
(* or on one chain.  The second part (Framed) keeps the frames over the    *)
(* operands, which the handlers need to find the labels and the results.   *)
(***************************************************************************)
EXTENDS CompiledRun, SequenceTheorems, WellFoundedInduction, TLAPS

-----------------------------------------------------------------------------
(* Words and frames                                                        *)

(* The types an operand may have, and those of a result and of a block.    *)
Types == ValType \cup {Unknown}
Results == ValType \cup {None}
(* The control frames.                                                     *)
Frames ==
  [kind : {"Block", "Loop", "If"}, label : Results, out : Results, height : Nat,
   target : Int, unreachable : BOOLEAN, branches : SUBSET Nat, start : Nat]

(* A word of the code that is a label, and not an opcode.                  *)
IsLabel(w) == "jump" \in DOMAIN w

(* A label is one, with the jump it was given;                             *)
LEMMA LabelIs ==
  ASSUME NEW rt, NEW d, NEW j
  PROVE  IsLabel(Label(rt, d, j)) /\ Label(rt, d, j).jump = j
BY DEF IsLabel, Label

(* an opcode is none;                                                      *)
LEMMA OpIs ==
  ASSUME NEW name, NEW arg
  PROVE  ~IsLabel(Op(name, arg))
BY DEF IsLabel, Op

(* and a label with another jump still is one.                             *)
LEMMA WithJump ==
  ASSUME NEW w, NEW j, IsLabel(w)
  PROVE  IsLabel(with_jump(w, j)) /\ with_jump(w, j).jump = j
BY DEF IsLabel, with_jump

(* Marking a frame unreachable changes nothing else of it.                 *)
LEMMA MarkedRecord ==
  ASSUME NEW f \in Frames, NEW b \in BOOLEAN
  PROVE  /\ [f EXCEPT !.unreachable = b] \in Frames
         /\ [f EXCEPT !.unreachable = b].kind = f.kind
         /\ [f EXCEPT !.unreachable = b].label = f.label
         /\ [f EXCEPT !.unreachable = b].out = f.out
         /\ [f EXCEPT !.unreachable = b].height = f.height
         /\ [f EXCEPT !.unreachable = b].target = f.target
         /\ [f EXCEPT !.unreachable = b].branches = f.branches
         /\ [f EXCEPT !.unreachable = b].start = f.start
BY DEF Frames

-----------------------------------------------------------------------------
(* Chains                                                                  *)

(* Every set of numbers that is not empty has a least one.                 *)
LEMMA LeastNumber ==
  ASSUME NEW S \in SUBSET Nat, S # {}
  PROVE  \E x \in S : \A y \in S : x <= y
<1> DEFINE R == {ss \in Nat \X Nat : ss[1] < ss[2]}
<1>1. IsWellFoundedOn(R, Nat)
  BY NatLessThanWellFounded DEF OpToRel
<1>2. \A x, y \in Nat : <<y, x>> \notin R => x <= y
  OBVIOUS
<1> HIDE DEF R
<1>3. PICK x \in S : \A y \in S : <<y, x>> \notin R
  BY <1>1, WFMin
<1>4. \A y \in S : x <= y
  BY <1>2, <1>3, S \subseteq Nat, Zenon
<1> QED BY <1>4

(* A set that has 0 and, with each number, the next one has them all.      *)
LEMMA SetInduction ==
  ASSUME NEW S, 0 \in S, \A n \in Nat : n \in S => n + 1 \in S
  PROVE  Nat \subseteq S
<1> SUFFICES ASSUME Nat \ S # {} PROVE FALSE
  OBVIOUS
<1>1. PICK x \in Nat \ S : \A y \in Nat \ S : x <= y
  BY LeastNumber
<1>2. x # 0 /\ x - 1 \in Nat /\ ~(x <= x - 1)
  BY <1>1
<1>3. x - 1 \in S
  BY <1>1, <1>2
<1> QED BY <1>1, <1>2, <1>3

(* A set of numbers that is bounded and not empty has a greatest one.      *)
LEMMA GreatestNumber ==
  ASSUME NEW S \in SUBSET Nat, S # {}, NEW n \in Nat, \A x \in S : x < n
  PROVE  \E x \in S : \A y \in S : y <= x
<1> DEFINE T == {d \in Nat : \E x \in S : d = n - x}
<1>1. T # {}
  <2>1. PICK x \in S : TRUE
    OBVIOUS
  <2>2. n - x \in T
    BY <2>1
  <2> QED BY <2>2
<1>2. PICK d \in T : \A e \in T : d <= e
  BY <1>1, LeastNumber
<1>3. PICK x \in S : d = n - x
  BY <1>2
<1>4. ASSUME NEW y \in S PROVE y <= x
  <2>1. n - y \in T
    OBVIOUS
  <2>2. d <= n - y
    BY <1>2, <2>1
  <2> QED BY <1>3, <2>2
<1> QED BY <1>4

(* Code c up to address n: below it are the words, whose labels jump by    *)
(* numbers.                                                                *)
Written(c, n) ==
  /\ DOMAIN c \subseteq 0..(n - 1)
  /\ \A a \in Labels(c) : c[a].jump \in Int

(* The branches B of c are chained from head: head is the newest, every    *)
(* label leads to the next older one of B, and the oldest has a jump of 0. *)
Chained(c, B, head) ==
  /\ B = {} => head = SENTINEL
  /\ B # {} => head \in B /\ \A b \in B : b <= head
  /\ \A b \in B :
       \/ c[b].jump = 0 /\ \A x \in B : b <= x
       \/ /\ c[b].jump < 0 /\ b + c[b].jump \in B
          /\ \A x \in B : x < b => x <= b + c[b].jump

(* The labels of code up to n.                                             *)
LEMMA LabelsAre ==
  ASSUME NEW c, NEW n \in Nat, Written(c, n)
  PROVE  \A a \in Labels(c) : a \in Nat /\ a < n /\ c[a].jump \in Int /\ a \in DOMAIN c
BY DEF Written, Labels

(* What Chain, the least set closed under the links, finds from head is B. *)
(* A branch of B that some closed set misses has a newest one among its    *)
(* kind, which is head or is linked from a newer branch that the set does  *)
(* hold.                                                                   *)
LEMMA ChainIsBranches ==
  ASSUME NEW c, NEW n \in Nat, Written(c, n), NEW B \in SUBSET Labels(c), NEW head,
         Chained(c, B, head)
  PROVE  Chain(c, head) = B
<1>1. \A a \in Labels(c) : a \in Nat /\ a < n /\ c[a].jump \in Int
  BY LabelsAre
<1>2. \A a \in B : a \in Nat /\ a < n /\ c[a].jump \in Int
  BY <1>1
<1>3. CASE B = {}
  <2>1. head = SENTINEL
    BY <1>3 DEF Chained
  <2> QED BY <1>3, <2>1 DEF Chain
<1>4. CASE B # {}
  <2>1. head \in B /\ \A b \in B : b <= head
    BY <1>4 DEF Chained
  <2>2. head # SENTINEL
    BY <1>2, <2>1 DEF SENTINEL
  <2>3. ASSUME NEW b \in B, c[b].jump # 0
        PROVE  /\ c[b].jump < 0 /\ b + c[b].jump \in B
               /\ \A x \in B : x < b => x <= b + c[b].jump
    BY <2>3 DEF Chained
  <2>4. ASSUME NEW b \in B, NEW x \in B, x < b PROVE c[b].jump # 0
    BY <1>2, <2>4 DEF Chained
  <2>5. Chain(c, head) \subseteq B
    <3>1. \A b \in B : c[b].jump # 0 => b + c[b].jump \in B
      BY <2>3
    <3> QED BY <2>1, <3>1 DEF Chain
  <2>6. ASSUME NEW S \in SUBSET Labels(c), head \in S,
               \A b \in S : c[b].jump # 0 => b + c[b].jump \in S
        PROVE  B \subseteq S
    <3> SUFFICES ASSUME B \ S # {} PROVE FALSE
      OBVIOUS
    <3>1. PICK x \in B \ S : \A y \in B \ S : y <= x
      BY <1>2, GreatestNumber
    <3> DEFINE Above == {y \in B : x < y}
    <3>2. head \in Above
      BY <1>2, <2>1, <2>6, <3>1
    <3>3. PICK y \in Above : \A z \in Above : y <= z
      BY <1>2, <3>2, LeastNumber
    <3>4. y \in B /\ x < y /\ y \in S
      BY <1>2, <3>1, <3>3
    <3>5. c[y].jump # 0
      BY <2>4, <3>1, <3>4
    <3>6. c[y].jump < 0 /\ y + c[y].jump \in B /\ x <= y + c[y].jump
      BY <2>3, <3>1, <3>4, <3>5
    <3>7. y + c[y].jump = x
      <4>1. ~(x < y + c[y].jump)
        <5>1. SUFFICES ASSUME x < y + c[y].jump PROVE FALSE
          OBVIOUS
        <5>2. y <= y + c[y].jump
          BY <3>3, <3>6, <5>1
        <5> QED BY <1>2, <3>4, <3>6, <5>2
      <4> QED BY <1>2, <3>4, <3>6, <4>1
    <3> QED BY <2>6, <3>1, <3>4, <3>5, <3>7
  <2>7. B \subseteq Chain(c, head)
    <3> SUFFICES ASSUME NEW b \in B PROVE b \in Chain(c, head)
      OBVIOUS
    <3>1. b \in Labels(c)
      OBVIOUS
    <3>2. \A S \in SUBSET Labels(c) :
            (/\ head \in S
             /\ \A a \in S : c[a].jump # 0 => a + c[a].jump \in S) => b \in S
      BY <2>6
    <3> QED BY <2>2, <3>1, <3>2 DEF Chain
  <2> QED BY <2>5, <2>7
<1> QED BY <1>3, <1>4

-----------------------------------------------------------------------------
(* The weave of code, frames and goals                                     *)

(* The branches of frame f wait in c for its end: chained from its target. *)
(* A loop has none, since its label is known, and an if has one at least.  *)
Waits(c, f) ==
  /\ f.branches \subseteq Labels(c)
  /\ IF f.kind = "Loop" THEN f.branches = {} /\ f.target = f.start
     ELSE Chained(c, f.branches, f.target)
  /\ f.kind = "If" => f.branches # {}

(* The labels whose goal is known jump there.                              *)
Settled(c, g) ==
  \A a \in DOMAIN g : c[a].jump = IF g[a] = EarlyReturn THEN 0 ELSE g[a] - a

(* The label at a waits for the end of a frame.                            *)
Awaited(fs, a) == \E i \in DOMAIN fs : a \in fs[i].branches

(* Code c up to n, the frames fs and the goals g fit: every frame has its  *)
(* own chain, no two share a label, and a label has its goal or waits for  *)
(* one, never both.                                                        *)
Woven(c, fs, g, n) ==
  /\ Written(c, n)
  /\ \A i \in DOMAIN fs : Waits(c, fs[i])
  /\ \A i, j \in DOMAIN fs : i # j => fs[i].branches \cap fs[j].branches = {}
  /\ \A i \in DOMAIN fs : fs[i].branches \cap DOMAIN g = {}
  /\ \A a \in Labels(c) : a \in DOMAIN g \/ Awaited(fs, a)
  /\ DOMAIN g \subseteq Labels(c)
  /\ Settled(c, g)

(* The same frames, but for the mark of dead code.                         *)
Same(fs, gs) ==
  /\ gs \in Seq(Frames) /\ Len(gs) = Len(fs)
  /\ \A i \in DOMAIN fs :
       /\ gs[i].kind = fs[i].kind /\ gs[i].label = fs[i].label
       /\ gs[i].out = fs[i].out /\ gs[i].height = fs[i].height
       /\ gs[i].target = fs[i].target /\ gs[i].branches = fs[i].branches
       /\ gs[i].start = fs[i].start

(* Sequences are functions of their positions.                             *)
LEMMA SeqDomain == \A S : \A s \in Seq(S) : DOMAIN s = 1..Len(s) /\ Len(s) \in Nat
OBVIOUS

(* Words that are no labels change nothing.                                *)
LEMMA ChainedSame ==
  ASSUME NEW c, NEW d, NEW B, NEW head, Chained(c, B, head),
         \A a \in B : d[a].jump = c[a].jump
  PROVE  Chained(d, B, head)
<1>1. \A b \in B : \/ d[b].jump = 0 /\ \A x \in B : b <= x
                   \/ /\ d[b].jump < 0 /\ b + d[b].jump \in B
                      /\ \A x \in B : x < b => x <= b + d[b].jump
  BY DEF Chained
<1> QED BY <1>1 DEF Chained

(* New words that are no labels leave the weave as it was,                 *)
LEMMA WovenSame ==
  ASSUME NEW c, NEW d, NEW fs, NEW g, NEW n \in Nat, NEW m \in Nat,
         Woven(c, fs, g, n), Labels(d) = Labels(c), DOMAIN d \subseteq 0..(m - 1),
         \A a \in Labels(c) : d[a].jump = c[a].jump
  PROVE  Woven(d, fs, g, m)
<1>1. Written(d, m)
  BY DEF Woven, Written
<1>2. ASSUME NEW i \in DOMAIN fs PROVE Waits(d, fs[i])
  <2>1. Waits(c, fs[i])
    BY DEF Woven
  <2>2. fs[i].branches \subseteq Labels(d) /\ \A a \in fs[i].branches : d[a].jump = c[a].jump
    BY <2>1 DEF Waits
  <2>3. fs[i].kind # "Loop" => Chained(d, fs[i].branches, fs[i].target)
    BY <2>1, <2>2, ChainedSame DEF Waits
  <2> QED BY <2>1, <2>2, <2>3 DEF Waits
<1>3. DOMAIN g \subseteq Labels(c)
  BY DEF Woven
<1>4. Settled(d, g)
  <2>1. \A a \in DOMAIN g : d[a].jump = c[a].jump
    BY <1>3
  <2>2. Settled(c, g)
    BY DEF Woven
  <2> QED BY <2>1, <2>2 DEF Settled
<1> QED BY <1>1, <1>2, <1>4 DEF Woven

(* and so does marking a frame.                                            *)
LEMMA WovenFrames ==
  ASSUME NEW c, NEW fs \in Seq(Frames), NEW gs, NEW g, NEW n,
         Woven(c, fs, g, n), Same(fs, gs)
  PROVE  Woven(c, gs, g, n)
<1>1. DOMAIN gs = DOMAIN fs
  BY SeqDomain DEF Same
<1>2. \A i \in DOMAIN fs : gs[i].branches = fs[i].branches
  BY DEF Same
<1>3. \A a : Awaited(gs, a) <=> Awaited(fs, a)
  BY <1>1, <1>2 DEF Awaited
<1>4. ASSUME NEW i \in DOMAIN fs PROVE Waits(c, gs[i])
  <2>1. Waits(c, fs[i])
    BY DEF Woven
  <2>2. gs[i].kind = fs[i].kind /\ gs[i].target = fs[i].target /\ gs[i].start = fs[i].start
    BY DEF Same
  <2> QED BY <1>2, <2>1, <2>2 DEF Waits
<1> QED BY <1>1, <1>2, <1>3, <1>4 DEF Woven

(* d is c with the word w at n.                                            *)
Adds(c, d, n, w) ==
  /\ n \notin DOMAIN c /\ DOMAIN d = DOMAIN c \cup {n}
  /\ d[n] = w
  /\ \A a \in DOMAIN c : d[a] = c[a]

(* Put adds a word where there is none,                                    *)
LEMMA PutNew ==
  ASSUME NEW c, NEW n, NEW w, n \notin DOMAIN c
  PROVE  Adds(c, Put(c, {n}, w), n, w)
BY DEF Adds, Put

(* as at the end of the code.                                              *)
LEMMA PutAdds ==
  ASSUME NEW c, NEW n \in Nat, NEW w, Written(c, n)
  PROVE  Adds(c, Put(c, {n}, w), n, w)
<1>1. DOMAIN c \subseteq 0..(n - 1)
  BY DEF Written
<1>2. n \notin DOMAIN c
  BY <1>1
<1> QED BY <1>2, PutNew, Zenon

(* d is c with a label at n that jumps as w does.                          *)
AddsLabel(c, d, n, w) ==
  /\ Written(d, n + 1) /\ Labels(d) = Labels(c) \cup {n}
  /\ \A a \in Labels(c) : d[a].jump = c[a].jump /\ a # n
  /\ d[n].jump = w.jump

(* A label is added at the end of the code,                                *)
LEMMA LabelAdded ==
  ASSUME NEW c, NEW d, NEW n \in Nat, NEW w, Written(c, n), Adds(c, d, n, w),
         IsLabel(w), w.jump \in Int
  PROVE  AddsLabel(c, d, n, w)
<1>1. DOMAIN c \subseteq 0..(n - 1) /\ \A a \in Labels(c) : c[a].jump \in Int
  BY DEF Written
<1>2. Labels(d) = Labels(c) \cup {n}
  BY DEF Adds, Labels, IsLabel
<1>3. \A a \in Labels(c) : d[a].jump = c[a].jump /\ a # n
  BY DEF Adds, Labels
<1>4. d[n].jump = w.jump
  BY DEF Adds
<1>5. DOMAIN d \subseteq 0..((n + 1) - 1)
  BY <1>1 DEF Adds
<1>6. Written(d, n + 1)
  BY <1>1, <1>2, <1>3, <1>4, <1>5 DEF Written
<1> QED BY <1>2, <1>3, <1>4, <1>6 DEF AddsLabel

(* or an opcode, and then the labels stay.                                 *)
LEMMA AddsOp ==
  ASSUME NEW c, NEW d, NEW n \in Nat, NEW w, Written(c, n), Adds(c, d, n, w), ~IsLabel(w)
  PROVE  /\ DOMAIN d \subseteq 0..((n + 1) - 1) /\ Labels(d) = Labels(c)
         /\ \A a \in Labels(c) : d[a].jump = c[a].jump
<1>1. DOMAIN c \subseteq 0..(n - 1)
  BY DEF Written
<1>2. Labels(d) = Labels(c)
  BY DEF Adds, Labels, IsLabel
<1>3. \A a \in Labels(c) : d[a].jump = c[a].jump
  BY DEF Adds, Labels
<1>5. DOMAIN d \subseteq 0..((n + 1) - 1)
  BY <1>1 DEF Adds
<1> QED BY <1>2, <1>3, <1>5

(* More words may be written than were: of a longer instruction, Put sets  *)
(* only the first.                                                         *)
LEMMA WrittenMore ==
  ASSUME NEW c, NEW n \in Nat, NEW m \in Nat, n <= m, Written(c, n)
  PROVE  Written(c, m)
BY DEF Written

(* The same of a weave.                                                    *)
LEMMA WovenMore ==
  ASSUME NEW c, NEW fs, NEW g, NEW n \in Nat, NEW m \in Nat, n <= m, Woven(c, fs, g, n)
  PROVE  Woven(c, fs, g, m)
BY WrittenMore DEF Woven

(* An opcode keeps the weave.                                              *)
LEMMA WovenOp ==
  ASSUME NEW c, NEW fs, NEW g, NEW n \in Nat, NEW name, NEW arg, Woven(c, fs, g, n)
  PROVE  Woven(Put(c, {n}, Op(name, arg)), fs, g, n + 1)
<1>1. Written(c, n)
  BY DEF Woven
<1>2. ~IsLabel(Op(name, arg))
  BY OpIs
<1>3. Adds(c, Put(c, {n}, Op(name, arg)), n, Op(name, arg))
  BY <1>1, PutAdds
<1>4. ASSUME NEW d, NEW w, Adds(c, d, n, w), ~IsLabel(w) PROVE Woven(d, fs, g, n + 1)
  <2>1. /\ DOMAIN d \subseteq 0..((n + 1) - 1) /\ Labels(d) = Labels(c)
        /\ \A a \in Labels(c) : d[a].jump = c[a].jump
    BY <1>1, <1>4, AddsOp
  <2>2. n + 1 \in Nat
    OBVIOUS
  <2> QED BY <2>1, <2>2, WovenSame
<1> QED BY <1>2, <1>3, <1>4

-----------------------------------------------------------------------------
(* Labels, with a goal or without                                          *)

(* g with goal v for the labels of A.                                      *)
Resolves(g, h, A, v) ==
  /\ DOMAIN h = DOMAIN g \cup A
  /\ \A a \in A : h[a] = v
  /\ \A a \in DOMAIN g \ A : h[a] = g[a]

(* Put resolves labels.                                                    *)
LEMMA PutResolves ==
  ASSUME NEW g, NEW A, NEW v
  PROVE  Resolves(g, Put(g, A, v), A, v)
BY DEF Resolves, Put

(* A label whose goal is known.                                            *)
LEMMA WovenGoal ==
  ASSUME NEW c, NEW d, NEW fs, NEW g, NEW h, NEW n \in Nat, NEW w, NEW v,
         Woven(c, fs, g, n), Adds(c, d, n, w), Resolves(g, h, {n}, v),
         IsLabel(w), w.jump \in Int, w.jump = IF v = EarlyReturn THEN 0 ELSE v - n
  PROVE  Woven(d, fs, h, n + 1)
<1>1. Written(c, n)
  BY DEF Woven
<1>2. /\ Written(d, n + 1) /\ Labels(d) = Labels(c) \cup {n}
      /\ \A a \in Labels(c) : d[a].jump = c[a].jump /\ a # n
      /\ d[n].jump = w.jump
  BY <1>1, LabelAdded DEF AddsLabel
<1>3. n \notin Labels(c)
  BY <1>2
<1>4. ASSUME NEW i \in DOMAIN fs PROVE Waits(d, fs[i])
  <2>1. Waits(c, fs[i])
    BY DEF Woven
  <2>2. fs[i].branches \subseteq Labels(d) /\ \A a \in fs[i].branches : d[a].jump = c[a].jump
    BY <1>2, <2>1 DEF Waits
  <2>3. fs[i].kind # "Loop" => Chained(d, fs[i].branches, fs[i].target)
    BY <2>1, <2>2, ChainedSame DEF Waits
  <2> QED BY <2>1, <2>2, <2>3 DEF Waits
<1>5. DOMAIN g \subseteq Labels(c) /\ DOMAIN h = DOMAIN g \cup {n}
  BY DEF Woven, Resolves
<1>6. Settled(d, h)
  <2>1. ASSUME NEW a \in DOMAIN g
        PROVE  d[a].jump = IF h[a] = EarlyReturn THEN 0 ELSE h[a] - a
    <3>1. d[a].jump = c[a].jump /\ a # n
      BY <1>2, <1>5
    <3>2. h[a] = g[a]
      BY <3>1 DEF Resolves
    <3>3. c[a].jump = IF g[a] = EarlyReturn THEN 0 ELSE g[a] - a
      BY DEF Woven, Settled
    <3> QED BY <3>1, <3>2, <3>3
  <2>2. d[n].jump = IF h[n] = EarlyReturn THEN 0 ELSE h[n] - n
    BY <1>2 DEF Resolves
  <2> QED BY <1>5, <2>1, <2>2 DEF Settled
<1>7. \A a \in Labels(d) : a \in DOMAIN h \/ Awaited(fs, a)
  BY <1>2, <1>5 DEF Woven
<1>8. ASSUME NEW i \in DOMAIN fs PROVE fs[i].branches \cap DOMAIN h = {}
  <2>1. fs[i].branches \cap DOMAIN g = {} /\ fs[i].branches \subseteq Labels(c)
    BY DEF Woven, Waits
  <2> QED BY <1>3, <1>5, <2>1
<1>9. DOMAIN h \subseteq Labels(d)
  BY <1>2, <1>5
<1> QED BY <1>2, <1>4, <1>6, <1>7, <1>8, <1>9 DEF Woven

(* gs is fs with n as the newest branch to the end of frame i.             *)
Links(fs, gs, i, n) ==
  /\ gs \in Seq(Frames) /\ Len(gs) = Len(fs)
  /\ \A j \in DOMAIN fs :
       /\ gs[j].kind = fs[j].kind /\ gs[j].label = fs[j].label
       /\ gs[j].out = fs[j].out /\ gs[j].height = fs[j].height /\ gs[j].start = fs[j].start
       /\ j # i => gs[j].target = fs[j].target /\ gs[j].branches = fs[j].branches
  /\ gs[i].target = n /\ gs[i].branches = fs[i].branches \cup {n}

(* A new label that jumps to the head of a chain, or by 0 when there is    *)
(* none, becomes its head: JumpOffset::new makes the sentinel a jump of 0. *)
LEMMA ChainedLink ==
  ASSUME NEW c, NEW d, NEW B, NEW head, NEW n \in Nat, Chained(c, B, head),
         \A b \in B : b \in Nat /\ b < n, \A b \in B : d[b].jump = c[b].jump,
         d[n].jump = Jump(n, head)
  PROVE  Chained(d, B \cup {n}, n)
<1>1. ASSUME NEW b \in B
      PROVE  \/ d[b].jump = 0 /\ \A x \in B \cup {n} : b <= x
             \/ /\ d[b].jump < 0 /\ b + d[b].jump \in B \cup {n}
                /\ \A x \in B \cup {n} : x < b => x <= b + d[b].jump
  BY DEF Chained
<1>2. CASE B = {}
  <2>1. d[n].jump = 0
    BY <1>2 DEF Chained, Jump
  <2> QED BY <1>2, <2>1 DEF Chained
<1>3. CASE B # {}
  <2>1. head \in B /\ \A b \in B : b <= head
    BY <1>3 DEF Chained
  <2>2. head \in Nat /\ head < n /\ head # SENTINEL
    BY <2>1 DEF SENTINEL
  <2>3. d[n].jump = head - n
    BY <2>2 DEF Jump
  <2>4. d[n].jump < 0 /\ n + d[n].jump = head
    BY <2>2, <2>3
  <2>5. \A x \in B \cup {n} : x < n => x <= n + d[n].jump
    BY <2>1, <2>4
  <2>6. \A b \in B \cup {n} : b <= n
    OBVIOUS
  <2>7. \A b \in B \cup {n} :
             \/ d[b].jump = 0 /\ \A x \in B \cup {n} : b <= x
             \/ /\ d[b].jump < 0 /\ b + d[b].jump \in B \cup {n}
                /\ \A x \in B \cup {n} : x < b => x <= b + d[b].jump
    BY <1>1, <2>1, <2>4, <2>5
  <2> QED BY <2>6, <2>7 DEF Chained
<1> QED BY <1>2, <1>3

(* A label that waits for the end of frame i.                              *)
LEMMA WovenLink ==
  ASSUME NEW c, NEW d, NEW fs \in Seq(Frames), NEW gs, NEW g, NEW n \in Nat, NEW w,
         NEW i \in DOMAIN fs, fs[i].kind # "Loop",
         Woven(c, fs, g, n), Adds(c, d, n, w), Links(fs, gs, i, n),
         IsLabel(w), w.jump = Jump(n, fs[i].target)
  PROVE  Woven(d, gs, g, n + 1)
<1>1. Written(c, n)
  BY DEF Woven
<1>2. fs[i].target \in Int
  <2>1. fs[i] \in Frames
    BY SeqDomain, ElementOfSeq
  <2> QED BY <2>1 DEF Frames
<1>3. w.jump \in Int
  BY <1>2 DEF Jump, SENTINEL
<1>4. /\ Written(d, n + 1) /\ Labels(d) = Labels(c) \cup {n}
      /\ \A a \in Labels(c) : d[a].jump = c[a].jump /\ a # n
      /\ d[n].jump = w.jump
  <2>1. AddsLabel(c, d, n, w)
    BY <1>1, <1>3, LabelAdded
  <2> QED BY <2>1 DEF AddsLabel
<1>5. n \notin Labels(c)
  BY <1>4
<1>6. \A j \in DOMAIN fs : fs[j].branches \subseteq Labels(c) /\ Waits(c, fs[j])
  BY DEF Woven, Waits
<1>7. \A b \in Labels(c) : b \in Nat /\ b < n
  BY <1>1, LabelsAre
<1>8. DOMAIN gs = DOMAIN fs
  BY SeqDomain DEF Links
<1>9. ASSUME NEW j \in DOMAIN fs PROVE Waits(d, gs[j])
  <2>1. CASE j = i
    <3>1. gs[i].kind = fs[i].kind /\ gs[i].target = n /\ gs[i].branches = fs[i].branches \cup {n}
      BY DEF Links
    <3>2. Chained(c, fs[i].branches, fs[i].target)
      BY <1>6 DEF Waits
    <3>3. \A b \in fs[i].branches : b \in Nat /\ b < n /\ d[b].jump = c[b].jump
      BY <1>4, <1>6, <1>7
    <3>4. d[n].jump = Jump(n, fs[i].target)
      BY <1>4
    <3>5. Chained(d, fs[i].branches \cup {n}, n)
      BY <3>2, <3>3, <3>4, ChainedLink
    <3>6. fs[i].branches \cup {n} \subseteq Labels(d)
      BY <1>4, <1>6
    <3> QED BY <2>1, <3>1, <3>5, <3>6 DEF Waits
  <2>2. CASE j # i
    <3>1. /\ gs[j].kind = fs[j].kind /\ gs[j].target = fs[j].target
          /\ gs[j].branches = fs[j].branches /\ gs[j].start = fs[j].start
      BY <2>2 DEF Links
    <3>2. fs[j].branches \subseteq Labels(d) /\ \A a \in fs[j].branches : d[a].jump = c[a].jump
      BY <1>4, <1>6
    <3>3. fs[j].kind # "Loop" => Chained(d, fs[j].branches, fs[j].target)
      BY <1>6, <3>2, ChainedSame DEF Waits
    <3> QED BY <1>6, <3>1, <3>2, <3>3 DEF Waits
  <2> QED BY <2>1, <2>2
<1>10. \A j \in DOMAIN fs : gs[j].branches = IF j = i THEN fs[j].branches \cup {n} ELSE fs[j].branches
  BY DEF Links
<1>11. \A j, k \in DOMAIN gs : j # k => gs[j].branches \cap gs[k].branches = {}
  <2> SUFFICES ASSUME NEW j \in DOMAIN fs, NEW k \in DOMAIN fs, j # k
               PROVE  gs[j].branches \cap gs[k].branches = {}
    BY <1>8
  <2>1. fs[j].branches \cap fs[k].branches = {}
    BY DEF Woven
  <2>2. n \notin fs[j].branches /\ n \notin fs[k].branches
    BY <1>5, <1>6
  <2> QED BY <1>10, <2>1, <2>2
<1>12. DOMAIN g \subseteq Labels(c)
  BY DEF Woven
<1>13. ASSUME NEW j \in DOMAIN fs PROVE gs[j].branches \cap DOMAIN g = {}
  <2>1. fs[j].branches \cap DOMAIN g = {}
    BY DEF Woven
  <2> QED BY <1>5, <1>10, <1>12, <2>1
<1>14. ASSUME NEW a \in Labels(d) PROVE a \in DOMAIN g \/ Awaited(gs, a)
  <2>1. CASE a = n
    <3>1. a \in gs[i].branches
      BY <1>10, <2>1
    <3> QED BY <1>8, <3>1 DEF Awaited
  <2>2. CASE a \in Labels(c) /\ a \notin DOMAIN g
    <3>1. PICK j \in DOMAIN fs : a \in fs[j].branches
      BY <2>2 DEF Woven, Awaited
    <3>2. a \in gs[j].branches
      BY <1>10, <3>1
    <3> QED BY <1>8, <3>2 DEF Awaited
  <2> QED BY <1>4, <2>1, <2>2
<1>15. Settled(d, g)
  <2>1. \A a \in DOMAIN g : d[a].jump = c[a].jump
    BY <1>4, <1>12
  <2>2. Settled(c, g)
    BY DEF Woven
  <2> QED BY <2>1, <2>2 DEF Settled
<1> QED BY <1>4, <1>8, <1>9, <1>11, <1>12, <1>13, <1>14, <1>15 DEF Woven

-----------------------------------------------------------------------------
(* Frames entered and left                                                 *)

(* A frame is entered; the labels that are new wait for its end.           *)
LEMMA WovenGrows ==
  ASSUME NEW c, NEW d, NEW fs \in Seq(Frames), NEW f \in Frames, NEW g, NEW n \in Nat, NEW m \in Nat,
         Woven(c, fs, g, n), Written(d, m), Waits(d, f),
         Labels(d) = Labels(c) \cup f.branches, f.branches \cap Labels(c) = {},
         \A a \in Labels(c) : d[a].jump = c[a].jump
  PROVE  Woven(d, Append(fs, f), g, m)
<1> DEFINE gs == Append(fs, f)
           k == Len(fs) + 1
<1>1. /\ gs \in Seq(Frames) /\ DOMAIN gs = DOMAIN fs \cup {k} /\ k \notin DOMAIN fs
      /\ gs[k] = f /\ \A i \in DOMAIN fs : gs[i] = fs[i]
  BY AppendProperties, SeqDomain
<1> HIDE DEF gs, k
<1>2. \A i \in DOMAIN fs : fs[i].branches \subseteq Labels(c) /\ Waits(c, fs[i])
  BY DEF Woven, Waits
<1>3. ASSUME NEW i \in DOMAIN fs PROVE Waits(d, fs[i])
  <2>1. fs[i].branches \subseteq Labels(d) /\ \A a \in fs[i].branches : d[a].jump = c[a].jump
    BY <1>2
  <2>2. fs[i].kind # "Loop" => Chained(d, fs[i].branches, fs[i].target)
    BY <1>2, <2>1, ChainedSame DEF Waits
  <2> QED BY <1>2, <2>1, <2>2 DEF Waits
<1>4. \A i \in DOMAIN gs : Waits(d, gs[i])
  BY <1>1, <1>3
<1>5. DOMAIN g \subseteq Labels(c)
  BY DEF Woven
<1>6. \A i, j \in DOMAIN gs : i # j => gs[i].branches \cap gs[j].branches = {}
  <2>1. \A i \in DOMAIN fs : fs[i].branches \cap f.branches = {}
    BY <1>2
  <2>2. \A i, j \in DOMAIN fs : i # j => fs[i].branches \cap fs[j].branches = {}
    BY DEF Woven
  <2> QED BY <1>1, <2>1, <2>2
<1>7. \A i \in DOMAIN gs : gs[i].branches \cap DOMAIN g = {}
  <2>1. f.branches \cap DOMAIN g = {}
    BY <1>5
  <2>2. \A i \in DOMAIN fs : fs[i].branches \cap DOMAIN g = {}
    BY DEF Woven
  <2> QED BY <1>1, <2>1, <2>2
<1>8. ASSUME NEW a \in Labels(d) PROVE a \in DOMAIN g \/ Awaited(gs, a)
  <2>1. CASE a \in f.branches
    BY <1>1, <2>1 DEF Awaited
  <2>2. CASE a \in Labels(c) /\ a \notin DOMAIN g
    <3>1. PICK j \in DOMAIN fs : a \in fs[j].branches
      BY <2>2 DEF Woven, Awaited
    <3> QED BY <1>1, <3>1 DEF Awaited
  <2> QED BY <2>1, <2>2
<1>9. Settled(d, g)
  <2>1. \A a \in DOMAIN g : d[a].jump = c[a].jump
    BY <1>5
  <2>2. Settled(c, g)
    BY DEF Woven
  <2> QED BY <2>1, <2>2 DEF Settled
<1>10. Woven(d, gs, g, m)
  BY <1>4, <1>5, <1>6, <1>7, <1>8, <1>9 DEF Woven
<1> QED BY <1>10 DEF gs

(* The frames fs without the last one, and the last one.                   *)
Divides(fs, gs, x, S) ==
  /\ gs \in Seq(S) /\ Len(gs) = Len(fs) - 1
  /\ DOMAIN fs = DOMAIN gs \cup {Len(fs)}
  /\ Len(fs) \in Nat \ {0} /\ Len(fs) \notin DOMAIN gs
  /\ \A i \in DOMAIN gs : gs[i] = fs[i]
  /\ x = fs[Len(fs)] /\ x \in S

(* Front and Last divide a sequence.                                       *)
LEMMA FrontAndLast ==
  ASSUME NEW S, NEW fs \in Seq(S), fs # <<>>
  PROVE  Divides(fs, Front(fs), Last(fs), S)
<1>1. Len(fs) \in Nat \ {0} /\ DOMAIN fs = 1..Len(fs)
  OBVIOUS
<1>2. Front(fs) = SubSeq(fs, 1, Len(fs) - 1) /\ Last(fs) = fs[Len(fs)]
  BY DEF Front, Last
<1>3. fs[Len(fs)] \in S
  BY <1>1, ElementOfSeq
<1>4. PICK n : n = Len(fs) - 1
  OBVIOUS
<1>5. n \in 0..Len(fs) /\ 1 \in 1..(Len(fs) + 1)
  BY <1>1, <1>4
<1>6. PICK gs : gs = SubSeq(fs, 1, Len(fs) - 1)
  OBVIOUS
<1>7. gs \in Seq(S) /\ Len(gs) = n /\ \A i \in 1..n : gs[i] = fs[i]
  BY <1>1, <1>4, <1>5, <1>6
<1>8. DOMAIN gs = 1..n
  BY <1>7
<1> QED BY <1>1, <1>2, <1>3, <1>4, <1>6, <1>7, <1>8 DEF Divides

(* The last frame is left; its branches lead to v.                         *)
LEMMA WovenShrinks ==
  ASSUME NEW c, NEW d, NEW fs \in Seq(Frames), fs # <<>>, NEW g, NEW h, NEW n \in Nat, NEW v \in Nat,
         Woven(c, fs, g, n), DOMAIN d = DOMAIN c, Labels(d) = Labels(c),
         Resolves(g, h, Last(fs).branches, v),
         \A a \in Labels(c) : d[a].jump = IF a \in Last(fs).branches THEN v - a ELSE c[a].jump
  PROVE  Woven(d, Front(fs), h, n)
<1> DEFINE gs == Front(fs)
           B == Last(fs).branches
           k == Len(fs)
<1>1. /\ gs \in Seq(Frames) /\ DOMAIN fs = DOMAIN gs \cup {k}
      /\ k \notin DOMAIN gs /\ \A i \in DOMAIN gs : gs[i] = fs[i]
      /\ B = fs[k].branches
  <2>1. Divides(fs, gs, Last(fs), Frames)
    BY FrontAndLast
  <2> HIDE DEF gs
  <2> QED BY <2>1 DEF Divides
<1>2. \A i \in DOMAIN fs : fs[i].branches \subseteq Labels(c) /\ Waits(c, fs[i])
  BY DEF Woven, Waits
<1>3. B \subseteq Labels(c)
  BY <1>1, <1>2
<1>4. \A a \in Labels(c) : d[a].jump = IF a \in B THEN v - a ELSE c[a].jump
  OBVIOUS
<1>5. Resolves(g, h, B, v)
  OBVIOUS
<1> HIDE DEF gs, B, k
<1>6. Written(c, n) /\ \A a \in Labels(c) : a \in Nat /\ c[a].jump \in Int
  BY LabelsAre DEF Woven
<1>7. Written(d, n)
  <2>1. \A a \in Labels(c) : d[a].jump \in Int
    BY <1>4, <1>6
  <2> QED BY <1>6, <2>1 DEF Written
<1>8. \A i \in DOMAIN gs : fs[i].branches \cap B = {}
  BY <1>1 DEF Woven
<1>9. ASSUME NEW i \in DOMAIN gs PROVE Waits(d, gs[i])
  <2>1. i \in DOMAIN fs /\ gs[i] = fs[i]
    BY <1>1
  <2>2. fs[i].branches \subseteq Labels(d) /\ \A a \in fs[i].branches : d[a].jump = c[a].jump
    BY <1>2, <1>4, <1>8, <2>1
  <2>3. fs[i].kind # "Loop" => Chained(d, fs[i].branches, fs[i].target)
    BY <1>2, <2>1, <2>2, ChainedSame DEF Waits
  <2>4. Waits(d, fs[i])
    BY <1>2, <2>1, <2>2, <2>3 DEF Waits
  <2> QED BY <2>1, <2>4
<1>10. DOMAIN h = DOMAIN g \cup B /\ DOMAIN g \subseteq Labels(c)
  BY <1>5 DEF Resolves, Woven
<1>11. \A i, j \in DOMAIN gs : i # j => gs[i].branches \cap gs[j].branches = {}
  BY <1>1 DEF Woven
<1>12. \A i \in DOMAIN gs : gs[i].branches \cap DOMAIN h = {}
  <2>1. \A i \in DOMAIN fs : fs[i].branches \cap DOMAIN g = {}
    BY DEF Woven
  <2> QED BY <1>1, <1>8, <1>10, <2>1
<1>13. ASSUME NEW a \in Labels(d) PROVE a \in DOMAIN h \/ Awaited(gs, a)
  <2>1. CASE a \in DOMAIN g
    BY <1>10, <2>1
  <2>2. CASE a \notin DOMAIN g
    <3>1. PICK j \in DOMAIN fs : a \in fs[j].branches
      BY <2>2 DEF Woven, Awaited
    <3>2. CASE j = k
      BY <1>1, <1>10, <3>1, <3>2
    <3>3. CASE j # k
      <4>1. j \in DOMAIN gs /\ a \in gs[j].branches
        BY <1>1, <3>1, <3>3
      <4> QED BY <4>1 DEF Awaited
    <3> QED BY <3>2, <3>3
  <2> QED BY <2>1, <2>2
<1>14. Settled(d, h)
  <2>1. ASSUME NEW a \in DOMAIN h
        PROVE  d[a].jump = IF h[a] = EarlyReturn THEN 0 ELSE h[a] - a
    <3>1. CASE a \in B
      <4>1. h[a] = v /\ v # EarlyReturn
        BY <1>5, <3>1 DEF Resolves, EarlyReturn
      <4>2. d[a].jump = v - a
        BY <1>3, <1>4, <3>1
      <4> QED BY <4>1, <4>2
    <3>2. CASE a \notin B
      <4>1. a \in DOMAIN g /\ h[a] = g[a]
        BY <1>5, <1>10, <3>2 DEF Resolves
      <4>2. d[a].jump = c[a].jump
        BY <1>4, <1>10, <3>2, <4>1
      <4>3. c[a].jump = IF g[a] = EarlyReturn THEN 0 ELSE g[a] - a
        BY <4>1 DEF Woven, Settled
      <4> QED BY <4>1, <4>2, <4>3
    <3> QED BY <3>1, <3>2
  <2> QED BY <2>1 DEF Settled
<1>15. DOMAIN h \subseteq Labels(d)
  BY <1>3, <1>10
<1>16. Woven(d, gs, h, n)
  BY <1>7, <1>9, <1>11, <1>12, <1>13, <1>14, <1>15 DEF Woven
<1> QED BY <1>16 DEF gs

-----------------------------------------------------------------------------
(* Patching                                                                *)

(* The end of a block: every branch that waits for it jumps to n.          *)
LEMMA PatchedLabels ==
  ASSUME NEW c, NEW B \in SUBSET Labels(c), NEW n \in Nat
  PROVE  /\ DOMAIN Patched(c, B, n) = DOMAIN c /\ Labels(Patched(c, B, n)) = Labels(c)
         /\ \A a \in Labels(c) :
              Patched(c, B, n)[a].jump = IF a \in B THEN n - a ELSE c[a].jump
<1> DEFINE d == Patched(c, B, n)
<1>1. DOMAIN d = DOMAIN c
  BY DEF Patched
<1>2. \A a \in DOMAIN c : d[a] = IF a \in B THEN with_jump(c[a], Jump(a, n)) ELSE c[a]
  BY DEF Patched
<1> HIDE DEF d
<1>3. \A a \in Labels(c) : a \in DOMAIN c /\ IsLabel(c[a])
  BY DEF Labels, IsLabel
<1>4. \A a : Jump(a, n) = n - a
  BY DEF Jump, SENTINEL
<1>5. \A a \in B : IsLabel(d[a]) /\ d[a].jump = n - a
  <2> SUFFICES ASSUME NEW a \in B PROVE IsLabel(d[a]) /\ d[a].jump = n - a
    OBVIOUS
  <2>1. d[a] = with_jump(c[a], Jump(a, n)) /\ IsLabel(c[a])
    BY <1>2, <1>3
  <2>2. IsLabel(with_jump(c[a], Jump(a, n))) /\ with_jump(c[a], Jump(a, n)).jump = Jump(a, n)
    BY <2>1, WithJump
  <2> QED BY <1>4, <2>1, <2>2
<1>6. \A a \in DOMAIN c : IsLabel(d[a]) <=> IsLabel(c[a])
  BY <1>2, <1>3, <1>5
<1>7. Labels(d) = Labels(c)
  BY <1>1, <1>6 DEF Labels, IsLabel
<1>8. \A a \in Labels(c) : d[a].jump = IF a \in B THEN n - a ELSE c[a].jump
  BY <1>2, <1>3, <1>5
<1> QED BY <1>1, <1>7, <1>8 DEF d

(* The oldest branch of a chain.                                           *)
Oldest(c, B, t) ==
  t \in B /\ c[t].jump = 0 /\ \A b \in B : t <= b /\ (c[b].jump = 0 => b = t)

(* The only label of a chain with a jump of 0, the one FalseBranch finds,  *)
(* is its oldest.                                                          *)
LEMMA TailIsOldest ==
  ASSUME NEW c, NEW n \in Nat, Written(c, n), NEW B \in SUBSET Labels(c), NEW head,
         Chained(c, B, head), B # {}
  PROVE  Oldest(c, B, FalseBranch(c, B))
<1>1. \A a \in Labels(c) : a \in Nat /\ a < n /\ c[a].jump \in Int
  BY LabelsAre
<1>2. PICK b \in B : \A x \in B : b <= x
  <2>1. B \in SUBSET Nat
    BY <1>1
  <2> QED BY <2>1, LeastNumber
<1>3. c[b].jump = 0
  <2>1. SUFFICES ASSUME c[b].jump < 0, b + c[b].jump \in B PROVE FALSE
    BY DEF Chained
  <2> QED BY <1>1, <1>2, <2>1
<1>4. ASSUME NEW x \in B, c[x].jump = 0 PROVE \A y \in B : x <= y
  BY <1>4 DEF Chained
<1>5. ASSUME NEW t \in B, c[t].jump = 0 PROVE Oldest(c, B, t)
  <2>1. \A y \in B : t <= y
    BY <1>4, <1>5
  <2>2. ASSUME NEW x \in B, c[x].jump = 0 PROVE x = t
    <3>1. x <= t /\ t <= x
      BY <1>4, <2>1, <2>2
    <3> QED BY <1>1, <3>1
  <2> QED BY <1>5, <2>1, <2>2 DEF Oldest
<1>6. FalseBranch(c, B) \in B /\ c[FalseBranch(c, B)].jump = 0
  <2>1. \E a \in B : c[a].jump = 0
    BY <1>3
  <2> QED BY <2>1, Zenon DEF FalseBranch
<1> QED BY <1>5, <1>6, Zenon

(* The false branch jumps to n, and the branch before it becomes the last. *)
LEMMA PatchedIfLabels ==
  ASSUME NEW c, NEW m \in Nat, Written(c, m), NEW B \in SUBSET Labels(c), NEW n \in Nat,
         NEW t \in B, FalseBranch(c, B) = t
  PROVE  /\ DOMAIN PatchedIf(c, B, n) = DOMAIN c /\ Labels(PatchedIf(c, B, n)) = Labels(c)
         /\ \A a \in Labels(c) :
              PatchedIf(c, B, n)[a].jump =
                IF a = t THEN n - t
                ELSE IF a \in B /\ a + c[a].jump = t THEN 0 ELSE c[a].jump
<1> DEFINE d == PatchedIf(c, B, n)
           P(a) == a # t /\ a \in B /\ a + c[a].jump = t
<1>1. DOMAIN d = DOMAIN c
  BY DEF PatchedIf
<1>2. \A a \in DOMAIN c : d[a] = IF a = t THEN with_jump(c[a], Jump(a, n))
                                 ELSE IF P(a) THEN with_jump(c[a], 0) ELSE c[a]
  BY DEF PatchedIf
<1> HIDE DEF d, P
<1>3. \A a \in Labels(c) : a \in DOMAIN c /\ IsLabel(c[a])
  BY DEF Labels, IsLabel
<1>4. Jump(t, n) = n - t
  BY DEF Jump, SENTINEL
<1>5. t \in Labels(c) /\ \A a : P(a) => a \in Labels(c)
  BY DEF P
<1>6. IsLabel(d[t]) /\ d[t].jump = n - t
  <2>1. d[t] = with_jump(c[t], Jump(t, n)) /\ IsLabel(c[t])
    BY <1>2, <1>3, <1>5
  <2>2. IsLabel(with_jump(c[t], Jump(t, n))) /\ with_jump(c[t], Jump(t, n)).jump = Jump(t, n)
    BY <2>1, WithJump
  <2> QED BY <1>4, <2>1, <2>2
<1>7. ASSUME NEW a, P(a), a # t PROVE IsLabel(d[a]) /\ d[a].jump = 0
  <2>1. d[a] = with_jump(c[a], 0) /\ IsLabel(c[a])
    BY <1>2, <1>3, <1>5, <1>7
  <2>2. IsLabel(with_jump(c[a], 0)) /\ with_jump(c[a], 0).jump = 0
    BY <2>1, WithJump
  <2> QED BY <2>1, <2>2
<1>8. \A a \in DOMAIN c : IsLabel(d[a]) <=> IsLabel(c[a])
  BY <1>2, <1>3, <1>5, <1>6, <1>7
<1>9. Labels(d) = Labels(c)
  BY <1>1, <1>8 DEF Labels, IsLabel
<1>10. \A a \in Labels(c) : d[a].jump = IF a = t THEN n - t ELSE IF P(a) THEN 0 ELSE c[a].jump
  BY <1>2, <1>3, <1>6, <1>7
<1>11. \A a \in Labels(c) : d[a].jump = IF a = t THEN n - t
                ELSE IF a \in B /\ a + c[a].jump = t THEN 0 ELSE c[a].jump
  BY <1>10 DEF P
<1> QED BY <1>1, <1>9, <1>11 DEF d

(* A chain that loses its oldest label, and whose next one gets a jump of  *)
(* 0, is a chain of the others.                                            *)
LEMMA ChainedWithoutTail ==
  ASSUME NEW c, NEW d, NEW n \in Nat, Written(c, n), NEW B \in SUBSET Labels(c), NEW head, NEW t \in B,
         Chained(c, B, head), head # t, c[t].jump = 0,
         \A a \in B : a # t => d[a].jump = IF a + c[a].jump = t THEN 0 ELSE c[a].jump
  PROVE  Chained(d, B \ {t}, head)
<1>1. \A a \in B : a \in Nat /\ c[a].jump \in Int
  BY LabelsAre
<1>2. \A x \in B : t <= x
  BY DEF Chained
<1>3. head \in B \ {t} /\ \A b \in B : b <= head
  BY DEF Chained
<1>4. ASSUME NEW b \in B \ {t}
      PROVE  \/ d[b].jump = 0 /\ \A x \in B \ {t} : b <= x
             \/ /\ d[b].jump < 0 /\ b + d[b].jump \in B \ {t}
                /\ \A x \in B \ {t} : x < b => x <= b + d[b].jump
  <2>1. c[b].jump # 0
    <3>1. c[b].jump = 0 => \A x \in B : b <= x
      BY DEF Chained
    <3> QED BY <1>1, <1>2, <3>1
  <2>2. /\ c[b].jump < 0 /\ b + c[b].jump \in B
        /\ \A x \in B : x < b => x <= b + c[b].jump
    BY <2>1 DEF Chained
  <2>3. CASE b + c[b].jump = t
    <3>1. d[b].jump = 0
      BY <2>3
    <3>2. ASSUME NEW x \in B \ {t} PROVE b <= x
      <4>1. x \in Nat /\ b \in Nat /\ t \in Nat /\ t <= x /\ x # t
        BY <1>1, <1>2
      <4>2. x < b => x <= t
        BY <2>2, <2>3
      <4> QED BY <4>1, <4>2
    <3> QED BY <3>1, <3>2
  <2>4. CASE b + c[b].jump # t
    <3>1. d[b].jump = c[b].jump
      BY <2>4
    <3> QED BY <2>2, <2>4, <3>1
  <2> QED BY <2>3, <2>4
<1> QED BY <1>3, <1>4 DEF Chained

-----------------------------------------------------------------------------
(* The else arm                                                            *)

(* gs is fs with f in the place of its last frame.                         *)
Replaces(fs, gs, f) ==
  /\ gs \in Seq(Frames) /\ Len(gs) = Len(fs) /\ gs[Len(fs)] = f
  /\ \A i \in DOMAIN fs : i # Len(fs) =>
       /\ gs[i].kind = fs[i].kind /\ gs[i].target = fs[i].target
       /\ gs[i].branches = fs[i].branches /\ gs[i].start = fs[i].start

(* d is c after the branches B of the last frame of fs, t the oldest, were *)
(* handed to the frame f of an else arm, and t was made to jump to v.      *)
Hands(c, d, fs, f, B, t, v, head) ==
  /\ DOMAIN d = DOMAIN c /\ Labels(d) = Labels(c)
  /\ fs \in Seq(Frames) /\ fs # <<>>
  /\ fs[Len(fs)].kind # "Loop" /\ fs[Len(fs)].branches = B /\ fs[Len(fs)].target = head
  /\ Oldest(c, B, t) /\ head # t /\ v \in Nat
  /\ \A a \in Labels(c) : d[a].jump = IF a = t THEN v - t
            ELSE IF a \in B /\ a + c[a].jump = t THEN 0 ELSE c[a].jump
  /\ f.kind = "Block" /\ f.target = head /\ f.branches = B \ {t}

(* The else arm takes over the branches of the if, all but the oldest.     *)
LEMMA WovenElse ==
  ASSUME NEW c, NEW d, NEW fs, NEW gs, NEW g, NEW h, NEW n \in Nat, NEW v, NEW f,
         NEW B, NEW t, NEW head, Woven(c, fs, g, n), Hands(c, d, fs, f, B, t, v, head),
         Resolves(g, h, {t}, v), Replaces(fs, gs, f)
  PROVE  Woven(d, gs, h, n)
<1> /\ DOMAIN d = DOMAIN c /\ Labels(d) = Labels(c) /\ fs \in Seq(Frames) /\ fs # <<>>
    /\ fs[Len(fs)].kind # "Loop" /\ fs[Len(fs)].branches = B /\ fs[Len(fs)].target = head
    /\ Oldest(c, B, t) /\ head # t /\ v \in Nat
    /\ \A a \in Labels(c) : d[a].jump = IF a = t THEN v - t
            ELSE IF a \in B /\ a + c[a].jump = t THEN 0 ELSE c[a].jump
    /\ f.kind = "Block" /\ f.target = head /\ f.branches = B \ {t}
  BY DEF Hands
<1> PICK k : k = Len(fs)
  OBVIOUS
<1>1. DOMAIN fs = 1..k /\ k \in Nat \ {0} /\ k \in DOMAIN fs /\ DOMAIN gs = DOMAIN fs
  BY SeqDomain DEF Replaces
<1>2. \A i \in DOMAIN fs : fs[i].branches \subseteq Labels(c) /\ Waits(c, fs[i])
  BY DEF Woven, Waits
<1>3. B \subseteq Labels(c) /\ t \in B /\ Chained(c, B, head) /\ c[t].jump = 0
  BY <1>1, <1>2 DEF Waits, Oldest
<1>4. Written(c, n) /\ \A a \in Labels(c) : a \in Nat /\ c[a].jump \in Int
  BY LabelsAre DEF Woven
<1>5. Written(d, n)
  <2>1. \A a \in Labels(c) : d[a].jump \in Int
    BY <1>3, <1>4
  <2> QED BY <1>4, <2>1 DEF Written
<1>6. \A i \in DOMAIN fs : i # k => /\ fs[i].branches \cap B = {}
                                    /\ gs[i].branches = fs[i].branches
                                    /\ gs[i].kind = fs[i].kind /\ gs[i].target = fs[i].target
                                    /\ gs[i].start = fs[i].start
  BY <1>1 DEF Woven, Replaces
<1>7. gs[k] = f
  BY DEF Replaces
<1>8. ASSUME NEW i \in DOMAIN fs PROVE Waits(d, gs[i])
  <2>1. CASE i = k
    <3>1. \A a \in B : a # t => d[a].jump = IF a + c[a].jump = t THEN 0 ELSE c[a].jump
      BY <1>3
    <3>2. Chained(d, B \ {t}, head)
      BY <1>3, <1>4, <3>1, ChainedWithoutTail
    <3>3. B \ {t} \subseteq Labels(d)
      BY <1>3
    <3> QED BY <1>7, <2>1, <3>2, <3>3 DEF Waits
  <2>2. CASE i # k
    <3>1. fs[i].branches \subseteq Labels(d) /\ \A a \in fs[i].branches : d[a].jump = c[a].jump
      BY <1>2, <1>3, <1>6, <2>2
    <3>2. fs[i].kind # "Loop" => Chained(d, fs[i].branches, fs[i].target)
      BY <1>2, <3>1, ChainedSame DEF Waits
    <3> QED BY <1>2, <1>6, <2>2, <3>1, <3>2 DEF Waits
  <2> QED BY <2>1, <2>2
<1>9. \A i \in DOMAIN fs : gs[i].branches = IF i = k THEN B \ {t} ELSE fs[i].branches
  BY <1>6, <1>7
<1>10. DOMAIN h = DOMAIN g \cup {t} /\ DOMAIN g \subseteq Labels(c)
  BY DEF Resolves, Woven
<1>11. fs[k].branches = B
  OBVIOUS
<1>12. ASSUME NEW i \in DOMAIN fs, NEW j \in DOMAIN fs, i # j
       PROVE  gs[i].branches \cap gs[j].branches = {}
  <2>1. fs[i].branches \cap fs[j].branches = {}
    BY <1>12 DEF Woven
  <2> QED BY <1>9, <1>11, <2>1
<1>13. ASSUME NEW i \in DOMAIN fs PROVE gs[i].branches \cap DOMAIN h = {}
  <2>1. fs[i].branches \cap DOMAIN g = {}
    BY DEF Woven
  <2> QED BY <1>3, <1>6, <1>9, <1>10, <1>11, <2>1
<1>14. ASSUME NEW a \in Labels(d) PROVE a \in DOMAIN h \/ Awaited(gs, a)
  <2>1. CASE a \in DOMAIN h
    BY <2>1
  <2>2. CASE a \notin DOMAIN h
    <3>1. a \notin DOMAIN g /\ a # t
      BY <1>10, <2>2
    <3>2. PICK j \in DOMAIN fs : a \in fs[j].branches
      BY <3>1 DEF Woven, Awaited
    <3>3. a \in gs[j].branches
      BY <1>9, <1>11, <3>1, <3>2
    <3> QED BY <1>1, <3>3 DEF Awaited
  <2> QED BY <2>1, <2>2
<1>15. Settled(d, h)
  <2>1. ASSUME NEW a \in DOMAIN h
        PROVE  d[a].jump = IF h[a] = EarlyReturn THEN 0 ELSE h[a] - a
    <3>1. CASE a = t
      <4>1. h[a] = v /\ v # EarlyReturn
        BY <3>1 DEF Resolves, EarlyReturn
      <4>2. d[a].jump = v - a
        BY <1>3, <3>1
      <4> QED BY <4>1, <4>2
    <3>2. CASE a # t
      <4>1. a \in DOMAIN g /\ h[a] = g[a]
        BY <1>10, <3>2 DEF Resolves
      <4>2. a \notin B
        BY <1>1, <1>11, <4>1 DEF Woven
      <4>3. d[a].jump = c[a].jump
        BY <1>10, <3>2, <4>1, <4>2
      <4>4. c[a].jump = IF g[a] = EarlyReturn THEN 0 ELSE g[a] - a
        BY <4>1 DEF Woven, Settled
      <4> QED BY <4>1, <4>3, <4>4
    <3> QED BY <3>1, <3>2
  <2> QED BY <2>1 DEF Settled
<1>16. DOMAIN h \subseteq Labels(d)
  BY <1>3, <1>10
<1> QED BY <1>1, <1>5, <1>8, <1>12, <1>13, <1>14, <1>15, <1>16 DEF Woven

-----------------------------------------------------------------------------
(* Operands                                                                *)

(* The operands a handler may leave while a frame of this height is the last. *)
Stacks(height) == {s \in Seq(Types) : height <= Len(s) /\ Len(s) <= MaxStackDepth}

(* The stack has a limit.                                                  *)
LEMMA Depths == MaxStackDepth \in Nat
BY CompilerAssumption

(* Popping stays above the height of the last frame.                       *)
LEMMA PopOne ==
  ASSUME NEW h \in Nat, Frame.height = h, NEW vs \in Stacks(h) \cup {Invalid}, NEW t
  PROVE  pop_stack(vs, t) \in Stacks(h) \cup {Invalid}
<1>1. CASE vs = Invalid
  BY <1>1 DEF pop_stack
<1>2. CASE vs # Invalid
  <2>1. vs \in Seq(Types) /\ h <= Len(vs) /\ Len(vs) <= MaxStackDepth /\ Len(vs) \in Nat
    BY <1>2 DEF Stacks
  <2>2. CASE Len(vs) = h
    BY <1>2, <2>2 DEF pop_stack
  <2>3. CASE Len(vs) # h
    <3>1. Front(vs) \in Stacks(h)
      <4>1. vs # <<>>
        BY <2>1, <2>3
      <4>2. Divides(vs, Front(vs), Last(vs), Types)
        BY <2>1, <4>1, FrontAndLast
      <4>3. PICK us : us = Front(vs)
        OBVIOUS
      <4>4. us \in Seq(Types) /\ Len(us) = Len(vs) - 1
        BY <4>2, <4>3 DEF Divides
      <4>5. us \in Stacks(h)
        BY <2>1, <2>3, <4>4, Depths DEF Stacks
      <4> QED BY <4>3, <4>5
    <3>2. pop_stack(vs, t) \in {Front(vs), Invalid}
      BY <1>2, <2>3 DEF pop_stack
    <3> QED BY <3>1, <3>2
  <2> QED BY <2>2, <2>3
<1> QED BY <1>1, <1>2

(* The first m steps of PopAll.                                            *)
Popping(vs, ts, m) ==
  {f \in [0..m -> Stacks(Frame.height) \cup {Invalid}] :
     f[0] = vs /\ \A n \in 1..m : f[n] = pop_stack(f[n - 1], ts[n])}

(* There are such steps, by induction on their number.                     *)
LEMMA PopSome ==
  ASSUME NEW h \in Nat, Frame.height = h, NEW vs \in Stacks(h) \cup {Invalid}, NEW ts
  PROVE  \A m \in Nat : Popping(vs, ts, m) # {}
<1> DEFINE V == Stacks(h) \cup {Invalid}
           S == {m \in Nat : Popping(vs, ts, m) # {}}
<1>1. 0 \in S
  <2>1. [k \in 0..0 |-> vs] \in Popping(vs, ts, 0)
    BY DEF Popping
  <2> QED BY <2>1
<1>2. ASSUME NEW m \in Nat, m \in S PROVE m + 1 \in S
  <2>1. PICK f : f \in Popping(vs, ts, m)
    BY <1>2
  <2>2. /\ f \in [0..m -> V] /\ f[0] = vs
        /\ \A n \in 1..m : f[n] = pop_stack(f[n - 1], ts[n])
    BY <2>1 DEF Popping
  <2>3. f[m] \in V
    BY <2>2
  <2>4. PICK x : x = pop_stack(f[m], ts[m + 1])
    OBVIOUS
  <2>5. x \in V
    BY <2>3, <2>4, PopOne
  <2> DEFINE g == [k \in 0..(m + 1) |-> IF k <= m THEN f[k] ELSE x]
  <2>6. g \in [0..(m + 1) -> V] /\ g[0] = vs
    BY <2>2, <2>5
  <2>7. ASSUME NEW n \in 1..(m + 1) PROVE g[n] = pop_stack(g[n - 1], ts[n])
    <3>1. CASE n = m + 1
      <4>1. g[n] = x /\ g[n - 1] = f[m] /\ ts[n] = ts[m + 1]
        BY <3>1
      <4> HIDE DEF g
      <4> QED BY <2>4, <4>1
    <3>2. CASE n # m + 1
      <4>1. n \in 1..m /\ n - 1 \in 0..m /\ n - 1 <= m /\ n <= m
        BY <3>2
      <4>2. g[n] = f[n] /\ g[n - 1] = f[n - 1]
        BY <4>1
      <4>3. f[n] = pop_stack(f[n - 1], ts[n])
        BY <2>2, <4>1
      <4> HIDE DEF g
      <4> QED BY <4>2, <4>3
    <3> QED BY <3>1, <3>2
  <2> HIDE DEF g
  <2>8. g \in Popping(vs, ts, m + 1)
    BY <2>6, <2>7 DEF Popping
  <2> QED BY <2>8
<1> HIDE DEF S
<1>3. Nat \subseteq S
  BY <1>1, <1>2, SetInduction
<1> QED BY <1>3 DEF S

(* What is left when ts is popped off vs.                                  *)
LEMMA PopMany ==
  ASSUME NEW h \in Nat, Frame.height = h, NEW vs \in Stacks(h) \cup {Invalid}, NEW ts,
         Len(ts) \in Nat
  PROVE  PopAll(vs, ts) \in Stacks(h) \cup {Invalid}
<1> DEFINE Is(f) == f = [n \in 0..Len(ts) |-> IF n = 0 THEN vs ELSE pop_stack(f[n - 1], ts[n])]
<1>1. PICK f : f \in Popping(vs, ts, Len(ts))
  BY PopSome
<1>2. /\ f \in [0..Len(ts) -> Stacks(h) \cup {Invalid}] /\ f[0] = vs
      /\ \A n \in 1..Len(ts) : f[n] = pop_stack(f[n - 1], ts[n])
  BY <1>1 DEF Popping
<1>3. \A n \in 0..Len(ts) : f[n] = IF n = 0 THEN vs ELSE pop_stack(f[n - 1], ts[n])
  BY <1>2
<1>4. Is(f)
  BY <1>2, <1>3
<1>5. PICK l : l = CHOOSE g : Is(g)
  OBVIOUS
<1>6. Is(l)
  BY <1>4, <1>5
<1>7. PopAll(vs, ts) = l[Len(ts)]
  BY <1>5 DEF PopAll
<1> DEFINE S == {n \in Nat : n <= Len(ts) => l[n] \in Stacks(h) \cup {Invalid}}
<1>8. l[0] = vs /\ \A n \in 0..Len(ts) : n + 1 <= Len(ts) => l[n + 1] = pop_stack(l[n], ts[n + 1])
  BY <1>6
<1> HIDE DEF Is
<1>9. 0 \in S
  BY <1>8
<1>10. ASSUME NEW n \in Nat, n \in S PROVE n + 1 \in S
  <2> SUFFICES ASSUME n + 1 <= Len(ts) PROVE l[n + 1] \in Stacks(h) \cup {Invalid}
    OBVIOUS
  <2>1. l[n] \in Stacks(h) \cup {Invalid} /\ l[n + 1] = pop_stack(l[n], ts[n + 1])
    BY <1>8, <1>10
  <2> QED BY <2>1, PopOne
<1> HIDE DEF S
<1>11. Nat \subseteq S
  BY <1>9, <1>10, SetInduction
<1>12. Len(ts) \in S
  BY <1>11
<1> QED BY <1>7, <1>12 DEF S

(* Pushing stays above it too, and below the limit.                        *)
LEMMA PushMany ==
  ASSUME NEW h \in Nat, NEW vs \in Stacks(h) \cup {Invalid}, NEW ts \in Seq(Types)
  PROVE  PushAll(vs, ts) \in Stacks(h) \cup {Invalid}
<1>1. CASE vs = Invalid \/ Len(vs) + Len(ts) > MaxStackDepth
  BY <1>1 DEF PushAll
<1>2. CASE vs # Invalid /\ ~(Len(vs) + Len(ts) > MaxStackDepth)
  <2>1. vs \in Seq(Types) /\ h <= Len(vs) /\ Len(vs) \in Nat /\ Len(ts) \in Nat
    BY <1>2 DEF Stacks
  <2>2. vs \o ts \in Seq(Types) /\ Len(vs \o ts) = Len(vs) + Len(ts)
    BY <2>1, ConcatProperties
  <2>3. vs \o ts \in Stacks(h)
    BY <1>2, <2>1, <2>2, Depths DEF Stacks
  <2> QED BY <1>2, <2>3 DEF PushAll
<1> QED BY <1>1, <1>2

-----------------------------------------------------------------------------
(* The invariant                                                           *)

(* The frames fs over the operands vs: no frame is higher than the         *)
(* operands, nor than the frames within it, and the function is the        *)
(* outermost, with no branches of its own (they return).                   *)
Framed(fs, vs) ==
  /\ fs \in Seq(Frames) /\ vs \in Seq(Types) /\ Len(vs) <= MaxStackDepth
  /\ \A i \in DOMAIN fs : fs[i].height <= Len(vs)
  /\ \A i, j \in DOMAIN fs : i <= j => fs[i].height <= fs[j].height
  /\ fs # <<>> => fs[1].kind = "Block" /\ fs[1].branches = {}

(* The fields of a frame.                                                  *)
LEMMA FrameFields ==
  ASSUME NEW f \in Frames
  PROVE  /\ f.height \in Nat /\ f.target \in Int /\ f.start \in Nat
         /\ f.kind \in {"Block", "Loop", "If"} /\ f.label \in Results /\ f.out \in Results
         /\ f.branches \in SUBSET Nat /\ f.unreachable \in BOOLEAN
BY DEF Frames

(* Other operands above the height of the last frame,                      *)
LEMMA FramedStack ==
  ASSUME NEW fs, NEW vs, NEW ws, Framed(fs, vs), fs # <<>>, ws \in Stacks(Last(fs).height)
  PROVE  Framed(fs, ws)
<1>1. fs \in Seq(Frames)
  BY DEF Framed
<1>2. Len(fs) \in Nat \ {0} /\ DOMAIN fs = 1..Len(fs) /\ Last(fs) = fs[Len(fs)]
  BY <1>1 DEF Last
<1>3. \A i \in DOMAIN fs : fs[i].height \in Nat
  BY <1>1, <1>2, ElementOfSeq, FrameFields
<1>4. ws \in Seq(Types) /\ Len(ws) <= MaxStackDepth /\ fs[Len(fs)].height <= Len(ws)
  BY <1>2 DEF Stacks
<1>5. ASSUME NEW i \in DOMAIN fs PROVE fs[i].height <= Len(ws)
  <2>1. fs[i].height <= fs[Len(fs)].height
    BY <1>2 DEF Framed
  <2>2. Len(ws) \in Nat /\ fs[i].height \in Nat /\ fs[Len(fs)].height \in Nat
    BY <1>2, <1>3, <1>4
  <2> QED BY <1>4, <2>1, <2>2
<1> QED BY <1>4, <1>5 DEF Framed

(* a mark on a frame,                                                      *)
LEMMA FramedSame ==
  ASSUME NEW fs, NEW gs, NEW vs, Framed(fs, vs), Same(fs, gs)
  PROVE  Framed(gs, vs)
<1>1. fs \in Seq(Frames) /\ gs \in Seq(Frames) /\ Len(gs) = Len(fs) /\ DOMAIN gs = DOMAIN fs
  BY SeqDomain DEF Framed, Same
<1>2. \A i \in DOMAIN fs : /\ gs[i].height = fs[i].height /\ gs[i].kind = fs[i].kind
                           /\ gs[i].branches = fs[i].branches
  BY DEF Same
<1>3. gs # <<>> => fs # <<>> /\ 1 \in DOMAIN fs
  BY <1>1
<1> QED BY <1>1, <1>2, <1>3 DEF Framed

(* a branch more to the end of a frame,                                    *)
LEMMA FramedLinks ==
  ASSUME NEW fs, NEW gs, NEW vs, NEW i, NEW n, i # 1, Framed(fs, vs), Links(fs, gs, i, n)
  PROVE  Framed(gs, vs)
<1>1. fs \in Seq(Frames) /\ gs \in Seq(Frames) /\ Len(gs) = Len(fs) /\ DOMAIN gs = DOMAIN fs
  BY SeqDomain DEF Framed, Links
<1>2. \A j \in DOMAIN fs : gs[j].height = fs[j].height /\ gs[j].kind = fs[j].kind
  BY DEF Links
<1>3. gs # <<>> => fs # <<>> /\ 1 \in DOMAIN fs
  BY <1>1
<1>4. 1 \in DOMAIN fs => gs[1].branches = fs[1].branches
  BY DEF Links
<1> QED BY <1>1, <1>2, <1>3, <1>4 DEF Framed

(* a frame that is entered with the operands there are,                    *)
LEMMA FramedPush ==
  ASSUME NEW fs, NEW vs, NEW f \in Frames, Framed(fs, vs), fs # <<>>, f.height = Len(vs)
  PROVE  Framed(Append(fs, f), vs)
<1> DEFINE gs == Append(fs, f)
           k == Len(fs) + 1
<1>1. /\ gs \in Seq(Frames) /\ DOMAIN gs = DOMAIN fs \cup {k} /\ k \notin DOMAIN fs
      /\ gs[k] = f /\ \A i \in DOMAIN fs : gs[i] = fs[i] /\ i < k
      /\ 1 \in DOMAIN fs /\ k \in Nat /\ DOMAIN fs \subseteq Nat
  BY AppendProperties, SeqDomain DEF Framed
<1> HIDE DEF gs, k
<1>2. vs \in Seq(Types) /\ Len(vs) <= MaxStackDepth /\ Len(vs) \in Nat
  BY DEF Framed
<1>3. \A i \in DOMAIN gs : gs[i].height <= Len(vs)
  BY <1>1, <1>2 DEF Framed
<1>4. \A i, j \in DOMAIN gs : i <= j => gs[i].height <= gs[j].height
  BY <1>1, <1>2, <1>3 DEF Framed
<1>5. gs[1].kind = "Block" /\ gs[1].branches = {}
  BY <1>1 DEF Framed
<1>6. Framed(gs, vs)
  BY <1>1, <1>2, <1>3, <1>4, <1>5 DEF Framed
<1> QED BY <1>6 DEF gs

(* and one that is left keep the frames over the operands.                 *)
LEMMA FramedPop ==
  ASSUME NEW fs, NEW vs, Framed(fs, vs), Len(fs) > 1
  PROVE  Framed(Front(fs), vs) /\ Front(fs) # <<>>
<1>1. fs \in Seq(Frames) /\ fs # <<>> /\ Len(fs) \in Nat
  BY DEF Framed
<1>2. Divides(fs, Front(fs), Last(fs), Frames)
  BY <1>1, FrontAndLast
<1>3. ASSUME NEW gs, NEW f, Divides(fs, gs, f, Frames)
      PROVE  Framed(gs, vs) /\ gs # <<>>
  <2>1. gs \in Seq(Frames) /\ Len(gs) = Len(fs) - 1 /\ \A i \in DOMAIN gs : gs[i] = fs[i] /\ i \in DOMAIN fs
    BY <1>3 DEF Divides
  <2>2. gs # <<>> /\ 1 \in DOMAIN gs
    BY <1>1, <2>1
  <2> QED BY <2>1, <2>2 DEF Framed
<1> QED BY <1>2, <1>3, Zenon

(* The invariant.                                                          *)
IInv ==
  /\ TypeOK
  /\ Framed(frames, value_stack)
  /\ Woven(code, frames, goal, here)
  /\ status = "compiling" <=> frames # <<>>

(* What a handler leaves.                                                  *)
Kept ==
  /\ here' \in 0..body.words /\ Len(frames') <= body.frames
  /\ DOMAIN typing' \subseteq DOMAIN code'
  /\ Framed(frames', value_stack')
  /\ Woven(code', frames', goal', here')
  /\ status' \in {"compiling", "compiled"}
  /\ status' = "compiling" <=> frames' # <<>>

(* A handler runs.                                                         *)
Ready == IInv /\ status = "compiling"

(* What the invariant says of the state a handler starts in.               *)
LEMMA Basics ==
  ASSUME Ready
  PROVE  /\ body \in Bodies /\ body.words \in Nat /\ body.frames \in Nat \ {0}
         /\ here \in Nat /\ here <= body.words
         /\ frames \in Seq(Frames) /\ frames # <<>> /\ Len(frames) \in Nat \ {0}
         /\ DOMAIN frames = 1..Len(frames) /\ Len(frames) <= body.frames
         /\ Frame \in Frames /\ Frame.height \in Nat /\ Frame = frames[Len(frames)]
         /\ value_stack \in Stacks(Frame.height)
         /\ DOMAIN typing \subseteq DOMAIN code /\ DOMAIN code \subseteq 0..(here - 1)
         /\ Written(code, here) /\ here \notin DOMAIN code
<1>1. IInv /\ frames # <<>>
  BY DEF Ready, IInv
<1>2. body \in Bodies /\ body.words \in Nat /\ body.frames \in Nat \ {0}
  BY <1>1, CompilerAssumption DEF IInv, TypeOK
<1>3. here \in Nat /\ here <= body.words /\ Len(frames) <= body.frames /\ DOMAIN typing \subseteq DOMAIN code
  BY <1>1, <1>2 DEF IInv, TypeOK
<1>4. frames \in Seq(Frames)
  BY <1>1 DEF IInv, Framed
<1>5. /\ Len(frames) \in Nat \ {0} /\ DOMAIN frames = 1..Len(frames)
      /\ Frame = frames[Len(frames)] /\ Frame = Last(frames)
  BY <1>1, <1>4 DEF Frame, Last
<1>6. Frame \in Frames /\ Frame.height \in Nat
  <2>1. frames[Len(frames)] \in Frames
    <3>1. \A i \in 1..Len(frames) : frames[i] \in Frames
      BY <1>4, ElementOfSeq
    <3>2. Len(frames) \in 1..Len(frames)
      BY <1>5
    <3> QED BY <3>1, <3>2
  <2>2. ASSUME NEW f, f \in Frames PROVE f.height \in Nat
    BY <2>2, FrameFields
  <2> QED BY <1>5, <2>1, <2>2
<1>7. value_stack \in Stacks(Frame.height)
  <2>1. value_stack \in Seq(Types) /\ Len(value_stack) <= MaxStackDepth
    BY <1>1 DEF IInv, Framed
  <2>2. Frame.height <= Len(value_stack)
    <3>1. \A i \in DOMAIN frames : frames[i].height <= Len(value_stack)
      BY <1>1 DEF IInv, Framed
    <3>2. Len(frames) \in DOMAIN frames
      BY <1>5
    <3> QED BY <1>5, <3>1, <3>2
  <2> QED BY <2>1, <2>2 DEF Stacks
<1>8. Written(code, here) /\ DOMAIN code \subseteq 0..(here - 1)
  BY <1>1 DEF IInv, Woven, Written
<1>9. here \notin DOMAIN code
  BY <1>3, <1>8
<1> QED BY <1>1, <1>2, <1>3, <1>4, <1>5, <1>6, <1>7, <1>8, <1>9

-----------------------------------------------------------------------------
(* Writing                                                                 *)

(* The words a handler writes have room and its operands are noted.        *)
Wrote ==
  /\ here' \in 0..body.words
  /\ DOMAIN typing' \subseteq DOMAIN code'

(* Advancing and noting the operands is enough for that.                   *)
LEMMA Writes ==
  ASSUME Ready, NEW n \in Nat, Advance(n), DOMAIN code \subseteq DOMAIN code',
         (Validated /\ here \in DOMAIN code') \/ typing' = typing
  PROVE  Wrote
<1>1. here' \in 0..body.words
  BY Basics DEF Advance, Room
<1>2. DOMAIN typing \subseteq DOMAIN code'
  BY Basics
<1>3. DOMAIN typing' \subseteq DOMAIN code'
  <2>1. CASE typing' = typing
    BY <1>2, <2>1
  <2>2. CASE Validated /\ here \in DOMAIN code'
    <3>1. typing' = typing \/ typing' = Put(typing, {here}, value_stack)
      BY <2>2 DEF Validated
    <3>2. DOMAIN Put(typing, {here}, value_stack) = DOMAIN typing \cup {here}
      BY DEF Put
    <3> QED BY <1>2, <2>2, <3>1, <3>2
  <2> QED BY <2>1, <2>2
<1> QED BY <1>1, <1>3 DEF Wrote

(* An instruction without a label keeps the weave.                         *)
LEMMA InstrWrites ==
  ASSUME Ready, NEW name, NEW arg, NEW n \in Nat \ {0}, Instr(name, arg, n)
  PROVE  Wrote /\ Woven(code', frames, goal, here')
<1>1. /\ Advance(n) /\ Validated /\ here' = here + n
      /\ code' = Put(code, {here}, Op(name, arg))
  BY DEF Instr, Advance
<1>2. Woven(code, frames, goal, here) /\ here \in Nat
  BY Basics DEF Ready, IInv
<1>3. Woven(code', frames, goal, here + 1)
  BY <1>1, <1>2, WovenOp
<1>4. Woven(code', frames, goal, here')
  <2>1. here + 1 \in Nat /\ here + n \in Nat /\ here + 1 <= here + n
    BY <1>2
  <2> QED BY <1>1, <1>3, <2>1, WovenMore
<1>5. DOMAIN code' = DOMAIN code \cup {here}
  BY <1>1 DEF Put
<1>6. Wrote
  <2>1. here \in DOMAIN code' /\ DOMAIN code \subseteq DOMAIN code'
    BY <1>5
  <2>2. n \in Nat
    OBVIOUS
  <2>3. ASSUME NEW m \in Nat, Advance(m) PROVE Wrote
    BY <1>1, <2>1, <2>3, Writes
  <2> QED BY <1>1, <2>2, <2>3
<1> QED BY <1>4, <1>6

(* push_stack keeps the frames over the operands.                          *)
LEMMA PushedStack ==
  ASSUME Ready, NEW vs \in Stacks(Frame.height) \cup {Invalid}, push_stack(vs)
  PROVE  value_stack' \in Stacks(Frame.height) /\ Framed(frames, value_stack')
<1>1. value_stack' \in Stacks(Frame.height)
  BY DEF push_stack
<1>2. Framed(frames, value_stack) /\ frames # <<>> /\ Frame = Last(frames)
  BY Basics DEF Ready, IInv, Frame
<1> QED BY <1>1, <1>2, FramedStack

(* Marking the last frame unreachable changes nothing else.                *)
LEMMA MarkedFrames ==
  ASSUME NEW fs \in Seq(Frames), fs # <<>>
  PROVE  Same(fs, [fs EXCEPT ![Len(fs)].unreachable = TRUE])
<1>1. Len(fs) \in Nat \ {0} /\ DOMAIN fs = 1..Len(fs) /\ \A i \in 1..Len(fs) : fs[i] \in Frames
  BY ElementOfSeq
<1>2. PICK r : r = [fs[Len(fs)] EXCEPT !.unreachable = TRUE]
  OBVIOUS
<1>3. fs[Len(fs)] \in Frames
  BY <1>1
<1>4. ASSUME NEW f, f \in Frames
      PROVE  /\ [f EXCEPT !.unreachable = TRUE] \in Frames
         /\ [f EXCEPT !.unreachable = TRUE].kind = f.kind
         /\ [f EXCEPT !.unreachable = TRUE].label = f.label
         /\ [f EXCEPT !.unreachable = TRUE].out = f.out
         /\ [f EXCEPT !.unreachable = TRUE].height = f.height
         /\ [f EXCEPT !.unreachable = TRUE].target = f.target
         /\ [f EXCEPT !.unreachable = TRUE].branches = f.branches
         /\ [f EXCEPT !.unreachable = TRUE].start = f.start
  BY <1>4, MarkedRecord
<1>5. /\ r \in Frames /\ r.kind = fs[Len(fs)].kind /\ r.label = fs[Len(fs)].label
      /\ r.out = fs[Len(fs)].out /\ r.height = fs[Len(fs)].height /\ r.target = fs[Len(fs)].target
      /\ r.branches = fs[Len(fs)].branches /\ r.start = fs[Len(fs)].start
  BY <1>2, <1>3, <1>4
<1>6. [fs EXCEPT ![Len(fs)].unreachable = TRUE] = [fs EXCEPT ![Len(fs)] = r]
  BY <1>1, <1>2
<1>7. PICK gs : gs = [fs EXCEPT ![Len(fs)] = r]
  OBVIOUS
<1>8. gs \in Seq(Frames) /\ Len(gs) = Len(fs)
  BY <1>1, <1>5, <1>7, ExceptSeq
<1>9. \A i \in DOMAIN fs : gs[i] = IF i = Len(fs) THEN r ELSE fs[i]
  BY <1>1, <1>7
<1>10. Same(fs, gs)
  BY <1>1, <1>5, <1>8, <1>9 DEF Same
<1> QED BY <1>6, <1>7, <1>10

(* mark_unreachable, of frames that differ from the present ones at most in their links *)
LEMMA Marks ==
  ASSUME Ready, NEW vs \in Stacks(Frame.height) \cup {Invalid}, NEW fs \in Seq(Frames),
         Framed(fs, value_stack), Len(fs) = Len(frames),
         Last(fs).height = Frame.height, mark_unreachable(vs, fs)
  PROVE  Framed(frames', value_stack') /\ Same(fs, frames')
<1>1. /\ frames' = [fs EXCEPT ![Len(fs)].unreachable = TRUE]
      /\ value_stack' = SubSeq(vs, 1, Frame.height)
  <2>1. frames' = [fs EXCEPT ![Len(fs)].unreachable = TRUE]
    BY DEF mark_unreachable
  <2>2. value_stack' = SubSeq(vs, 1, Frame.height)
    BY DEF mark_unreachable
  <2> QED BY <2>1, <2>2
<1>2. fs # <<>>
  BY Basics
<1>3. Same(fs, frames')
  BY <1>1, <1>2, MarkedFrames
<1>4. PICK h : h = Frame.height
  OBVIOUS
<1>5. vs \in Stacks(h) /\ h \in Nat
  <2>1. vs # Invalid
    BY DEF mark_unreachable
  <2> QED BY <1>4, <2>1, Basics
<1>6. vs \in Seq(Types) /\ h <= Len(vs) /\ Len(vs) <= MaxStackDepth
  BY <1>5 DEF Stacks
<1>7. SubSeq(vs, 1, h) \in Seq(Types) /\ Len(SubSeq(vs, 1, h)) = h
  BY <1>5, <1>6
<1>8. value_stack' \in Stacks(Last(fs).height)
  <2>1. PICK ws : ws = SubSeq(vs, 1, h)
    OBVIOUS
  <2>2. ws \in Stacks(h)
    BY <1>5, <1>6, <1>7, <2>1, Depths DEF Stacks
  <2> QED BY <1>1, <1>4, <2>1, <2>2
<1>9. Framed(fs, value_stack')
  BY <1>2, <1>8, FramedStack
<1> QED BY <1>3, <1>9, FramedSame

-----------------------------------------------------------------------------
(* Handlers that write one instruction                                     *)

(* The types of operands and results.                                      *)
LEMMA TypesAre ==
  /\ Seq(ValType) \subseteq Seq(Types)
  /\ \A rt \in Results : Result(rt) \in Seq(Types) /\ Len(Result(rt)) \in Nat
  /\ ReturnType \in Results
  /\ \A t \in Types : <<t>> \in Seq(Types)
<1>1. Seq(ValType) \subseteq Seq(Types)
  BY DEF Types
<1>2. \A t \in Types : <<t>> \in Seq(Types)
  OBVIOUS
<1>3. ASSUME NEW rt \in Results PROVE Result(rt) \in Seq(Types) /\ Len(Result(rt)) \in Nat
  <2>1. CASE rt = None
    BY <2>1 DEF Result
  <2>2. CASE rt # None
    <3>1. rt \in Types
      BY <2>2 DEF Results, Types
    <3> QED BY <2>2, <3>1 DEF Result
  <2> QED BY <2>1, <2>2
<1> QED BY <1>1, <1>2, <1>3, CompilerAssumption DEF Results

(* A handler that writes one instruction and leaves the frames alone.      *)
LEMMA StraightKept ==
  ASSUME Ready, NEW name, NEW arg, NEW n \in Nat \ {0}, Instr(name, arg, n),
         NEW vs \in Stacks(Frame.height) \cup {Invalid}, push_stack(vs),
         UNCHANGED <<frames, goal>>, UNCHANGED status
  PROVE  Kept
<1>1. Wrote /\ Woven(code', frames, goal, here')
  BY InstrWrites
<1>2. Framed(frames, value_stack')
  BY PushedStack
<1>3. frames' = frames /\ goal' = goal /\ status' = status /\ status = "compiling" /\ frames # <<>>
  BY Basics DEF Ready
<1>4. Len(frames) <= body.frames
  BY Basics
<1> QED BY <1>1, <1>2, <1>3, <1>4 DEF Kept, Wrote

(* One that ends the reachable code.                                       *)
LEMMA DeadKept ==
  ASSUME Ready, NEW name, NEW arg, NEW n \in Nat \ {0}, Instr(name, arg, n),
         NEW vs \in Stacks(Frame.height) \cup {Invalid}, mark_unreachable(vs, frames),
         UNCHANGED goal, UNCHANGED status
  PROVE  Kept
<1>1. Wrote /\ Woven(code', frames, goal, here')
  BY InstrWrites
<1>2. /\ frames \in Seq(Frames) /\ Framed(frames, value_stack) /\ Last(frames).height = Frame.height
      /\ frames # <<>> /\ Len(frames) <= body.frames /\ status = "compiling"
  BY Basics DEF Ready, IInv, Frame
<1>3. Framed(frames', value_stack') /\ Same(frames, frames')
  BY <1>2, Marks
<1>4. Len(frames') = Len(frames) /\ frames' \in Seq(Frames)
  BY <1>3 DEF Same
<1>5. Woven(code', frames', goal', here')
  BY <1>1, <1>2, <1>3, WovenFrames
<1>6. frames' # <<>>
  BY <1>2, <1>4
<1> QED BY <1>1, <1>2, <1>3, <1>4, <1>5, <1>6 DEF Kept, Wrote

(* The stack functions, in the state a handler starts in.                  *)
LEMMA StackIs ==
  ASSUME Ready
  PROVE  /\ Frame.height \in Nat /\ value_stack \in Stacks(Frame.height) \cup {Invalid}
         /\ \A vs \in Stacks(Frame.height) \cup {Invalid} : \A t :
              pop_stack(vs, t) \in Stacks(Frame.height) \cup {Invalid}
         /\ \A vs \in Stacks(Frame.height) \cup {Invalid} : \A ts :
              Len(ts) \in Nat => PopAll(vs, ts) \in Stacks(Frame.height) \cup {Invalid}
         /\ \A vs \in Stacks(Frame.height) \cup {Invalid}, ts \in Seq(Types) :
              PushAll(vs, ts) \in Stacks(Frame.height) \cup {Invalid}
<1>1. Frame.height \in Nat /\ value_stack \in Stacks(Frame.height)
  BY Basics
<1> QED BY <1>1, PopOne, PopMany, PushMany

(* An instruction that neither branches nor looks at types.                *)
LEMMA OpKept ==
  ASSUME Ready, NEW o \in Ops, op(o)
  PROVE  Kept
<1>1. o.pops \in Seq(ValType) /\ o.pushes \in Seq(Types) /\ o.words \in Nat \ {0} /\ Len(o.pops) \in Nat
  BY CompilerAssumption, TypesAre
<1>2. PICK vs : vs = PushAll(PopAll(value_stack, o.pops), o.pushes)
  OBVIOUS
<1>3. vs \in Stacks(Frame.height) \cup {Invalid}
  BY <1>1, <1>2, StackIs
<1>4. push_stack(vs) /\ Instr("op", o, o.words) /\ UNCHANGED <<frames, goal>> /\ UNCHANGED status
  BY <1>2 DEF op, Quiet
<1> QED BY <1>1, <1>3, <1>4, StraightKept

(* drop.                                                                   *)
LEMMA DropKept ==
  ASSUME Ready, drop
  PROVE  Kept
<1>1. PICK vs : vs = pop_stack(value_stack, Unknown)
  OBVIOUS
<1>2. vs \in Stacks(Frame.height) \cup {Invalid}
  BY <1>1, StackIs
<1>3. PICK arg : Instr("drop", arg, 1)
  BY DEF drop
<1>4. push_stack(vs) /\ UNCHANGED <<frames, goal>> /\ UNCHANGED status
  BY <1>1 DEF drop, Quiet
<1>5. 1 \in Nat \ {0}
  OBVIOUS
<1> QED BY <1>2, <1>3, <1>4, <1>5, StraightKept

(* The operand on top has a type, even in dead code.                       *)
LEMMA TopIs ==
  ASSUME Ready, NEW vs \in Stacks(Frame.height)
  PROVE  TypeAtTop(vs) \in Types
<1>1. vs \in Seq(Types) /\ Frame.height <= Len(vs) /\ Frame.height \in Nat
  BY StackIs DEF Stacks
<1>2. CASE Len(vs) = Frame.height
  BY <1>2 DEF TypeAtTop, Types
<1>3. CASE Len(vs) # Frame.height
  <2>1. vs # <<>>
    BY <1>1, <1>3
  <2>2. Last(vs) \in Types
    BY <1>1, <2>1, FrontAndLast DEF Divides
  <2> QED BY <1>3, <2>2 DEF TypeAtTop
<1> QED BY <1>2, <1>3

(* select.                                                                 *)
LEMMA SelectKept ==
  ASSUME Ready, select
  PROVE  Kept
<1> DEFINE vs0 == pop_stack(value_stack, "i32")
           t1 == TypeAtTop(vs0)
           vs1 == pop_stack(vs0, Unknown)
           t2 == IF TypeAtTop(vs1) = Unknown THEN t1 ELSE TypeAtTop(vs1)
           vs == PushAll(pop_stack(vs1, t1), <<t2>>)
<1>1. /\ vs0 # Invalid /\ vs1 # Invalid /\ push_stack(vs)
      /\ Instr("select", IF t2 = Unknown THEN "i32" ELSE t2, 1)
      /\ UNCHANGED <<frames, goal>> /\ UNCHANGED status
  BY DEF select, Quiet
<1>2. vs0 \in Stacks(Frame.height)
  BY <1>1, StackIs
<1>3. vs1 \in Stacks(Frame.height)
  BY <1>1, <1>2, StackIs
<1>4. t1 \in Types /\ TypeAtTop(vs1) \in Types
  BY <1>2, <1>3, TopIs
<1>5. t2 \in Types
  BY <1>4
<1> HIDE DEF vs0, t1, vs1, t2
<1>6. vs \in Stacks(Frame.height) \cup {Invalid}
  BY <1>3, <1>5, StackIs, TypesAre
<1> HIDE DEF vs
<1>7. 1 \in Nat \ {0}
  OBVIOUS
<1> QED BY <1>1, <1>6, <1>7, StraightKept

(* unreachable.                                                            *)
LEMMA UnreachableKept ==
  ASSUME Ready, unreachable
  PROVE  Kept
<1>1. /\ Instr("unreachable", None, 1) /\ mark_unreachable(value_stack, frames)
      /\ UNCHANGED goal /\ UNCHANGED status /\ 1 \in Nat \ {0}
  BY DEF unreachable, Quiet
<1> QED BY <1>1, StackIs, DeadKept

(* return.                                                                 *)
LEMMA ReturnKept ==
  ASSUME Ready, return_
  PROVE  Kept
<1>1. PICK vs : vs = PopAll(value_stack, Result(ReturnType))
  OBVIOUS
<1>2. vs \in Stacks(Frame.height) \cup {Invalid}
  BY <1>1, StackIs, TypesAre
<1>3. /\ Instr("return", Arity(ReturnType), 1) /\ mark_unreachable(vs, frames)
      /\ UNCHANGED goal /\ UNCHANGED status /\ 1 \in Nat \ {0}
  BY <1>1 DEF return_, Quiet
<1> QED BY <1>2, <1>3, DeadKept

(* The start of a br_table.                                                *)
LEMMA BrTableStartKept ==
  ASSUME Ready, NEW n, br_table_start(n)
  PROVE  Kept
<1>1. PICK vs : vs = pop_stack(value_stack, "i32")
  OBVIOUS
<1>2. vs \in Stacks(Frame.height) \cup {Invalid}
  BY <1>1, StackIs
<1>3. PICK w : w = OpcodeWords(n)
  OBVIOUS
<1>4. w \in Nat \ {0}
  BY <1>3 DEF OpcodeWords
<1>5. Instr("br_table", n, w) /\ push_stack(vs) /\ UNCHANGED <<frames, goal>> /\ UNCHANGED status
  BY <1>1, <1>3 DEF br_table_start
<1> QED BY <1>2, <1>4, <1>5, StraightKept

-----------------------------------------------------------------------------
(* Handlers that enter a frame                                             *)

(* f is a frame with these fields.                                         *)
IsFrame(f, kind, label, out, height, target, branches, start) ==
  /\ f \in Frames /\ f.kind = kind /\ f.label = label /\ f.out = out /\ f.height = height
  /\ f.target = target /\ f.branches = branches /\ f.start = start

(* ControlFrame makes one,                                                 *)
LEMMA NewFrame ==
  ASSUME NEW kind \in {"Block", "Loop", "If"}, NEW label \in Results, NEW out \in Results,
         NEW vs, Len(vs) \in Nat, NEW target \in Int, NEW branches \in SUBSET Nat, here \in Nat
  PROVE  IsFrame(ControlFrame(kind, label, out, vs, target, branches), kind, label, out, Len(vs),
                 target, branches, here)
BY DEF ControlFrame, IsFrame, Frames

(* and EXCEPT gives it another start.                                      *)
LEMMA FrameStart ==
  ASSUME NEW f, NEW kind, NEW label, NEW out, NEW height, NEW target, NEW branches, NEW start,
         IsFrame(f, kind, label, out, height, target, branches, start), NEW n \in Nat
  PROVE  IsFrame([f EXCEPT !.start = n], kind, label, out, height, target, branches, n)
BY DEF IsFrame, Frames

(* A frame is entered and nothing is written.                              *)
LEMMA EnterKept ==
  ASSUME Ready, NEW f \in Frames, push_control(frames, f), f.height = Len(value_stack),
         f.branches = {}, f.kind \in {"Block", "Loop"},
         f.kind = "Block" => f.target = SENTINEL, f.kind = "Loop" => f.target = f.start,
         UNCHANGED <<here, code, value_stack, goal, typing, status>>
  PROVE  Kept
<1>1. frames' = Append(frames, f) /\ Len(frames) < body.frames
  BY DEF push_control
<1>2. /\ frames \in Seq(Frames) /\ frames # <<>> /\ Len(frames) \in Nat /\ body.frames \in Nat
      /\ Framed(frames, value_stack) /\ Woven(code, frames, goal, here) /\ here \in 0..body.words
      /\ DOMAIN typing \subseteq DOMAIN code /\ status = "compiling" /\ here \in Nat
  BY Basics DEF Ready, IInv
<1>3. Framed(frames', value_stack)
  BY <1>1, <1>2, FramedPush
<1>4. Waits(code, f)
  BY DEF Waits, Chained
<1>5. Woven(code, Append(frames, f), goal, here)
  <2>1. /\ Written(code, here) /\ Labels(code) = Labels(code) \cup f.branches
        /\ f.branches \cap Labels(code) = {}
    BY Basics
  <2>2. \A a \in Labels(code) : code[a].jump = code[a].jump
    OBVIOUS
  <2> QED BY <1>2, <1>4, <2>1, <2>2, WovenGrows
<1>6. Len(frames') = Len(frames) + 1 /\ frames' # <<>>
  BY <1>1, <1>2, AppendProperties
<1>7. Len(frames') <= body.frames
  BY <1>1, <1>2, <1>6
<1> QED BY <1>1, <1>2, <1>3, <1>5, <1>6, <1>7 DEF Kept

(* The types of a body are types of results.                               *)
LEMMA BodyTypes == ASSUME Ready PROVE body.types \subseteq Results
BY Basics, CompilerAssumption DEF Results

(* The stack has a length.                                                 *)
LEMMA StackLength == ASSUME Ready PROVE Len(value_stack) \in Nat
BY Basics DEF Stacks

(* block.                                                                  *)
LEMMA EnterBlockKept ==
  ASSUME Ready, NEW rt \in body.types, enter_block(rt)
  PROVE  Kept
<1>1. PICK f : f = ControlFrame("Block", rt, rt, value_stack, SENTINEL, {})
  OBVIOUS
<1>2. push_control(frames, f) /\ UNCHANGED <<here, code, value_stack, goal, typing, status>>
  BY <1>1 DEF enter_block, Quiet
<1>3. rt \in Results /\ SENTINEL \in Int /\ {} \in SUBSET Nat /\ "Block" \in {"Block", "Loop", "If"}
  BY BodyTypes DEF SENTINEL
<1>4. IsFrame(f, "Block", rt, rt, Len(value_stack), SENTINEL, {}, here)
  <2>1. here \in Nat /\ Len(value_stack) \in Nat
    BY Basics, StackLength
  <2> QED BY <1>1, <1>3, <2>1, NewFrame
<1>5. /\ f \in Frames /\ f.kind = "Block" /\ f.height = Len(value_stack) /\ f.target = SENTINEL
      /\ f.branches = {}
  BY <1>4 DEF IsFrame
<1> QED BY <1>2, <1>5, EnterKept

(* loop: its branches know their goal at once.                             *)
LEMMA LoopKept ==
  ASSUME Ready, NEW rt \in body.types, loop_(rt)
  PROVE  Kept
<1>1. PICK f : f = ControlFrame("Loop", None, rt, value_stack, here, {})
  OBVIOUS
<1>2. push_control(frames, f) /\ UNCHANGED <<here, code, value_stack, goal, typing, status>>
  BY <1>1 DEF loop_, Quiet
<1>3. rt \in Results /\ None \in Results /\ {} \in SUBSET Nat /\ "Loop" \in {"Block", "Loop", "If"}
  BY BodyTypes DEF Results
<1>4. IsFrame(f, "Loop", None, rt, Len(value_stack), here, {}, here)
  <2>1. here \in Nat /\ here \in Int /\ Len(value_stack) \in Nat
    BY Basics, StackLength
  <2> QED BY <1>1, <1>3, <2>1, NewFrame
<1>5. /\ f \in Frames /\ f.kind = "Loop" /\ f.height = Len(value_stack) /\ f.target = f.start
      /\ f.branches = {}
  BY <1>4 DEF IsFrame
<1> QED BY <1>2, <1>5, EnterKept

(* A label with a jump of 0 is a chain of one.                             *)
LEMMA OneChained ==
  ASSUME NEW c, NEW n \in Nat, c[n].jump = 0
  PROVE  Chained(c, {n}, n)
BY DEF Chained

(* if: the label of the false branch starts the chain of the new frame.    *)
LEMMA IfKept ==
  ASSUME Ready, NEW rt \in body.types, if_(rt)
  PROVE  Kept
<1>1. PICK vs : vs = pop_stack(value_stack, "i32")
  OBVIOUS
<1>2. vs \in Stacks(Frame.height) \cup {Invalid}
  BY <1>1, StackIs
<1>3. PICK f : f = [ControlFrame("If", rt, rt, vs, here + 1, {here + 1}) EXCEPT !.start = here + 3]
  OBVIOUS
<1>4. PICK c1 : c1 = Put(code, {here}, Op("if", None))
  OBVIOUS
<1>5. PICK w : w = Label(rt, 0, 0)
  OBVIOUS
<1>6. /\ push_stack(vs) /\ Advance(3) /\ Validated /\ UNCHANGED <<goal, status>>
      /\ push_control(frames, f) /\ code' = Put(c1, {here + 1}, w)
  BY <1>1, <1>3, <1>4, <1>5 DEF if_, Quiet
<1>7. PICK n : n = here + 1
  OBVIOUS
<1>8. /\ here \in Nat /\ n \in Nat /\ here + 3 \in Nat /\ here' = here + 3
      /\ n + 1 <= here + 3 /\ n + 1 \in Nat
  BY <1>6, <1>7, Basics DEF Advance
<1>9. vs \in Stacks(Frame.height) /\ value_stack' = vs /\ Len(vs) \in Nat
  BY <1>2, <1>6 DEF push_stack, Stacks
<1>10. Framed(frames, vs)
  BY <1>2, <1>6, <1>9, PushedStack
<1>11. IsFrame(f, "If", rt, rt, Len(vs), n, {n}, here + 3)
  <2>1. rt \in Results /\ {n} \in SUBSET Nat /\ n \in Int /\ "If" \in {"Block", "Loop", "If"}
    BY <1>8, BodyTypes
  <2>2. IsFrame(ControlFrame("If", rt, rt, vs, n, {n}), "If", rt, rt, Len(vs), n, {n}, here)
    BY <1>8, <1>9, <2>1, NewFrame
  <2>3. IsFrame([ControlFrame("If", rt, rt, vs, n, {n}) EXCEPT !.start = here + 3],
                "If", rt, rt, Len(vs), n, {n}, here + 3)
    BY <1>8, <2>2, FrameStart
  <2> QED BY <1>3, <1>7, <2>3
<1>12. Woven(c1, frames, goal, n)
  BY <1>4, <1>7, <1>8, WovenOp DEF Ready, IInv
<1>13. Written(c1, n)
  BY <1>12 DEF Woven
<1>14. IsLabel(w) /\ w.jump = 0
  BY <1>5, LabelIs
<1>15. Adds(c1, code', n, w)
  BY <1>6, <1>7, <1>8, <1>13, PutAdds
<1>16. AddsLabel(c1, code', n, w)
  <2>1. w.jump \in Int
    BY <1>14
  <2> QED BY <1>8, <1>13, <1>14, <1>15, <2>1, LabelAdded
<1>17. /\ Written(code', n + 1) /\ Labels(code') = Labels(c1) \cup {n}
       /\ \A a \in Labels(c1) : code'[a].jump = c1[a].jump /\ a # n
       /\ code'[n].jump = 0
  BY <1>14, <1>16 DEF AddsLabel
<1>18. f \in Frames /\ f.kind = "If" /\ f.height = Len(vs) /\ f.target = n /\ f.branches = {n}
  BY <1>11 DEF IsFrame
<1>19. Waits(code', f)
  <2>1. Chained(code', {n}, n)
    BY <1>8, <1>17, OneChained
  <2> QED BY <1>17, <1>18, <2>1 DEF Waits
<1>20. frames' = Append(frames, f) /\ Len(frames) < body.frames
  BY <1>6 DEF push_control
<1>21. /\ frames \in Seq(Frames) /\ frames # <<>> /\ Len(frames) \in Nat
       /\ body.frames \in Nat /\ status = "compiling"
  BY Basics DEF Ready
<1>22. Woven(code', frames', goal, n + 1)
  <2>1. Labels(code') = Labels(c1) \cup f.branches /\ f.branches \cap Labels(c1) = {}
    BY <1>17, <1>18
  <2>2. \A a \in Labels(c1) : code'[a].jump = c1[a].jump
    BY <1>17
  <2> QED BY <1>8, <1>12, <1>17, <1>18, <1>19, <1>20, <1>21, <2>1, <2>2, WovenGrows
<1>23. Woven(code', frames', goal', here')
  <2>1. Woven(code', frames', goal, here + 3)
    BY <1>8, <1>22, WovenMore
  <2> QED BY <1>6, <1>8, <2>1
<1>24. Framed(frames', value_stack')
  BY <1>9, <1>10, <1>18, <1>20, <1>21, FramedPush
<1>25. Len(frames') = Len(frames) + 1 /\ frames' # <<>>
  BY <1>18, <1>20, <1>21, AppendProperties
<1>26. Wrote
  <2>1. DOMAIN code' = DOMAIN c1 \cup {n} /\ DOMAIN c1 = DOMAIN code \cup {here}
    BY <1>4, <1>15 DEF Adds, Put
  <2>2. here \in DOMAIN code' /\ DOMAIN code \subseteq DOMAIN code' /\ 3 \in Nat
    BY <2>1
  <2> QED BY <1>6, <2>2, Writes
<1>27. Len(frames') <= body.frames
  BY <1>20, <1>21, <1>25
<1>28. status' = "compiling"
  BY <1>6, <1>21
<1> QED BY <1>23, <1>24, <1>25, <1>26, <1>27, <1>28 DEF Kept, Wrote

-----------------------------------------------------------------------------
(* Labels written                                                          *)

(* r is the frame f with n as the newest branch to its end.                *)
LinkedTo(f, r, n) ==
  /\ r \in Frames /\ r.kind = f.kind /\ r.label = f.label /\ r.out = f.out
  /\ r.height = f.height /\ r.start = f.start /\ r.target = n
  /\ r.branches = f.branches \cup {n}

(* The link is made by two fields.                                         *)
LEMMA LinkedRecord ==
  ASSUME NEW f \in Frames, NEW n \in Nat
  PROVE  LinkedTo(f, [f EXCEPT !.target = n, !.branches = @ \cup {n}], n)
<1>1. PICK B : B = f.branches \cup {n}
  OBVIOUS
<1>2. B \in SUBSET Nat
  BY <1>1, FrameFields
<1>3. [f EXCEPT !.target = n, !.branches = @ \cup {n}] = [f EXCEPT !.target = n, !.branches = B]
  BY <1>1 DEF Frames
<1>4. PICK r : r = [f EXCEPT !.target = n, !.branches = B]
  OBVIOUS
<1>5. r \in Frames
  <2>1. PICK e : e = [f EXCEPT !.target = n]
    OBVIOUS
  <2>2. e \in Frames
    <3>1. n \in Int
      OBVIOUS
    <3> QED BY <2>1, <3>1 DEF Frames
  <2>3. [e EXCEPT !.branches = B] \in Frames
    BY <1>2, <2>2 DEF Frames
  <2>4. r = [e EXCEPT !.branches = B]
    BY <1>4, <2>1 DEF Frames
  <2> QED BY <2>3, <2>4
<1>6. /\ r.kind = f.kind /\ r.label = f.label /\ r.out = f.out
      /\ r.height = f.height /\ r.start = f.start /\ r.target = n
      /\ r.branches = B
  BY <1>4 DEF Frames
<1> QED BY <1>1, <1>3, <1>4, <1>5, <1>6 DEF LinkedTo

(* The same in a sequence of frames.                                       *)
LEMMA LinkedFrames ==
  ASSUME NEW fs \in Seq(Frames), NEW i \in DOMAIN fs, NEW n \in Nat
  PROVE  Links(fs, [fs EXCEPT ![i].target = n, ![i].branches = @ \cup {n}], i, n)
<1>1. Len(fs) \in Nat /\ DOMAIN fs = 1..Len(fs) /\ \A j \in 1..Len(fs) : fs[j] \in Frames
  BY ElementOfSeq
<1>2. PICK r : r = [fs[i] EXCEPT !.target = n, !.branches = @ \cup {n}]
  OBVIOUS
<1>3. PICK f : f = fs[i]
  OBVIOUS
<1>4. f \in Frames
  BY <1>1, <1>3
<1>5. /\ r \in Frames /\ r.kind = f.kind /\ r.label = f.label /\ r.out = f.out
      /\ r.height = f.height /\ r.start = f.start /\ r.target = n
      /\ r.branches = f.branches \cup {n}
  <2>1. LinkedTo(f, r, n)
    BY <1>2, <1>3, <1>4, LinkedRecord
  <2> QED BY <2>1 DEF LinkedTo
<1>6. [fs EXCEPT ![i].target = n, ![i].branches = @ \cup {n}] = [fs EXCEPT ![i] = r]
  BY <1>1, <1>2
<1>7. PICK gs : gs = [fs EXCEPT ![i] = r]
  OBVIOUS
<1>8. gs \in Seq(Frames) /\ Len(gs) = Len(fs)
  BY <1>1, <1>5, <1>7, ExceptSeq
<1>9. \A j \in DOMAIN fs : gs[j] = IF j = i THEN r ELSE fs[j]
  BY <1>1, <1>7
<1>10. Links(fs, gs, i, n)
  BY <1>1, <1>3, <1>5, <1>8, <1>9 DEF Links
<1> QED BY <1>6, <1>7, <1>10

(* The frames after a label has been written: linked, or as they were.     *)
Relinked(fs, vs) ==
  /\ Framed(fs, vs) /\ fs \in Seq(Frames) /\ Len(fs) = Len(frames)
  /\ \A i \in DOMAIN frames : fs[i].height = frames[i].height

(* write_label_target: a label l frames out is settled at once (a return,  *)
(* or a loop), or it becomes the newest of the chain of the frame.         *)
LEMMA LabelWoven ==
  ASSUME Ready, NEW c, NEW n \in Nat, Woven(c, frames, goal, n), NEW vs,
         NEW l \in 0..(Len(frames) - 1)
  PROVE  /\ Woven(Put(c, {n}, LabelAt(l, n, vs)), Linked(l, n), GoalOf(l, n), n + 1)
         /\ Relinked(Linked(l, n), value_stack)
<1> PICK i : i = Index(l)
  OBVIOUS
<1>1. /\ frames \in Seq(Frames) /\ frames # <<>> /\ Len(frames) \in Nat \ {0} /\ DOMAIN frames = 1..Len(frames)
      /\ Framed(frames, value_stack)
  BY Basics DEF Ready, IInv
<1>2. i \in DOMAIN frames
  BY <1>1 DEF Index
<1>3. frames[i] \in Frames
  <2>1. \A j \in 1..Len(frames) : frames[j] \in Frames
    BY <1>1, ElementOfSeq
  <2> QED BY <1>1, <1>2, <2>1
<1>4. frames[i].target \in Int /\ frames[i].start \in Nat
  BY <1>3, FrameFields
<1>5. Written(c, n) /\ Waits(c, frames[i])
  BY <1>2 DEF Woven
<1>6. PICK w : w = LabelAt(l, n, vs)
  OBVIOUS
<1>7. Adds(c, Put(c, {n}, w), n, w)
  BY <1>5, PutAdds
<1>8. Relinked(frames, value_stack)
  BY <1>1 DEF Relinked
<1>9. CASE IsFunction(l)
  <2>1. Linked(l, n) = frames /\ GoalOf(l, n) = Put(goal, {n}, EarlyReturn)
    BY <1>9 DEF Linked, IsForward, GoalOf
  <2>2. IsLabel(w) /\ w.jump = 0
    BY <1>6, <1>9, LabelIs DEF LabelAt
  <2>3. Resolves(goal, Put(goal, {n}, EarlyReturn), {n}, EarlyReturn)
    BY PutResolves
  <2>4. Woven(Put(c, {n}, w), frames, Put(goal, {n}, EarlyReturn), n + 1)
    <3>1. PICK v : v = EarlyReturn
      OBVIOUS
    <3>2. w.jump \in Int /\ w.jump = IF v = EarlyReturn THEN 0 ELSE v - n
      BY <2>2, <3>1
    <3>3. Resolves(goal, Put(goal, {n}, v), {n}, v)
      BY PutResolves
    <3>4. Woven(Put(c, {n}, w), frames, Put(goal, {n}, v), n + 1)
      BY <1>7, <2>2, <3>2, <3>3, WovenGoal
    <3> QED BY <3>1, <3>4
  <2> QED BY <1>6, <1>8, <2>1, <2>4
<1>10. CASE ~IsFunction(l) /\ frames[i].kind = "Loop"
  <2>1. Linked(l, n) = frames /\ GoalOf(l, n) = Put(goal, {n}, frames[i].start)
    BY <1>10 DEF Linked, IsForward, IsLoop, GoalOf
  <2>2. frames[i].target = frames[i].start
    BY <1>5, <1>10 DEF Waits
  <2>3. PICK v : v = frames[i].start
    OBVIOUS
  <2>4. v \in Nat /\ v # SENTINEL /\ v # EarlyReturn
    BY <1>4, <2>3 DEF SENTINEL, EarlyReturn
  <2>5. IsLabel(w) /\ w.jump = Jump(n, v)
    BY <1>6, <1>10, <2>2, <2>3, LabelIs DEF LabelAt
  <2>6. w.jump \in Int /\ w.jump = IF v = EarlyReturn THEN 0 ELSE v - n
    BY <2>4, <2>5 DEF Jump
  <2>7. Resolves(goal, Put(goal, {n}, v), {n}, v)
    BY PutResolves
  <2>8. Woven(Put(c, {n}, w), frames, Put(goal, {n}, v), n + 1)
    BY <1>7, <2>5, <2>6, <2>7, WovenGoal
  <2> QED BY <1>6, <1>8, <2>1, <2>3, <2>8
<1>11. CASE ~IsFunction(l) /\ frames[i].kind # "Loop"
  <2>1. PICK gs : gs = [frames EXCEPT ![i].target = n, ![i].branches = @ \cup {n}]
    OBVIOUS
  <2>2. Linked(l, n) = gs /\ GoalOf(l, n) = goal
    BY <1>11, <2>1 DEF Linked, IsForward, IsLoop, GoalOf
  <2>3. Links(frames, gs, i, n)
    BY <1>1, <1>2, <2>1, LinkedFrames
  <2>4. IsLabel(w) /\ w.jump = Jump(n, frames[i].target)
    BY <1>6, <1>11, LabelIs DEF LabelAt
  <2>5. Woven(Put(c, {n}, w), gs, goal, n + 1)
    BY <1>1, <1>2, <1>7, <1>11, <2>3, <2>4, WovenLink
  <2>6. i # 1
    BY <1>11 DEF IsFunction
  <2>7. Framed(gs, value_stack)
    BY <1>1, <2>3, <2>6, FramedLinks
  <2>8. Relinked(gs, value_stack)
    BY <2>3, <2>7 DEF Relinked, Links
  <2> QED BY <1>6, <2>2, <2>5, <2>8
<1> QED BY <1>9, <1>10, <1>11

(* An instruction with a label keeps the weave,                            *)
LEMMA InstrLabelWrites ==
  ASSUME Ready, NEW name, NEW l \in 0..(Len(frames) - 1), NEW vs, InstrLabel(name, l, vs)
  PROVE  /\ Wrote /\ Woven(code', Linked(l, here + 1), goal', here')
         /\ Relinked(Linked(l, here + 1), value_stack)
<1>1. PICK c1 : c1 = Put(code, {here}, Op(name, None))
  OBVIOUS
<1>2. PICK n : n = here + 1
  OBVIOUS
<1>3. /\ Advance(3) /\ Validated /\ goal' = GoalOf(l, n)
      /\ code' = Put(c1, {n}, LabelAt(l, n, vs))
  BY <1>1, <1>2 DEF InstrLabel
<1>4. /\ here \in Nat /\ n \in Nat /\ n + 1 \in Nat /\ here' = here + 3
      /\ n + 1 <= here + 3 /\ here + 3 \in Nat
  BY <1>2, <1>3, Basics DEF Advance
<1>5. Woven(c1, frames, goal, n)
  BY <1>1, <1>2, <1>4, WovenOp DEF Ready, IInv
<1>6. /\ Woven(code', Linked(l, n), goal', n + 1)
      /\ Relinked(Linked(l, n), value_stack)
  BY <1>3, <1>4, <1>5, LabelWoven
<1>7. Woven(code', Linked(l, n), goal', here')
  <2>1. Woven(code', Linked(l, n), goal', here + 3)
    BY <1>4, <1>6, WovenMore
  <2> QED BY <1>4, <2>1
<1>8. Wrote
  <2>1. DOMAIN code' = DOMAIN c1 \cup {n} /\ DOMAIN c1 = DOMAIN code \cup {here}
    BY <1>1, <1>3 DEF Put
  <2>2. here \in DOMAIN code' /\ DOMAIN code \subseteq DOMAIN code' /\ 3 \in Nat
    BY <2>1
  <2> QED BY <1>3, <2>2, Writes
<1> QED BY <1>2, <1>6, <1>7, <1>8

(* and so does one label of a br_table.                                    *)
LEMMA CaseLabelWrites ==
  ASSUME Ready, NEW l \in 0..(Len(frames) - 1), CaseLabel(l), typing' = typing
  PROVE  /\ Wrote /\ Woven(code', Linked(l, here), goal', here')
         /\ Relinked(Linked(l, here), value_stack)
<1>1. PICK n : n = here
  OBVIOUS
<1>2. /\ Advance(2) /\ goal' = GoalOf(l, n) /\ code' = Put(code, {n}, LabelAt(l, n, value_stack))
  BY <1>1 DEF CaseLabel
<1>3. n \in Nat /\ n + 1 \in Nat /\ here' = n + 2 /\ n + 1 <= n + 2 /\ n + 2 \in Nat
  BY <1>1, <1>2, Basics DEF Advance
<1>4. Woven(code, frames, goal, n)
  BY <1>1 DEF Ready, IInv
<1>5. /\ Woven(code', Linked(l, n), goal', n + 1)
      /\ Relinked(Linked(l, n), value_stack)
  BY <1>2, <1>3, <1>4, LabelWoven
<1>6. Woven(code', Linked(l, n), goal', here')
  <2>1. Woven(code', Linked(l, n), goal', n + 2)
    BY <1>3, <1>5, WovenMore
  <2> QED BY <1>3, <2>1
<1>7. Wrote
  <2>1. DOMAIN code' = DOMAIN code \cup {n}
    BY <1>2 DEF Put
  <2>2. DOMAIN code \subseteq DOMAIN code' /\ 2 \in Nat
    BY <2>1
  <2> QED BY <1>2, <2>2, Writes
<1> QED BY <1>1, <1>5, <1>6, <1>7

-----------------------------------------------------------------------------
(* Handlers that branch                                                    *)

(* A label has a type of result.                                           *)
LEMMA LabelTypes ==
  ASSUME Ready, NEW l \in 0..(Len(frames) - 1)
  PROVE  LabelType(l) \in Results
<1> PICK i : i = Index(l)
  OBVIOUS
<1>1. \A j \in DOMAIN frames : frames[j] \in Frames
  BY Basics, ElementOfSeq
<1>2. i \in DOMAIN frames
  BY Basics DEF Index
<1>3. frames[i].label \in Results
  BY <1>1, <1>2, FrameFields
<1>4. None \in Results /\ ReturnType \in Results
  BY TypesAre DEF Results
<1> QED BY <1>3, <1>4 DEF LabelType

(* Results are popped                                                      *)
LEMMA ResultsPopped ==
  ASSUME Ready, NEW vs \in Stacks(Frame.height) \cup {Invalid}, NEW rt \in Results
  PROVE  PopAll(vs, Result(rt)) \in Stacks(Frame.height) \cup {Invalid}
BY StackIs, TypesAre

(* and pushed like other operands.                                         *)
LEMMA ResultsPushed ==
  ASSUME Ready, NEW vs \in Stacks(Frame.height) \cup {Invalid}, NEW rt \in Results
  PROVE  PushAll(vs, Result(rt)) \in Stacks(Frame.height) \cup {Invalid}
BY StackIs, TypesAre

(* What is left of a handler that has written a label: the reachable code ends, *)
LEMMA LabelDeadKept ==
  ASSUME Ready, NEW fs, Wrote, Woven(code', fs, goal', here'), Relinked(fs, value_stack),
         NEW vs \in Stacks(Frame.height) \cup {Invalid}, mark_unreachable(vs, fs), status' = status
  PROVE  Kept
<1>1. /\ frames \in Seq(Frames) /\ frames # <<>> /\ Len(frames) <= body.frames /\ status = "compiling"
      /\ Len(frames) \in Nat \ {0} /\ DOMAIN frames = 1..Len(frames) /\ Frame = frames[Len(frames)]
  BY Basics DEF Ready
<1>2. /\ fs \in Seq(Frames) /\ Framed(fs, value_stack) /\ Len(fs) = Len(frames)
      /\ \A i \in DOMAIN frames : fs[i].height = frames[i].height
  BY DEF Relinked
<1>3. Last(fs).height = Frame.height
  <2>1. Last(fs) = fs[Len(frames)]
    BY <1>2 DEF Last
  <2>2. Len(frames) \in DOMAIN frames
    BY <1>1
  <2> QED BY <1>1, <1>2, <2>1, <2>2
<1>4. Framed(frames', value_stack') /\ Same(fs, frames')
  BY <1>2, <1>3, Marks
<1>5. Len(frames') = Len(frames) /\ frames' \in Seq(Frames)
  BY <1>2, <1>4 DEF Same
<1>6. Woven(code', frames', goal', here')
  BY <1>2, <1>4, WovenFrames
<1>7. frames' # <<>>
  BY <1>1, <1>5
<1> QED BY <1>1, <1>4, <1>5, <1>6, <1>7 DEF Kept, Wrote

(* or it goes on.                                                          *)
LEMMA LabelGoesKept ==
  ASSUME Ready, NEW fs, Wrote, Woven(code', fs, goal', here'), Relinked(fs, value_stack),
         frames' = fs, value_stack' \in Stacks(Frame.height), status' = status
  PROVE  Kept
<1>1. /\ frames \in Seq(Frames) /\ frames # <<>> /\ Len(frames) <= body.frames /\ status = "compiling"
      /\ Len(frames) \in Nat \ {0} /\ DOMAIN frames = 1..Len(frames) /\ Frame = frames[Len(frames)]
  BY Basics DEF Ready
<1>2. /\ fs \in Seq(Frames) /\ Framed(fs, value_stack) /\ Len(fs) = Len(frames)
      /\ \A i \in DOMAIN frames : fs[i].height = frames[i].height
  BY DEF Relinked
<1>3. Last(fs).height = Frame.height
  <2>1. Last(fs) = fs[Len(frames)]
    BY <1>2 DEF Last
  <2>2. Len(frames) \in DOMAIN frames
    BY <1>1
  <2> QED BY <1>1, <1>2, <2>1, <2>2
<1>4. fs # <<>>
  BY <1>1, <1>2
<1>5. value_stack' \in Stacks(Last(fs).height)
  BY <1>3
<1>6. Framed(fs, value_stack')
  BY <1>2, <1>4, <1>5, FramedStack
<1> QED BY <1>1, <1>2, <1>4, <1>6 DEF Kept, Wrote

(* br.                                                                     *)
LEMMA BrKept ==
  ASSUME Ready, NEW l \in 0..(Len(frames) - 1), br(l)
  PROVE  Kept
<1>1. PICK vs : vs = PopAll(value_stack, Result(LabelType(l)))
  OBVIOUS
<1>2. PICK fs : fs = Linked(l, here + 1)
  OBVIOUS
<1>3. InstrLabel("br", l, value_stack) /\ mark_unreachable(vs, fs) /\ status' = status
  BY <1>1, <1>2 DEF br, Quiet
<1>4. vs \in Stacks(Frame.height) \cup {Invalid}
  BY <1>1, StackIs, LabelTypes, ResultsPopped
<1>5. Wrote /\ Woven(code', fs, goal', here') /\ Relinked(fs, value_stack)
  BY <1>2, <1>3, InstrLabelWrites
<1> QED BY <1>3, <1>4, <1>5, LabelDeadKept

(* br_if.                                                                  *)
LEMMA BrIfKept ==
  ASSUME Ready, NEW l \in 0..(Len(frames) - 1), br_if(l)
  PROVE  Kept
<1>1. PICK rs : rs = Result(LabelType(l))
  OBVIOUS
<1>2. PICK ws : ws = pop_stack(value_stack, "i32")
  OBVIOUS
<1>3. PICK vs : vs = PushAll(PopAll(ws, rs), rs)
  OBVIOUS
<1>4. PICK fs : fs = Linked(l, here + 1)
  OBVIOUS
<1>5. InstrLabel("br_if", l, ws) /\ frames' = fs /\ push_stack(vs) /\ status' = status
  BY <1>1, <1>2, <1>3, <1>4 DEF br_if, Quiet
<1>6. vs \in Stacks(Frame.height) \cup {Invalid}
  <2>1. ws \in Stacks(Frame.height) \cup {Invalid}
    BY <1>2, StackIs
  <2>2. PopAll(ws, rs) \in Stacks(Frame.height) \cup {Invalid}
    BY <1>1, <2>1, LabelTypes, ResultsPopped
  <2> QED BY <1>1, <1>3, <2>2, LabelTypes, ResultsPushed
<1>7. value_stack' \in Stacks(Frame.height)
  BY <1>5, <1>6, PushedStack
<1>8. Wrote /\ Woven(code', fs, goal', here') /\ Relinked(fs, value_stack)
  BY <1>4, <1>5, InstrLabelWrites
<1> QED BY <1>5, <1>7, <1>8, LabelGoesKept

(* A case of a br_table.                                                   *)
LEMMA BrTableBranchKept ==
  ASSUME Ready, NEW l \in 0..(Len(frames) - 1), br_table_branch(l)
  PROVE  Kept
<1>1. PICK fs : fs = Linked(l, here)
  OBVIOUS
<1>2. CaseLabel(l) /\ frames' = fs /\ value_stack' = value_stack /\ status' = status /\ typing' = typing
  BY <1>1 DEF br_table_branch
<1>3. Wrote /\ Woven(code', fs, goal', here') /\ Relinked(fs, value_stack)
  BY <1>1, <1>2, CaseLabelWrites
<1>4. value_stack' \in Stacks(Frame.height)
  BY <1>2, Basics
<1> QED BY <1>2, <1>3, <1>4, LabelGoesKept

(* The default label, with which a br_table ends.                          *)
LEMMA BrTableFinishKept ==
  ASSUME Ready, NEW l \in 0..(Len(frames) - 1), br_table_finish(l)
  PROVE  Kept
<1>1. PICK vs : vs = PopAll(value_stack, Result(LabelType(l)))
  OBVIOUS
<1>2. PICK fs : fs = Linked(l, here)
  OBVIOUS
<1>3. CaseLabel(l) /\ mark_unreachable(vs, fs) /\ status' = status /\ typing' = typing
  BY <1>1, <1>2 DEF br_table_finish
<1>4. vs \in Stacks(Frame.height) \cup {Invalid}
  BY <1>1, StackIs, LabelTypes, ResultsPopped
<1>5. Wrote /\ Woven(code', fs, goal', here') /\ Relinked(fs, value_stack)
  BY <1>2, <1>3, CaseLabelWrites
<1> QED BY <1>3, <1>4, <1>5, LabelDeadKept

-----------------------------------------------------------------------------
(* Handlers that leave a frame                                             *)

(* end, of a block: every branch of its chain, and no other, is patched.   *)
LEMMA ExitKept ==
  ASSUME Ready, exit_block
  PROVE  Kept
<1>1. PICK vs : vs = PopAll(value_stack, Result(Frame.out))
  OBVIOUS
<1>2. PICK ws : ws = PushAll(vs, Result(Frame.out))
  OBVIOUS
<1>3. PICK head : head = IF Frame.kind = "Loop" THEN SENTINEL ELSE Frame.target
  OBVIOUS
<1>4. PICK B : B = Frame.branches
  OBVIOUS
<1>5. /\ Len(frames) > 1 /\ push_stack(ws) /\ here' = here /\ typing' = typing /\ status' = status
      /\ code' = Patched(code, Chain(code, head), here)
      /\ goal' = Put(goal, B, here) /\ frames' = Front(frames)
  BY <1>1, <1>2, <1>3, <1>4 DEF exit_block, pop_control, Quiet
<1>6. /\ frames \in Seq(Frames) /\ frames # <<>> /\ Len(frames) <= body.frames /\ status = "compiling"
      /\ Len(frames) \in Nat \ {0} /\ DOMAIN frames = 1..Len(frames) /\ Frame = frames[Len(frames)]
      /\ Frame \in Frames /\ here \in Nat /\ here <= body.words /\ body.words \in Nat
      /\ Woven(code, frames, goal, here) /\ DOMAIN typing \subseteq DOMAIN code
      /\ body.frames \in Nat
  BY Basics DEF Ready, IInv
<1>7. Written(code, here) /\ Waits(code, Frame)
  <2>1. Len(frames) \in DOMAIN frames
    BY <1>6
  <2>2. Waits(code, frames[Len(frames)])
    BY <1>6, <2>1 DEF Woven
  <2> QED BY <1>6, <2>2 DEF Woven
<1>8. B \in SUBSET Labels(code) /\ Chained(code, B, head)
  BY <1>3, <1>4, <1>7 DEF Waits, Chained
<1>9. Chain(code, head) = B
  BY <1>6, <1>7, <1>8, ChainIsBranches
<1>10. /\ DOMAIN code' = DOMAIN code /\ Labels(code') = Labels(code)
       /\ \A a \in Labels(code) : code'[a].jump = IF a \in B THEN here - a ELSE code[a].jump
  BY <1>5, <1>6, <1>8, <1>9, PatchedLabels
<1>11. Woven(code', frames', goal', here')
  <2>1. B = Last(frames).branches
    BY <1>4 DEF Frame
  <2>2. Resolves(goal, goal', B, here)
    BY <1>5, PutResolves
  <2>3. Woven(code', Front(frames), goal', here)
    BY <1>6, <1>10, <2>1, <2>2, WovenShrinks
  <2> QED BY <1>5, <2>3
<1>12. ws \in Stacks(Frame.height) \cup {Invalid}
  <2>1. Frame.out \in Results
    BY <1>6, FrameFields
  <2>2. vs \in Stacks(Frame.height) \cup {Invalid}
    BY <1>1, <2>1, StackIs, ResultsPopped
  <2> QED BY <1>2, <2>1, <2>2, ResultsPushed
<1>13. Framed(frames, value_stack')
  BY <1>5, <1>12, PushedStack
<1>14. Framed(frames', value_stack') /\ frames' # <<>>
  BY <1>5, <1>13, FramedPop
<1>15. Len(frames') <= body.frames
  <2>1. Divides(frames, Front(frames), Last(frames), Frames)
    BY <1>6, FrontAndLast
  <2>2. Len(frames') = Len(frames) - 1
    BY <1>5, <2>1 DEF Divides
  <2> QED BY <1>6, <2>2
<1> QED BY <1>5, <1>6, <1>10, <1>11, <1>14, <1>15 DEF Kept

(* The last end: no label can be left waiting, the function has no chain.  *)
LEMMA FinishKept ==
  ASSUME Ready, finish
  PROVE  Kept
<1>1. PICK vs : vs = PopAll(value_stack, Result(Frame.out))
  OBVIOUS
<1>2. /\ Len(frames) = 1 /\ vs # Invalid /\ frames' = <<>> /\ value_stack' = vs
      /\ Instr("return", Arity(ReturnType), 1) /\ status' = "compiled" /\ goal' = goal
  BY <1>1 DEF finish
<1>3. Wrote /\ Woven(code', frames, goal, here')
  <2>1. 1 \in Nat \ {0}
    OBVIOUS
  <2> QED BY <1>2, <2>1, InstrWrites
<1>4. Frame \in Frames /\ DOMAIN frames = {1} /\ frames # <<>> /\ body.frames \in Nat
  BY <1>2, Basics
<1>5. vs \in Stacks(Frame.height)
  <2>1. Frame.out \in Results
    BY <1>4, FrameFields
  <2> QED BY <1>1, <1>2, <2>1, StackIs, ResultsPopped
<1>6. frames[1].branches = {}
  BY <1>4 DEF Ready, IInv, Framed
<1>7. Woven(code', <<>>, goal, here')
  <2>1. \A a : ~Awaited(frames, a) /\ ~Awaited(<<>>, a)
    BY <1>4, <1>6 DEF Awaited
  <2>2. \A a \in Labels(code') : a \in DOMAIN goal
    BY <1>3, <2>1 DEF Woven
  <2>3. DOMAIN <<>> = {}
    OBVIOUS
  <2> QED BY <1>3, <2>2, <2>3 DEF Woven
<1>8. Framed(<<>>, value_stack')
  <2>1. <<>> \in Seq(Frames) /\ DOMAIN <<>> = {}
    OBVIOUS
  <2>2. vs \in Seq(Types) /\ Len(vs) <= MaxStackDepth
    BY <1>5 DEF Stacks
  <2> QED BY <1>2, <2>1, <2>2 DEF Framed
<1>9. Len(<<>>) <= body.frames
  BY <1>4
<1> QED BY <1>2, <1>3, <1>7, <1>8, <1>9 DEF Kept, Wrote

(* else: a new label joins the chain of the if, whose oldest, the false    *)
(* branch, is patched; the others wait for the end of the else arm.        *)
LEMMA ElseKept ==
  ASSUME Ready, else_
  PROVE  Kept
<1>1. PICK site : site = here + 1
  OBVIOUS
<1>2. PICK c1 : c1 = Put(code, {here}, Op("br", None))
  OBVIOUS
<1>3. PICK c2 : c2 = Put(c1, {site}, LabelAt(0, site, value_stack))
  OBVIOUS
<1>4. PICK C : C = Chain(c2, site)
  OBVIOUS
<1>5. PICK t : t = FalseBranch(c2, C)
  OBVIOUS
<1>6. PICK vs : vs = PopAll(value_stack, Result(Frame.out))
  OBVIOUS
<1>7. PICK pc0 : pc0 = here + 3
  OBVIOUS
<1>8. PICK f : f = [ControlFrame("Block", Frame.out, Frame.out, vs, site,
                        (Frame.branches \ {t}) \cup {site}) EXCEPT !.start = pc0]
  OBVIOUS
<1>9. /\ Frame.kind = "If" /\ vs # Invalid /\ Len(vs) = Frame.height /\ Advance(3)
      /\ code' = PatchedIf(c2, C, pc0) /\ goal' = Put(goal, {t}, pc0)
      /\ push_control(Front(frames), f) /\ value_stack' = vs /\ Validated /\ status' = status
  BY <1>1, <1>2, <1>3, <1>4, <1>5, <1>6, <1>7, <1>8 DEF else_, Quiet
<1>10. /\ frames \in Seq(Frames) /\ frames # <<>> /\ Len(frames) <= body.frames /\ status = "compiling"
      /\ Len(frames) \in Nat \ {0} /\ DOMAIN frames = 1..Len(frames) /\ Frame = frames[Len(frames)]
      /\ Frame \in Frames /\ here \in Nat
      /\ Woven(code, frames, goal, here) /\ body.frames \in Nat /\ Framed(frames, value_stack)
  BY Basics DEF Ready, IInv
<1>11. Len(frames) > 1
  BY <1>9, <1>10 DEF Framed
<1>12. site \in Nat /\ pc0 \in Nat /\ here' = pc0 /\ site + 1 \in Nat /\ site + 1 <= pc0
  BY <1>1, <1>7, <1>9, <1>10 DEF Advance
<1>13. Woven(c1, frames, goal, site)
  BY <1>1, <1>2, <1>10, WovenOp
<1> PICK k : k = Len(frames)
  OBVIOUS
<1>14. Index(0) = k /\ ~IsFunction(0) /\ IsForward(0) /\ 0 \in 0..(Len(frames) - 1)
  BY <1>9, <1>10, <1>11 DEF Index, IsFunction, IsForward
<1>15. PICK ls : ls = [frames EXCEPT ![k].target = site, ![k].branches = @ \cup {site}]
  OBVIOUS
<1>16. Linked(0, site) = ls /\ GoalOf(0, site) = goal
  BY <1>9, <1>10, <1>14, <1>15 DEF Linked, GoalOf, IsLoop
<1>17. Woven(c2, ls, goal, site + 1)
  <2>1. ASSUME NEW l \in 0..(Len(frames) - 1), NEW d, d = Put(c1, {site}, LabelAt(l, site, value_stack)),
               NEW fs, fs = Linked(l, site), NEW g, g = GoalOf(l, site)
        PROVE  Woven(d, fs, g, site + 1)
    <3>1. Woven(Put(c1, {site}, LabelAt(l, site, value_stack)), Linked(l, site), GoalOf(l, site), site + 1)
      BY <1>12, <1>13, LabelWoven
    <3> QED BY <2>1, <3>1, Zenon
  <2>2. PICK l : l = 0
    OBVIOUS
  <2>3. l \in 0..(Len(frames) - 1) /\ c2 = Put(c1, {site}, LabelAt(l, site, value_stack))
        /\ ls = Linked(l, site) /\ goal = GoalOf(l, site)
    BY <1>3, <1>14, <1>16, <2>2
  <2> QED BY <2>1, <2>3, Zenon
<1>18. Links(frames, ls, k, site)
  <2>1. ASSUME NEW fs \in Seq(Frames), NEW i \in DOMAIN fs, NEW n \in Nat, NEW gs,
               gs = [fs EXCEPT ![i].target = n, ![i].branches = @ \cup {n}]
        PROVE  Links(fs, gs, i, n)
    <3>1. Links(fs, [fs EXCEPT ![i].target = n, ![i].branches = @ \cup {n}], i, n)
      BY LinkedFrames
    <3> QED BY <2>1, <3>1
  <2>2. frames \in Seq(Frames) /\ k \in DOMAIN frames
    BY <1>10
  <2> QED BY <1>12, <1>15, <2>1, <2>2
<1>19. PICK B : B = Frame.branches \cup {site}
  OBVIOUS
<1>20. /\ ls \in Seq(Frames) /\ Len(ls) = k /\ k \in DOMAIN ls /\ ls # <<>>
       /\ ls[k].kind = "If" /\ ls[k].target = site /\ ls[k].branches = B
  BY <1>9, <1>10, <1>18, <1>19 DEF Links
<1>21. Written(c2, site + 1) /\ Waits(c2, ls[k])
  BY <1>17, <1>20 DEF Woven
<1>22. B \in SUBSET Labels(c2) /\ Chained(c2, B, site)
  BY <1>20, <1>21 DEF Waits
<1>23. C = B
  BY <1>4, <1>12, <1>21, <1>22, ChainIsBranches
<1>24. Oldest(c2, B, t)
  BY <1>5, <1>12, <1>19, <1>21, <1>22, <1>23, TailIsOldest
<1>25. t # site
  <2>1. Waits(code, Frame) /\ Written(code, here)
    BY <1>10 DEF Woven
  <2>2. PICK b \in Frame.branches : b \in Labels(code)
    BY <1>9, <2>1 DEF Waits
  <2>3. b \in Nat /\ b < site
    BY <1>1, <1>10, <2>1, <2>2, LabelsAre
  <2>4. t <= b
    BY <1>19, <1>24, <2>2 DEF Oldest
  <2> QED BY <1>12, <2>3, <2>4
<1>26. t \in B /\ FalseBranch(c2, B) = t
  BY <1>5, <1>23, <1>24 DEF Oldest
<1>27. /\ DOMAIN code' = DOMAIN c2 /\ Labels(code') = Labels(c2)
       /\ \A a \in Labels(c2) : code'[a].jump = IF a = t THEN pc0 - t
                ELSE IF a \in B /\ a + c2[a].jump = t THEN 0 ELSE c2[a].jump
  BY <1>9, <1>12, <1>21, <1>22, <1>23, <1>26, PatchedIfLabels
<1>28. Resolves(goal, goal', {t}, pc0)
  BY <1>9, PutResolves
<1>29. vs \in Stacks(Frame.height)
  <2>1. Frame.out \in Results
    BY <1>10, FrameFields
  <2> QED BY <1>6, <1>9, <2>1, StackIs, ResultsPopped
<1>30. IsFrame(f, "Block", Frame.out, Frame.out, Len(vs), site, B \ {t}, pc0)
  <2>1. (Frame.branches \ {t}) \cup {site} = B \ {t}
    BY <1>19, <1>25
  <2>2. Frame.out \in Results /\ Frame.branches \in SUBSET Nat /\ Len(vs) \in Nat
    BY <1>9, <1>10, FrameFields
  <2>3. B \ {t} \in SUBSET Nat /\ "Block" \in {"Block", "Loop", "If"} /\ site \in Int
    BY <1>12, <1>19, <2>2
  <2>4. PICK o : o = Frame.out
    OBVIOUS
  <2>5. IsFrame(ControlFrame("Block", o, o, vs, site, B \ {t}), "Block", o, o, Len(vs), site, B \ {t}, here)
    BY <1>10, <2>2, <2>3, <2>4, NewFrame
  <2>6. IsFrame([ControlFrame("Block", o, o, vs, site, B \ {t}) EXCEPT !.start = pc0],
                "Block", o, o, Len(vs), site, B \ {t}, pc0)
    BY <1>12, <2>5, FrameStart
  <2> QED BY <1>8, <2>1, <2>4, <2>6
<1>31. f \in Frames /\ f.kind = "Block" /\ f.height = Len(vs) /\ f.target = site /\ f.branches = B \ {t}
  BY <1>30 DEF IsFrame
<1>32. frames' = Append(Front(frames), f) /\ Len(Front(frames)) < body.frames
  BY <1>9 DEF push_control
<1>33. Divides(frames, Front(frames), Frame, Frames)
  BY <1>10, FrontAndLast DEF Frame
<1>34. ASSUME NEW gs, Divides(frames, gs, Frame, Frames), Len(gs) < body.frames
       PROVE  /\ Replaces(ls, Append(gs, f), f) /\ Len(Append(gs, f)) <= body.frames
              /\ Append(gs, f) # <<>>
  <2>1. /\ gs \in Seq(Frames) /\ Len(gs) = k - 1 /\ DOMAIN frames = DOMAIN gs \cup {k}
        /\ \A i \in DOMAIN gs : gs[i] = frames[i]
    BY <1>34 DEF Divides
  <2>2. PICK hs : hs = Append(gs, f)
    OBVIOUS
  <2>3. /\ hs \in Seq(Frames) /\ Len(hs) = k /\ hs[k] = f /\ hs # <<>>
        /\ \A i \in DOMAIN gs : hs[i] = frames[i]
    BY <1>10, <1>31, <2>1, <2>2, AppendProperties
  <2>4. DOMAIN ls = DOMAIN frames
    BY <1>10, <1>20
  <2>5. \A i \in DOMAIN ls : i # k => /\ hs[i].kind = ls[i].kind /\ hs[i].target = ls[i].target
                                      /\ hs[i].branches = ls[i].branches /\ hs[i].start = ls[i].start
    BY <1>18, <2>1, <2>3, <2>4 DEF Links
  <2>6. Replaces(ls, hs, f)
    BY <1>20, <2>3, <2>5 DEF Replaces
  <2>7. Len(hs) <= body.frames
    BY <1>10, <2>3
  <2> QED BY <2>2, <2>3, <2>6, <2>7
<1>35. Replaces(ls, frames', f) /\ Len(frames') <= body.frames /\ frames' # <<>>
  BY <1>32, <1>33, <1>34, Zenon
<1>36. Woven(code', frames', goal', site + 1)
  <2>1. PICK m \in Nat : m = site + 1
    BY <1>12
  <2>2. Woven(c2, ls, goal, m)
    BY <1>17, <2>1
  <2>3. PICK d : d = code'
    OBVIOUS
  <2>4. PICK gs : gs = frames'
    OBVIOUS
  <2>5. PICK h : h = goal'
    OBVIOUS
  <2>6. /\ DOMAIN d = DOMAIN c2 /\ Labels(d) = Labels(c2)
        /\ \A a \in Labels(c2) : d[a].jump = IF a = t THEN pc0 - t
                ELSE IF a \in B /\ a + c2[a].jump = t THEN 0 ELSE c2[a].jump
    BY <1>27, <2>3
  <2>7. Resolves(goal, h, {t}, pc0) /\ Replaces(ls, gs, f)
    BY <1>28, <1>35, <2>4, <2>5
  <2>8. /\ ls \in Seq(Frames) /\ ls # <<>>
        /\ ls[Len(ls)].kind # "Loop" /\ ls[Len(ls)].branches = B /\ ls[Len(ls)].target = site
    BY <1>20
  <2>9. site # t /\ pc0 \in Nat /\ f.kind = "Block" /\ f.target = site /\ f.branches = B \ {t}
    BY <1>12, <1>25, <1>31
  <2>10. Hands(c2, d, ls, f, B, t, pc0, site)
    BY <1>24, <2>6, <2>8, <2>9 DEF Hands
  <2>11. Woven(d, gs, h, m)
    BY <2>2, <2>7, <2>10, WovenElse
  <2> QED BY <2>1, <2>3, <2>4, <2>5, <2>11
<1>37. Woven(code', frames', goal', here')
  BY <1>12, <1>36, WovenMore
<1>38. Framed(frames', value_stack')
  <2>1. Framed(frames, vs)
    BY <1>10, <1>29, FramedStack DEF Frame
  <2>2. Framed(Front(frames), vs) /\ Front(frames) # <<>>
    BY <1>11, <2>1, FramedPop
  <2> QED BY <1>9, <1>31, <1>32, <2>2, FramedPush
<1>39. Wrote
  <2>1. DOMAIN code' = DOMAIN c1 \cup {site} /\ DOMAIN c1 = DOMAIN code \cup {here}
    BY <1>2, <1>3, <1>27 DEF Put
  <2>2. here \in DOMAIN code' /\ DOMAIN code \subseteq DOMAIN code' /\ 3 \in Nat
    BY <2>1
  <2> QED BY <1>9, <2>2, Writes
<1> QED BY <1>9, <1>10, <1>35, <1>37, <1>38, <1>39 DEF Kept, Wrote

-----------------------------------------------------------------------------
(* The theorems                                                            *)

(* The body starts with the frame of the function and no code.             *)
LEMMA InitIs ==
  ASSUME Init
  PROVE  IInv
<1>1. PICK f : f = [kind |-> "Block", label |-> ReturnType, out |-> ReturnType,
                    height |-> 0, target |-> SENTINEL, unreachable |-> FALSE,
                    branches |-> {}, start |-> 0]
  OBVIOUS
<1>2. /\ body \in Bodies /\ here = 0 /\ code = <<>> /\ frames = <<f>> /\ value_stack = <<>>
      /\ status = "compiling" /\ goal = <<>> /\ typing = <<>> /\ state = "idle"
  BY <1>1 DEF Init, CompilerInit
<1>3. /\ f \in Frames /\ f.kind = "Block" /\ f.height = 0 /\ f.branches = {} /\ f.target = SENTINEL
  BY <1>1, CompilerAssumption DEF Frames, Results, SENTINEL
<1>4. /\ frames \in Seq(Frames) /\ Len(frames) = 1 /\ DOMAIN frames = {1} /\ frames[1] = f /\ frames # <<>>
  BY <1>2, <1>3
<1>5. body.words \in Nat /\ body.frames \in Nat \ {0} /\ MaxStackDepth \in Nat
  BY <1>2, CompilerAssumption
<1>6. value_stack \in Seq(Types) /\ Len(value_stack) = 0
  BY <1>2
<1>7. DOMAIN code = {} /\ DOMAIN goal = {} /\ DOMAIN typing = {}
  BY <1>2
<1>8. TypeOK
  <2>1. here \in 0..body.words /\ DOMAIN code \subseteq 0..(body.words - 1) /\ Len(frames) <= body.frames
    BY <1>2, <1>4, <1>5, <1>7
  <2>2. \A i \in DOMAIN frames : frames[i].kind \in {"Block", "Loop", "If"}
    BY <1>3, <1>4
  <2>3. value_stack \in Seq(ValType \cup {Unknown}) /\ Len(value_stack) <= MaxStackDepth
    BY <1>5, <1>6 DEF Types
  <2> QED BY <1>2, <1>7, <2>1, <2>2, <2>3 DEF TypeOK
<1>9. Framed(frames, value_stack)
  BY <1>3, <1>4, <1>5, <1>6 DEF Framed
<1>10. Labels(code) = {}
  BY <1>7 DEF Labels
<1>11. Woven(code, frames, goal, here)
  <2>1. Written(code, here)
    BY <1>7, <1>10 DEF Written
  <2>2. Waits(code, f)
    BY <1>3, <1>10 DEF Waits, Chained
  <2>3. Settled(code, goal)
    BY <1>7 DEF Settled
  <2> QED BY <1>4, <1>7, <1>10, <2>1, <2>2, <2>3 DEF Woven
<1> QED BY <1>2, <1>4, <1>8, <1>9, <1>11 DEF IInv

(* Every handler.                                                          *)
LEMMA HandlerKept ==
  ASSUME IInv, Handle
  PROVE  Kept
<1>1. Ready
  BY DEF Handle, Visiting, Ready
<1>2. CASE \E o \in Ops : op(o)
  BY <1>1, <1>2, OpKept
<1>3. CASE drop
  BY <1>1, <1>3, DropKept
<1>4. CASE select
  BY <1>1, <1>4, SelectKept
<1>5. CASE unreachable
  BY <1>1, <1>5, UnreachableKept
<1>6. CASE return_
  BY <1>1, <1>6, ReturnKept
<1>7. CASE \E rt \in body.types : enter_block(rt)
  BY <1>1, <1>7, EnterBlockKept
<1>8. CASE \E rt \in body.types : loop_(rt)
  BY <1>1, <1>8, LoopKept
<1>9. CASE \E rt \in body.types : if_(rt)
  BY <1>1, <1>9, IfKept
<1>10. CASE else_
  BY <1>1, <1>10, ElseKept
<1>11. CASE exit_block
  BY <1>1, <1>11, ExitKept
<1>12. CASE finish
  BY <1>1, <1>12, FinishKept
<1>13. CASE \E l \in 0..(Len(frames) - 1) : br(l)
  BY <1>1, <1>13, BrKept
<1>14. CASE \E l \in 0..(Len(frames) - 1) : br_if(l)
  BY <1>1, <1>14, BrIfKept
<1>15. CASE \E n \in 0..MaxCases : br_table_start(n)
  BY <1>1, <1>15, BrTableStartKept
<1>16. CASE \E l \in 0..(Len(frames) - 1) : br_table_branch(l)
  BY <1>1, <1>16, BrTableBranchKept
<1>17. CASE \E l \in 0..(Len(frames) - 1) : br_table_finish(l)
  BY <1>1, <1>17, BrTableFinishKept
<1> QED
  BY <1>2, <1>3, <1>4, <1>5, <1>6, <1>7, <1>8, <1>9, <1>10, <1>11, <1>12, <1>13, <1>14, <1>15,
     <1>16, <1>17, Zenon DEF Handle

(* What a step that compiles leaves is the invariant again.                *)
LEMMA CompileKept ==
  ASSUME IInv, Compile, state' \in {"idle", "running", "returned", "trapped"}
  PROVE  IInv'
<1>1. Kept /\ body' = body /\ body \in Bodies
  BY HandlerKept DEF Compile, IInv, TypeOK
<1>2. body.words \in Nat
  BY <1>1, CompilerAssumption
<1>3. /\ here' \in 0..body.words /\ Len(frames') <= body.frames /\ DOMAIN typing' \subseteq DOMAIN code'
      /\ Framed(frames', value_stack') /\ Woven(code', frames', goal', here')
      /\ status' \in {"compiling", "compiled"} /\ (status' = "compiling" <=> frames' # <<>>)
  BY <1>1 DEF Kept
<1>4. DOMAIN code' \subseteq 0..(body.words - 1)
  <2>1. DOMAIN code' \subseteq 0..(here' - 1)
    BY <1>3 DEF Woven, Written
  <2> QED BY <1>2, <1>3, <2>1
<1>5. \A i \in DOMAIN frames' : frames'[i].kind \in {"Block", "Loop", "If"}
  <2>1. frames' \in Seq(Frames)
    BY <1>3 DEF Framed
  <2>2. \A i \in DOMAIN frames' : frames'[i] \in Frames
    BY <2>1, SeqDomain, ElementOfSeq
  <2>3. \A f \in Frames : f.kind \in {"Block", "Loop", "If"}
    BY FrameFields
  <2> QED BY <2>2, <2>3
<1>6. value_stack' \in Seq(ValType \cup {Unknown}) /\ Len(value_stack') <= MaxStackDepth
  BY <1>3 DEF Framed, Types
<1>7. DOMAIN goal' \subseteq Labels(code')
  BY <1>3 DEF Woven
<1>8. TypeOK'
  BY <1>1, <1>3, <1>4, <1>5, <1>6, <1>7 DEF TypeOK
<1> QED BY <1>3, <1>8 DEF IInv

(* A step of the compiler, or of the run, which changes no code.           *)
LEMMA NextKept ==
  ASSUME IInv, [Next]_vars
  PROVE  IInv'
<1>1. state \in {"idle", "running", "returned", "trapped"}
  BY DEF IInv, TypeOK
<1>2. CASE Compile /\ UNCHANGED rvars
  <2>1. state' = state
    BY <1>2 DEF rvars
  <2> QED BY <1>1, <1>2, <2>1, CompileKept
<1>3. CASE UNCHANGED cvars /\ state' \in {"idle", "running", "returned", "trapped"}
  <2>1. /\ body' = body /\ here' = here /\ code' = code /\ frames' = frames
        /\ value_stack' = value_stack /\ status' = status /\ goal' = goal /\ typing' = typing
    BY <1>3 DEF cvars
  <2>2. TypeOK'
    BY <1>3, <2>1 DEF IInv, TypeOK
  <2> QED BY <2>1, <2>2 DEF IInv
<1>4. CASE Execute
  <2>1. state' \in {"idle", "running", "returned", "trapped"}
    BY <1>1, <1>4 DEF Execute, Invoke, Operate, DropOperand, Select, Unreachable, If, Br, BrIf,
       BrTable, ReturnInstr, br_impl, Return
  <2> QED BY <1>3, <1>4, <2>1 DEF Execute
<1>5. CASE UNCHANGED vars
  BY <1>1, <1>3, <1>5 DEF vars, rvars
<1> QED BY <1>2, <1>4, <1>5 DEF Next

(* The invariant holds.                                                    *)
LEMMA CompiledInvariant == Spec => []IInv
BY InitIs, NextKept, PTL DEF Spec

(* Code, frames, operands and history are within their bounds throughout:  *)
(* a body never outgrows its pages, its frames or the stack (TextBuilder,  *)
(* ControlFrame).                                                          *)
THEOREM CompiledTypes == Spec => []TypeOK
<1>1. IInv => TypeOK
  BY DEF IInv
<1> QED BY <1>1, CompiledInvariant, PTL

(* While a body is compiled, the labels that branch to the end of an open  *)
(* block are exactly those its chain links (write_label_target, backpatch, *)
(* pop_control_and_patch_if), for every body, whatever its length and      *)
(* nesting.                                                                *)
THEOREM CompiledPendingBranchesLinked == Spec => []PendingBranchesLinked
<1>1. IInv => PendingBranchesLinked
  <2>1. ASSUME IInv, NEW i \in DOMAIN frames, frames[i].kind # "Loop"
        PROVE  Chain(code, frames[i].target) = frames[i].branches
    <3>1. Waits(code, frames[i]) /\ Written(code, here)
      BY <2>1 DEF IInv, Woven
    <3>2. PICK B : B = frames[i].branches
      OBVIOUS
    <3>3. B \in SUBSET Labels(code) /\ Chained(code, B, frames[i].target) /\ here \in Nat
      <4>1. here \in Nat
        BY <2>1 DEF IInv, TypeOK
      <4> QED BY <2>1, <3>1, <3>2, <4>1 DEF Waits
    <3> QED BY <3>1, <3>2, <3>3, ChainIsBranches
  <2> QED BY <2>1 DEF PendingBranchesLinked, IInv
<1> QED BY <1>1, CompiledInvariant, PTL

(* Every resolved label leads to the end, the start or the else arm it     *)
(* named, and a body that is accepted has no label left to be patched      *)
(* (CodeBuilder::backpatch).                                               *)
THEOREM CompiledBranchesReachTheirBlock == Spec => []BranchesReachTheirBlock
<1>1. IInv => BranchesReachTheirBlock
  <2> SUFFICES ASSUME IInv PROVE BranchesReachTheirBlock
    OBVIOUS
  <2>1. Settled(code, goal) /\ DOMAIN goal \subseteq Labels(code)
        /\ \A a \in Labels(code) : a \in DOMAIN goal \/ Awaited(frames, a)
    BY DEF IInv, Woven
  <2>2. ASSUME status = "compiled" PROVE Labels(code) = DOMAIN goal
    <3>1. frames = <<>>
      BY <2>2 DEF IInv
    <3>2. DOMAIN frames = {}
      BY <3>1
    <3>3. \A a : ~Awaited(frames, a)
      BY <3>2 DEF Awaited
    <3> QED BY <2>1, <3>3
  <2> QED BY <2>1, <2>2 DEF Settled, BranchesReachTheirBlock
<1> QED BY <1>1, CompiledInvariant, PTL
=============================================================================
