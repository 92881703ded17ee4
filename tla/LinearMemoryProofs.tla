------------------------- MODULE LinearMemoryProofs -------------------------
(***************************************************************************)
(* Proofs about LinearMemory, for any number of modules, memories and      *)
(* references: the counts of Rc are exact, so that no reference outlives   *)
(* its memory and none moves while host code holds it; every memory has a  *)
(* block of its own as long as its size, within the limits its importers   *)
(* were linked by; and what guests and hosts see of the bytes is what      *)
(* ByteMemory promises.                                                    *)
(***************************************************************************)
EXTENDS LinearMemory, SequenceTheorems, WellFoundedInduction, TLAPS

-----------------------------------------------------------------------------
(* Induction and recursion over the natural numbers, with sets in the      *)
(* place of predicates and functions in that of operators: what the proofs *)
(* about the byte order of memories rest on.                               *)

(* Every set of numbers that is not empty has a least one.                 *)
LEMMA LeastNumber ==
  ASSUME NEW S \in SUBSET Nat, S # {}
  PROVE  \E x \in S : \A y \in S : x <= y
<1> DEFINE R == {ss \in Nat \X Nat : ss[1] < ss[2]}
<1>1. IsWellFoundedOn(R, Nat)
  BY NatLessThanWellFounded DEF OpToRel
<1>2. \A x, y \in Nat : <<y, x>> \notin R => x <= y
  OBVIOUS
<1> HIDE DEF R
<1>3. PICK x \in S : \A y \in S : <<y, x>> \notin R
  BY <1>1, WFMin
<1>4. \A y \in S : x <= y
  BY <1>2, <1>3, S \subseteq Nat, Zenon
<1> QED BY <1>4

(* A set that has 0 and, with each number, the next one has them all.      *)
LEMMA SetInduction ==
  ASSUME NEW S, 0 \in S, \A n \in Nat : n \in S => n + 1 \in S
  PROVE  Nat \subseteq S
<1> SUFFICES ASSUME Nat \ S # {} PROVE FALSE
  OBVIOUS
<1>1. PICK x \in Nat \ S : \A y \in Nat \ S : x <= y
  BY LeastNumber
<1>2. x # 0 /\ x - 1 \in Nat /\ ~(x <= x - 1)
  BY <1>1
<1>3. x - 1 \in S
  BY <1>1, <1>2
<1> QED BY <1>1, <1>2, <1>3

(* The first n values of the function that starts at a and steps by F.     *)
Begins(V, a, F, n) ==
  {g \in [0..n -> V] : g[0] = a /\ \A k \in 0..(n - 1) : g[k + 1] = F[<<k, g[k]>>]}

(* Two beginnings agree as far as both go.                                 *)
LEMMA BeginningsAgree ==
  ASSUME NEW V, NEW a, NEW F, NEW n \in Nat, NEW m \in Nat,
         NEW g \in Begins(V, a, F, n), NEW h \in Begins(V, a, F, m), n <= m
  PROVE  g[n] = h[n]
<1> DEFINE S == {k \in Nat : k <= n => g[k] = h[k]}
<1>1. 0 \in S
  BY DEF Begins
<1>2. ASSUME NEW k \in Nat, k \in S PROVE k + 1 \in S
  <2>1. CASE k + 1 <= n
    <3>1. k \in 0..(n - 1) /\ k \in 0..(m - 1) /\ k <= n
      BY <2>1
    <3>2. g[k + 1] = F[<<k, g[k]>>] /\ h[k + 1] = F[<<k, h[k]>>]
      BY <3>1 DEF Begins
    <3> QED BY <1>2, <3>1, <3>2
  <2> QED BY <2>1
<1> HIDE DEF S
<1>3. n \in S
  BY <1>1, <1>2, SetInduction
<1> QED BY <1>3 DEF S

(* There are beginnings of every length.                                   *)
LEMMA Beginnings ==
  ASSUME NEW V, NEW a \in V, NEW F \in [Nat \X V -> V]
  PROVE  \A n \in Nat : Begins(V, a, F, n) # {}
<1> DEFINE S == {n \in Nat : Begins(V, a, F, n) # {}}
<1>1. 0 \in S
  <2>1. [k \in 0..0 |-> a] \in Begins(V, a, F, 0)
    BY DEF Begins
  <2> QED BY <2>1
<1>2. ASSUME NEW n \in Nat, n \in S PROVE n + 1 \in S
  <2>1. PICK g : g \in Begins(V, a, F, n)
    BY <1>2
  <2>2. /\ g \in [0..n -> V] /\ g[0] = a
        /\ \A k \in 0..(n - 1) : g[k + 1] = F[<<k, g[k]>>]
    BY <2>1 DEF Begins
  <2> DEFINE h == [k \in 0..(n + 1) |-> IF k <= n THEN g[k] ELSE F[<<n, g[n]>>]]
  <2>3. g[n] \in V /\ F[<<n, g[n]>>] \in V
    BY <2>2
  <2>4. h \in [0..(n + 1) -> V]
    BY <2>2, <2>3
  <2>5. h[0] = a
    BY <2>2
  <2>6. ASSUME NEW k \in 0..n PROVE h[k + 1] = F[<<k, h[k]>>]
    <3>1. CASE k = n
      BY <3>1
    <3>2. CASE k # n
      <4>1. k \in 0..(n - 1) /\ k + 1 <= n /\ k <= n
        BY <3>2
      <4> QED BY <2>2, <4>1
    <3> QED BY <3>1, <3>2
  <2> HIDE DEF h
  <2>7. (n + 1) - 1 = n
    OBVIOUS
  <2>8. h \in Begins(V, a, F, n + 1)
    BY <2>4, <2>5, <2>6, <2>7 DEF Begins
  <2> QED BY <2>8
<1> HIDE DEF S
<1>3. Nat \subseteq S
  BY <1>1, <1>2, SetInduction
<1> QED BY <1>3 DEF S

(* Primitive recursion defines a function. *)
Recursive(V, a, F) ==
  {f \in [Nat -> V] : f[0] = a /\ \A n \in Nat : f[n + 1] = F[<<n, f[n]>>]}

(* There is a function that starts at a and steps by F.                    *)
LEMMA Recursion ==
  ASSUME NEW V, NEW a \in V, NEW F \in [Nat \X V -> V]
  PROVE  Recursive(V, a, F) # {}
<1> DEFINE g(n) == CHOOSE g \in Begins(V, a, F, n) : TRUE
           f == [n \in Nat |-> g(n)[n]]
<1>1. \A n \in Nat : g(n) \in Begins(V, a, F, n)
  BY Beginnings
<1> HIDE DEF g
<1>2. \A n \in Nat : g(n) \in [0..n -> V] /\ g(n)[n] \in V
  BY <1>1 DEF Begins
<1>3. f \in [Nat -> V]
  BY <1>2
<1>4. f[0] = a
  BY <1>1 DEF Begins
<1>5. ASSUME NEW n \in Nat PROVE f[n + 1] = F[<<n, f[n]>>]
  <2>1. g(n) \in Begins(V, a, F, n) /\ g(n + 1) \in Begins(V, a, F, n + 1) /\ n \in 0..((n + 1) - 1)
    BY <1>1
  <2>2. g(n + 1)[n + 1] = F[<<n, g(n + 1)[n]>>]
    BY <2>1 DEF Begins
  <2>3. g(n)[n] = g(n + 1)[n]
    <3>1. n <= n + 1 /\ n + 1 \in Nat
      OBVIOUS
    <3>2. PICK m \in Nat : m = n + 1 /\ n <= m
      BY <3>1
    <3>3. ASSUME NEW h \in Begins(V, a, F, n), NEW k \in Begins(V, a, F, m) PROVE h[n] = k[n]
      BY <3>2, BeginningsAgree
    <3> QED BY <2>1, <3>2, <3>3
  <2> QED BY <2>2, <2>3
<1> HIDE DEF f
<1>6. f \in Recursive(V, a, F)
  BY <1>3, <1>4, <1>5 DEF Recursive
<1> QED BY <1>6

(* Division with remainder.                                                *)
LEMMA Quotient ==
  ASSUME NEW x \in Nat, NEW y \in Nat \ {0}
  PROVE  x \div y \in Nat /\ x % y \in 0..(y - 1) /\ x = (x \div y) * y + (x % y)
<1> DEFINE S == {n \in Nat : \E q \in Nat, r \in 0..(y - 1) : n = q * y + r}
<1>1. 0 \in S
  <2>1. 0 = 0 * y + 0 /\ 0 \in 0..(y - 1)
    OBVIOUS
  <2> QED BY <2>1
<1>2. ASSUME NEW n \in Nat, n \in S PROVE n + 1 \in S
  <2>1. PICK q \in Nat, r \in 0..(y - 1) : n = q * y + r
    BY <1>2
  <2>2. CASE r < y - 1
    <3>1. r + 1 \in 0..(y - 1) /\ n + 1 = q * y + (r + 1)
      BY <2>1, <2>2
    <3> QED BY <3>1
  <2>3. CASE r = y - 1
    <3>1. (q + 1) * y = q * y + y
      OBVIOUS
    <3>2. q * y \in Nat
      OBVIOUS
    <3>3. PICK z \in 0..(y - 1) : z = 0
      OBVIOUS
    <3>4. n + 1 = (q + 1) * y + z /\ q + 1 \in Nat /\ n + 1 \in Nat
      BY <2>1, <2>3, <3>1, <3>2, <3>3
    <3> QED BY <3>4, Zenon
  <2> QED BY <2>2, <2>3
<1> HIDE DEF S
<1>3. Nat \subseteq S
  BY <1>1, <1>2, SetInduction
<1>4. PICK q \in Nat, r \in 0..(y - 1) : x = q * y + r
  BY <1>3 DEF S
<1>5. ((q * y + r) \div y) = q /\ ((q * y + r) % y) = r
  OBVIOUS
<1>6. (x \div y) = q /\ (x % y) = r
  BY <1>4, <1>5
<1> QED BY <1>4, <1>6

(* The remainder of a small negative number.                               *)
LEMMA ModuloBelow ==
  ASSUME NEW z \in Int, NEW y \in Nat \ {0}, -y <= z, z < 0
  PROVE  z % y = z + y
OBVIOUS

-----------------------------------------------------------------------------
(* The references and their counts                                         *)

Memory == [ptr : Blocks \cup {Null}, size : Nat]

(* What a store keeps together: the memories of the modules it has, and of *)
(* the one it is reading, whose own memory no other module has yet.        *)
Linked ==
  /\ engine # Gone => NoMemory \in store
  /\ \A m \in loaded : MemoryOf[m] \in store
  /\ module # None => module \in loaded
  /\ load # None =>
       /\ MemoryOf[load] \in store
       /\ \A m \in loaded : MemoryOf[m] # NoMemory => Owner[MemoryOf[m]] # load

Types ==
  /\ mem \in [Memories -> Memory \cup {Dropped}]
  /\ count \in [AllMemories -> 0..(CountLimit - 1)]
  /\ held \in [AllMemories -> Nat]
  /\ store \subseteq AllMemories
  /\ engine \in AllMemories \cup {Gone}
  /\ loaded \subseteq Modules
  /\ load \in Modules \cup {None} /\ module \in Modules \cup {None}
  /\ panicked \in BOOLEAN

(* A panic ends the process: it leaves a count that has wrapped. *)
Running == Types /\ Linked /\ ReferencesCounted
IInv == ReferencesCounted /\ (~panicked => Running)

-----------------------------------------------------------------------------
(* Counting *)

LEMMA Distinct ==
  /\ Gone \notin AllMemories /\ None \notin Modules /\ NoMemory \in AllMemories
  /\ Memories \subseteq AllMemories /\ NoMemory \notin Memories
  /\ \A o \in AllMemories : o # NoMemory => o \in Memories
  /\ Dropped \notin Memory
  /\ \A m \in Modules : MemoryOf[m] \in AllMemories
BY MemoryAssumption DEF AllMemories, Memory

LEMMA Incremented ==
  ASSUME NEW c \in [AllMemories -> 0..(CountLimit - 1)], NEW o \in AllMemories
  PROVE  /\ inc(c, o) \in [AllMemories -> 0..(CountLimit - 1)]
         /\ \A p \in AllMemories : p # o => inc(c, o)[p] = c[p]
         /\ inc(c, o)[o] # 0 => inc(c, o)[o] = c[o] + 1
         /\ c[o] + 1 < CountLimit => inc(c, o)[o] # 0
<1>1. \A x \in 0..(CountLimit - 1) :
        (x + 1) % CountLimit = IF x + 1 < CountLimit THEN x + 1 ELSE 0
  <2>1. CountLimit \in Nat /\ CountLimit > 2
    BY MemoryAssumption
  <2> QED BY <2>1
<1>2. c[o] \in 0..(CountLimit - 1) /\ inc(c, o)[o] = (c[o] + 1) % CountLimit
  BY DEF inc
<1>3. PICK x \in 0..(CountLimit - 1) : x = c[o]
  BY <1>2
<1>4. (x + 1) % CountLimit \in 0..(CountLimit - 1)
  BY <1>1, MemoryAssumption
<1>5. inc(c, o) \in [AllMemories -> 0..(CountLimit - 1)]
  BY <1>3, <1>4 DEF inc
<1>6. \A p \in AllMemories : p # o => inc(c, o)[p] = c[p]
  BY DEF inc
<1> QED BY <1>1, <1>2, <1>3, <1>5, <1>6, MemoryAssumption

LEMMA Decremented ==
  ASSUME NEW c \in [AllMemories -> 0..(CountLimit - 1)], NEW o \in AllMemories, c[o] > 0
  PROVE  /\ dec(c, o) \in [AllMemories -> 0..(CountLimit - 1)]
         /\ dec(c, o)[o] = c[o] - 1
         /\ \A p \in AllMemories : p # o => dec(c, o)[p] = c[p]
<1>1. PICK x \in 0..(CountLimit - 1) : x = c[o] /\ x > 0
  OBVIOUS
<1>2. x - 1 \in 0..(CountLimit - 1)
  BY <1>1, MemoryAssumption
<1> QED BY <1>1, <1>2 DEF dec

(* What remains true of memories when counts become c, and references with *)
(* them.                                                                   *)
LEMMA DropKeeps ==
  ASSUME Types, ReferencesValid, ~panicked,
         NEW c \in [AllMemories -> 0..(CountLimit - 1)], NEW b, drop(c, b),
         \A o \in AllMemories : c[o] = References(o)',
         \A o \in Memories : mem[o] = Dropped => References(o)' = 0
  PROVE  /\ mem' \in [Memories -> Memory \cup {Dropped}]
         /\ count' \in [AllMemories -> 0..(CountLimit - 1)]
         /\ CountsExact' /\ ReferencesValid'
<1>1. count' = c /\ mem' = [o \in Memories |-> IF o \in Dying(c) THEN Dropped ELSE mem[o]]
  BY DEF drop
<1>2. mem' \in [Memories -> Memory \cup {Dropped}]
  BY <1>1 DEF Types
<1>3. CountsExact'
  BY <1>1 DEF CountsExact
<1>4. ReferencesValid'
  <2> SUFFICES ASSUME NEW o \in Memories, mem'[o] = Dropped PROVE References(o)' = 0
    BY DEF ReferencesValid
  <2>1. CASE o \in Dying(c)
    BY <2>1, Distinct DEF Dying
  <2>2. CASE o \notin Dying(c)
    BY <1>1, <2>2
  <2> QED BY <2>1, <2>2
<1> QED BY <1>1, <1>2, <1>3, <1>4

(* Host code keeps its references: a memory that has some does not change. *)
NoneMoves == \A o \in Memories : held[o] > 0 /\ held'[o] > 0 => mem'[o] = mem[o]

LEMMA DropMovesNone ==
  ASSUME Types, NEW c \in [AllMemories -> 0..(CountLimit - 1)], NEW b, drop(c, b),
         \A o \in AllMemories : c[o] = References(o)', held' \in [AllMemories -> Nat]
  PROVE  NoneMoves
<1> SUFFICES ASSUME NEW o \in Memories, held'[o] > 0 PROVE mem'[o] = mem[o]
  BY DEF NoneMoves
<1>1. o \in AllMemories /\ c[o] = References(o)'
  BY Distinct
<1>2. References(o)' # 0
  <2>1. held'[o] \in Nat
    BY <1>1
  <2> QED BY <2>1 DEF References
<1>3. o \notin Dying(c)
  BY <1>1, <1>2 DEF Dying
<1> QED BY <1>3 DEF drop

(* self.memory = reference.clone() *)
LEMMA TakeMemory ==
  ASSUME Types, CountsExact, ReferencesValid, ~panicked, engine # Gone,
         NEW o \in AllMemories, o \in Memories => mem[o] # Dropped,
         take_memory(o), UNCHANGED <<store, held>>
  PROVE  /\ ReferencesValid' /\ NoneMoves /\ panicked' \in BOOLEAN
         /\ ~panicked' => /\ engine' = o
                          /\ mem' \in [Memories -> Memory \cup {Dropped}]
                          /\ count' \in [AllMemories -> 0..(CountLimit - 1)]
                          /\ CountsExact'
<1> DEFINE c == inc(count, o)
<1>1. /\ engine \in AllMemories /\ count \in [AllMemories -> 0..(CountLimit - 1)]
      /\ held \in [AllMemories -> Nat]
      /\ \A p \in AllMemories : count[p] = References(p)
  BY DEF Types, CountsExact
<1>2. CASE c[o] = 0
  <2>1. panicked' = TRUE /\ UNCHANGED <<mem, engine>>
    BY <1>2 DEF take_memory
  <2> QED BY <2>1 DEF ReferencesValid, References, NoneMoves
<1>3. CASE c[o] # 0
  <2>1. /\ c \in [AllMemories -> 0..(CountLimit - 1)] /\ c[o] = count[o] + 1
        /\ \A p \in AllMemories : p # o => c[p] = count[p]
    BY <1>1, <1>3, Incremented
  <2>2. count[engine] > 0 /\ count[o] \in Nat
    <3>1. References(engine) > 0
      BY <1>1 DEF References
    <3> QED BY <1>1, <3>1
  <2>3. c[engine] > 0
    BY <1>1, <2>1, <2>2
  <2> DEFINE d == dec(c, engine)
  <2>4. /\ d \in [AllMemories -> 0..(CountLimit - 1)] /\ d[engine] = c[engine] - 1
        /\ \A p \in AllMemories : p # engine => d[p] = c[p]
    BY <1>1, <2>1, <2>3, Decremented
  <2>5. engine' = o /\ panicked' = panicked /\ drop(d, block)
    BY <1>3 DEF take_memory
  <2> HIDE DEF c, d
  <2>6. \A p \in AllMemories : d[p] = References(p)'
    <3> SUFFICES ASSUME NEW p \in AllMemories PROVE d[p] = References(p)'
      OBVIOUS
    <3>1. held[p] \in Nat /\ count[p] = References(p) /\ held' = held /\ store' = store
      BY <1>1
    <3>2. CASE p = o /\ p = engine
      BY <2>1, <2>4, <2>5, <3>1, <3>2 DEF References
    <3>3. CASE p = o /\ p # engine
      BY <2>1, <2>4, <2>5, <3>1, <3>3 DEF References
    <3>4. CASE p # o /\ p = engine
      BY <2>1, <2>4, <2>5, <3>1, <3>4 DEF References
    <3>5. CASE p # o /\ p # engine
      BY <2>1, <2>4, <2>5, <3>1, <3>5 DEF References
    <3> QED BY <3>2, <3>3, <3>4, <3>5
  <2>7. \A p \in Memories : mem[p] = Dropped => References(p)' = 0
    <3> SUFFICES ASSUME NEW p \in Memories, mem[p] = Dropped PROVE References(p)' = 0
      OBVIOUS
    <3>1. p # o /\ References(p) = 0 /\ p \in AllMemories
      BY Distinct DEF ReferencesValid
    <3>2. held[p] \in Nat /\ held' = held /\ store' = store
      BY <1>1, <3>1
    <3>3. held[p] = 0 /\ p \notin store
      BY <3>1, <3>2 DEF References
    <3> QED BY <2>5, <3>1, <3>2, <3>3 DEF References
  <2>8. NoneMoves
    BY <1>1, <2>4, <2>5, <2>6, DropMovesNone
  <2>9. /\ mem' \in [Memories -> Memory \cup {Dropped}]
        /\ count' \in [AllMemories -> 0..(CountLimit - 1)]
        /\ CountsExact' /\ ReferencesValid'
    BY <2>4, <2>5, <2>6, <2>7, DropKeeps
  <2>10. panicked' \in BOOLEAN
    BY <2>5 DEF Types
  <2> QED BY <2>5, <2>8, <2>9, <2>10
<1> QED BY <1>2, <1>3

-----------------------------------------------------------------------------
(* The invariant, action by action *)

LEMMA Assembled ==
  ASSUME ReferencesValid', panicked' \in BOOLEAN,
         ~panicked' => Types' /\ Linked' /\ CountsExact' /\ EngineHasMemoryOfModule'
  PROVE  IInv'
BY DEF IInv, Running, ReferencesCounted, CountsExact, EngineHasMemoryOfModule

(* Loads and stores, of a guest or of the host, and memory.size. *)
LEMMA QuietStep ==
  ASSUME IInv, UNCHANGED <<mem, count, store, loaded, load, engine, module, held, panicked>>
  PROVE  IInv' /\ NoneMoves
<1>1. ReferencesCounted'
  BY DEF IInv, ReferencesCounted, CountsExact, ReferencesValid, References,
         EngineHasMemoryOfModule, Executing
<1>2. ~panicked' => Types' /\ Linked'
  BY DEF IInv, Running, Types, Linked
<1> QED BY <1>1, <1>2 DEF IInv, Running, NoneMoves

LEMMA StopStep ==
  ASSUME Running, ~panicked, stop
  PROVE  IInv' /\ NoneMoves
<1>1. /\ UNCHANGED <<mem, count, store, loaded, load, engine, held, panicked>>
      /\ module' = None
  BY DEF stop
<1>2. Types' /\ Linked' /\ panicked' \in BOOLEAN
  BY <1>1 DEF Running, Types, Linked
<1>3. CountsExact' /\ ReferencesValid' /\ EngineHasMemoryOfModule'
  BY <1>1 DEF Running, ReferencesCounted, CountsExact, ReferencesValid, References,
              EngineHasMemoryOfModule, Executing
<1> QED BY <1>1, <1>2, <1>3, Assembled DEF NoneMoves

(* What the store references is there. *)
LEMMA StoredIsLive ==
  ASSUME Types, ReferencesValid, NEW o \in store, o \in Memories
  PROVE  mem[o] # Dropped
<1>1. o \in AllMemories /\ held[o] \in Nat
  BY DEF Types
<1>2. References(o) # 0
  BY <1>1 DEF References
<1> QED BY <1>2 DEF ReferencesValid

LEMMA EnterStep ==
  ASSUME Running, ~panicked, NEW m \in Modules, enter_module(m)
  PROVE  IInv' /\ NoneMoves
<1> DEFINE o == MemoryOf[m]
<1>1. /\ load = None /\ engine # Gone /\ m \in loaded /\ module' = m
      /\ UNCHANGED <<store, loaded, load, held>> /\ take_memory(o)
  BY DEF enter_module
<1>2. o \in AllMemories /\ o \in store
  BY <1>1, Distinct DEF Running, Linked
<1>3. Types /\ CountsExact /\ ReferencesValid
  BY DEF Running, ReferencesCounted
<1>4. o \in Memories => mem[o] # Dropped
  BY <1>2, <1>3, StoredIsLive
<1> HIDE DEF o
<1>5. /\ ReferencesValid' /\ NoneMoves /\ panicked' \in BOOLEAN
      /\ ~panicked' => /\ engine' = o
                       /\ mem' \in [Memories -> Memory \cup {Dropped}]
                       /\ count' \in [AllMemories -> 0..(CountLimit - 1)]
                       /\ CountsExact'
  BY <1>1, <1>2, <1>3, <1>4, TakeMemory
<1>6. ~panicked' => Types' /\ Linked'
  BY <1>1, <1>2, <1>3, <1>5 DEF Running, Types, Linked
<1>7. ~panicked' => EngineHasMemoryOfModule'
  BY <1>1, <1>5 DEF EngineHasMemoryOfModule, o
<1> QED BY <1>5, <1>6, <1>7, Assembled

LEMMA ResetStep ==
  ASSUME Running, ~panicked, reset
  PROVE  IInv' /\ NoneMoves
<1>1. /\ load = None /\ engine # Gone /\ module' = None
      /\ UNCHANGED <<store, loaded, load, held>> /\ take_memory(NoMemory)
  BY DEF reset
<1>2. Types /\ CountsExact /\ ReferencesValid
  BY DEF Running, ReferencesCounted
<1>3. /\ ReferencesValid' /\ NoneMoves /\ panicked' \in BOOLEAN
      /\ ~panicked' => /\ engine' = NoMemory
                       /\ mem' \in [Memories -> Memory \cup {Dropped}]
                       /\ count' \in [AllMemories -> 0..(CountLimit - 1)]
                       /\ CountsExact'
  BY <1>1, <1>2, TakeMemory, Distinct
<1>4. ~panicked' => Types' /\ Linked' /\ EngineHasMemoryOfModule'
  BY <1>1, <1>2, <1>3, Distinct
     DEF Running, Types, Linked, EngineHasMemoryOfModule, Executing
<1> QED BY <1>3, <1>4, Assembled

LEMMA HoldStep ==
  ASSUME Running, ~panicked, hold
  PROVE  IInv' /\ NoneMoves
<1> DEFINE c == inc(count, engine)
<1>1. /\ engine # Gone /\ count' = c
      /\ UNCHANGED <<mem, block, store, loaded, load, engine, module>>
      /\ IF c[engine] = 0 THEN panicked' = TRUE /\ UNCHANGED held
         ELSE held' = [held EXCEPT ![engine] = @ + 1] /\ UNCHANGED panicked
  BY DEF hold
<1>2. /\ engine \in AllMemories /\ count \in [AllMemories -> 0..(CountLimit - 1)]
      /\ held \in [AllMemories -> Nat]
      /\ \A p \in AllMemories : count[p] = References(p)
  BY <1>1 DEF Running, Types, ReferencesCounted, CountsExact
<1>3. CASE c[engine] = 0
  <2>1. ReferencesValid'
    BY <1>1, <1>3 DEF Running, ReferencesCounted, ReferencesValid, References
  <2> QED BY <1>1, <1>3, <2>1, Assembled DEF NoneMoves
<1>4. CASE c[engine] # 0
  <2>1. /\ c \in [AllMemories -> 0..(CountLimit - 1)] /\ c[engine] = count[engine] + 1
        /\ \A p \in AllMemories : p # engine => c[p] = count[p]
    BY <1>2, <1>4, Incremented
  <2>2. /\ held' = [held EXCEPT ![engine] = @ + 1] /\ panicked' = panicked
        /\ held' \in [AllMemories -> Nat]
    BY <1>1, <1>2, <1>4
  <2> HIDE DEF c
  <2>3. CountsExact'
    <3> SUFFICES ASSUME NEW p \in AllMemories PROVE count'[p] = References(p)'
      BY DEF CountsExact
    <3>1. held[p] \in Nat /\ count[p] = References(p)
      BY <1>2
    <3>2. CASE p = engine
      BY <1>1, <1>2, <2>1, <2>2, <3>1, <3>2 DEF References
    <3>3. CASE p # engine
      BY <1>1, <1>2, <2>1, <2>2, <3>1, <3>3 DEF References
    <3> QED BY <3>2, <3>3
  <2>4. ReferencesValid'
    <3> SUFFICES ASSUME NEW p \in Memories, mem[p] = Dropped PROVE References(p)' = 0
      BY <1>1 DEF ReferencesValid
    <3>1. References(p) = 0 /\ held[p] \in Nat
      BY <1>2, Distinct DEF Running, ReferencesCounted, ReferencesValid
    <3>2. p # engine
      BY <3>1 DEF References
    <3> QED BY <1>1, <1>2, <2>2, <3>1, <3>2 DEF References
  <2>5. Types' /\ Linked' /\ EngineHasMemoryOfModule' /\ panicked' \in BOOLEAN
    BY <1>1, <2>1, <2>2
       DEF Running, Types, Linked, ReferencesCounted, EngineHasMemoryOfModule, Executing
  <2> QED BY <1>1, <2>3, <2>4, <2>5, Assembled DEF NoneMoves
<1> QED BY <1>3, <1>4

LEMMA ReleaseStep ==
  ASSUME Running, ~panicked, NEW o \in AllMemories, release(o)
  PROVE  IInv' /\ NoneMoves
<1> DEFINE d == dec(count, o)
<1>1. /\ held[o] > 0 /\ held' = [held EXCEPT ![o] = @ - 1] /\ drop(d, block)
      /\ UNCHANGED <<store, loaded, load, engine, module, panicked>>
  BY DEF release
<1>2. /\ Types /\ ReferencesValid /\ count \in [AllMemories -> 0..(CountLimit - 1)]
      /\ held \in [AllMemories -> Nat]
      /\ \A p \in AllMemories : count[p] = References(p)
  BY DEF Running, Types, ReferencesCounted, CountsExact
<1>3. held' \in [AllMemories -> Nat] /\ held[o] \in Nat /\ held'[o] = held[o] - 1
  BY <1>1, <1>2
<1>4. count[o] > 0
  BY <1>1, <1>2, <1>3 DEF References
<1>5. /\ d \in [AllMemories -> 0..(CountLimit - 1)] /\ d[o] = count[o] - 1
      /\ \A p \in AllMemories : p # o => d[p] = count[p]
  BY <1>2, <1>4, Decremented
<1> HIDE DEF d
<1>6. \A p \in AllMemories : d[p] = References(p)'
  <2> SUFFICES ASSUME NEW p \in AllMemories PROVE d[p] = References(p)'
    OBVIOUS
  <2>1. held[p] \in Nat /\ count[p] = References(p)
    BY <1>2
  <2>2. CASE p = o
    BY <1>1, <1>3, <1>5, <2>1, <2>2 DEF References
  <2>3. CASE p # o
    BY <1>1, <1>2, <1>5, <2>1, <2>3 DEF References
  <2> QED BY <2>2, <2>3
<1>7. \A p \in Memories : mem[p] = Dropped => References(p)' = 0
  <2> SUFFICES ASSUME NEW p \in Memories, mem[p] = Dropped PROVE References(p)' = 0
    OBVIOUS
  <2>1. References(p) = 0 /\ held[p] \in Nat /\ p \in AllMemories
    BY <1>2, Distinct DEF ReferencesValid
  <2>2. held[p] = 0 /\ p # o
    BY <1>1, <2>1 DEF References
  <2>3. held'[p] = held[p]
    BY <1>1, <1>2, <2>1, <2>2
  <2> QED BY <1>1, <2>1, <2>2, <2>3 DEF References
<1>8. NoneMoves
  BY <1>1, <1>2, <1>3, <1>5, <1>6, DropMovesNone
<1>9. /\ mem' \in [Memories -> Memory \cup {Dropped}]
      /\ count' \in [AllMemories -> 0..(CountLimit - 1)]
      /\ CountsExact' /\ ReferencesValid'
  BY <1>1, <1>2, <1>5, <1>6, <1>7, DropKeeps
<1>10. Types' /\ Linked' /\ EngineHasMemoryOfModule' /\ panicked' \in BOOLEAN
  BY <1>1, <1>3, <1>9
     DEF Running, Types, Linked, ReferencesCounted, EngineHasMemoryOfModule, Executing
<1> QED BY <1>8, <1>9, <1>10, Assembled

LEMMA FinishLoadStep ==
  ASSUME Running, ~panicked, finish_load
  PROVE  IInv' /\ NoneMoves
<1>1. /\ load # None /\ loaded' = loaded \cup {load} /\ load' = None
      /\ UNCHANGED <<mem, count, store, engine, module, held, panicked>>
  BY DEF finish_load
<1>2. Types' /\ Linked' /\ panicked' \in BOOLEAN
  BY <1>1 DEF Running, Types, Linked
<1>3. CountsExact' /\ ReferencesValid' /\ EngineHasMemoryOfModule'
  BY <1>1 DEF Running, ReferencesCounted, CountsExact, ReferencesValid, References,
              EngineHasMemoryOfModule, Executing
<1> QED BY <1>1, <1>2, <1>3, Assembled DEF NoneMoves

(* The module's own memory did not exist: nothing referenced it, and no    *)
(* module that is loaded has it.                                           *)
LEMMA BeginLoadStep ==
  ASSUME Running, ~panicked, NEW m \in Modules, begin_load(m)
  PROVE  IInv' /\ NoneMoves
<1> DEFINE o == MemoryOf[m]
<1>1. /\ load = None /\ engine # Gone /\ load' = m
      /\ UNCHANGED <<loaded, engine, module, held, panicked>>
  BY DEF begin_load
<1>2. /\ Types /\ ReferencesValid /\ o \in AllMemories
      /\ \A p \in AllMemories : count[p] = References(p)
  BY Distinct DEF Running, ReferencesCounted, CountsExact
<1>3. \A p \in Memories : Owner[p] = m => p = o
  BY MemoryAssumption
<1>4. CASE ~(o # NoMemory /\ Owner[o] = m)
  <2>1. o \in store /\ UNCHANGED <<mem, count, store>>
    BY <1>4 DEF begin_load, link_memory
  <2>2. \A k \in loaded : MemoryOf[k] # NoMemory => Owner[MemoryOf[k]] # m
    <3> SUFFICES ASSUME NEW k \in loaded, MemoryOf[k] # NoMemory, Owner[MemoryOf[k]] = m
                 PROVE  FALSE
      OBVIOUS
    <3>1. MemoryOf[k] \in Memories
      BY <1>2, Distinct DEF Types
    <3> QED BY <1>3, <1>4, <3>1
  <2>3. Types' /\ Linked' /\ panicked' \in BOOLEAN
    BY <1>1, <2>1, <2>2 DEF Running, Types, Linked
  <2>4. CountsExact' /\ ReferencesValid' /\ EngineHasMemoryOfModule'
    BY <1>1, <2>1 DEF Running, ReferencesCounted, CountsExact, ReferencesValid, References,
                      EngineHasMemoryOfModule, Executing
  <2> QED BY <2>1, <2>3, <2>4, Assembled DEF NoneMoves
<1>5. CASE o # NoMemory /\ Owner[o] = m
  <2>1. o \in Memories /\ mem[o] = Dropped
    BY <1>2, <1>5, Distinct DEF begin_load, Live
  <2>2. PICK outcome \in allocate(TypeOf[o].min * TypeOf[o].page) \cup {Refused} :
          Create(o, outcome)
    BY <1>5 DEF begin_load
  <2>3. outcome.ptr \in Blocks \cup {Null}
    BY DEF allocate, Refused, Unused
  <2>4. TypeOf[o].min * TypeOf[o].page \in Nat
    <3>1. TypeOf[o].min \in Nat /\ TypeOf[o].page \in Nat
      BY <2>1, MemoryAssumption
    <3> QED BY <3>1
  <2> DEFINE r == [ptr |-> outcome.ptr, size |-> TypeOf[o].min * TypeOf[o].page]
  <2>5. r \in Memory
    BY <2>3, <2>4 DEF Memory
  <2>6. /\ mem' = [mem EXCEPT ![o] = r] /\ count' = [count EXCEPT ![o] = 1]
        /\ store' = store \cup {o}
    BY <2>2 DEF Create
  <2> HIDE DEF r
  <2>7. References(o) = 0 /\ held[o] \in Nat /\ held[o] = 0 /\ o \notin store /\ o # engine
    <3>1. References(o) = 0 /\ held[o] \in Nat
      BY <1>2, <2>1 DEF ReferencesValid, Types
    <3> QED BY <3>1 DEF References
  <2>8. CountsExact'
    <3> SUFFICES ASSUME NEW p \in AllMemories PROVE count'[p] = References(p)'
      BY DEF CountsExact
    <3>1. count \in [AllMemories -> 0..(CountLimit - 1)] /\ count[p] = References(p)
      BY <1>2 DEF Types
    <3>2. CASE p = o
      BY <1>1, <1>2, <2>6, <2>7, <3>1, <3>2 DEF References
    <3>3. CASE p # o
      BY <1>1, <2>6, <3>1, <3>3 DEF References
    <3> QED BY <3>2, <3>3
  <2>9. ReferencesValid'
    <3> SUFFICES ASSUME NEW p \in Memories, mem'[p] = Dropped PROVE References(p)' = 0
      BY DEF ReferencesValid
    <3>1. p # o /\ mem[p] = Dropped
      BY <1>2, <2>1, <2>5, <2>6, Distinct DEF Types
    <3>2. References(p) = 0
      BY <1>2, <3>1 DEF ReferencesValid
    <3> QED BY <1>1, <2>6, <3>1, <3>2 DEF References
  <2>10. \A k \in loaded : MemoryOf[k] # NoMemory => Owner[MemoryOf[k]] # m
    <3> SUFFICES ASSUME NEW k \in loaded, MemoryOf[k] # NoMemory, Owner[MemoryOf[k]] = m
                 PROVE  FALSE
      OBVIOUS
    <3>1. MemoryOf[k] \in Memories /\ MemoryOf[k] \in store
      BY <1>2, Distinct DEF Types, Running, Linked
    <3> QED BY <1>3, <2>7, <3>1
  <2>11. 1 \in 0..(CountLimit - 1)
    BY MemoryAssumption
  <2>12. Types' /\ panicked' \in BOOLEAN
    BY <1>1, <1>2, <2>5, <2>6, <2>11 DEF Types
  <2>13. Linked'
    BY <1>1, <2>6, <2>10 DEF Running, Linked
  <2>14. EngineHasMemoryOfModule'
    BY <1>1 DEF Running, ReferencesCounted, EngineHasMemoryOfModule, Executing
  <2>15. NoneMoves
    BY <1>2, <2>1, <2>6, <2>7 DEF NoneMoves, Types
  <2> QED BY <2>8, <2>9, <2>12, <2>13, <2>14, <2>15, Assembled
<1> QED BY <1>4, <1>5

(* Both let go of references of the store; each count goes down with them. *)
LEMMA LetGo ==
  ASSUME Running, ~panicked, NEW c \in [AllMemories -> Int], drop(c, block),
         held' = held, panicked' = panicked,
         \A o \in AllMemories : c[o] = References(o)',
         \A o \in AllMemories : References(o)' <= References(o)
  PROVE  /\ mem' \in [Memories -> Memory \cup {Dropped}]
         /\ count' \in [AllMemories -> 0..(CountLimit - 1)]
         /\ CountsExact' /\ ReferencesValid' /\ NoneMoves
<1>1. /\ Types /\ ReferencesValid /\ held \in [AllMemories -> Nat]
      /\ \A p \in AllMemories : count[p] = References(p) /\ count[p] \in 0..(CountLimit - 1)
  BY DEF Running, Types, ReferencesCounted, CountsExact
<1>2. \A p \in AllMemories : References(p)' \in Nat
  BY <1>1 DEF References
<1>3. c \in [AllMemories -> 0..(CountLimit - 1)]
  <2> SUFFICES ASSUME NEW p \in AllMemories PROVE c[p] \in 0..(CountLimit - 1)
    OBVIOUS
  <2>1. /\ c[p] \in Nat /\ c[p] <= count[p] /\ count[p] \in 0..(CountLimit - 1)
    BY <1>1, <1>2
  <2> QED BY <2>1, MemoryAssumption
<1>4. \A p \in Memories : mem[p] = Dropped => References(p)' = 0
  <2> SUFFICES ASSUME NEW p \in Memories, mem[p] = Dropped PROVE References(p)' = 0
    OBVIOUS
  <2>1. References(p) = 0 /\ References(p)' \in Nat /\ References(p)' <= References(p)
    BY <1>1, <1>2, Distinct DEF ReferencesValid
  <2> QED BY <2>1
<1>5. NoneMoves
  BY <1>1, <1>3, DropMovesNone
<1> QED BY <1>1, <1>3, <1>4, <1>5, DropKeeps

LEMMA FailLoadStep ==
  ASSUME Running, ~panicked, fail_load
  PROVE  IInv' /\ NoneMoves
<1> DEFINE own == {o \in store \cap Memories : Owner[o] = load}
           c == [o \in AllMemories |-> IF o \in own THEN count[o] - 1 ELSE count[o]]
<1>1. /\ load # None /\ load' = None /\ store' = store \ own /\ drop(c, block)
      /\ UNCHANGED <<loaded, engine, module, held, panicked>>
  BY DEF fail_load
<1>2. /\ held \in [AllMemories -> Nat] /\ count \in [AllMemories -> 0..(CountLimit - 1)]
      /\ \A p \in AllMemories : count[p] = References(p)
  BY DEF Running, Types, ReferencesCounted, CountsExact
<1>3. c \in [AllMemories -> Int]
  <2> SUFFICES ASSUME NEW p \in AllMemories
               PROVE  (IF p \in own THEN count[p] - 1 ELSE count[p]) \in Int
    OBVIOUS
  <2>1. count[p] \in Int
    BY <1>2, MemoryAssumption
  <2> QED BY <2>1
<1>4. /\ \A p \in AllMemories : c[p] = References(p)'
      /\ \A p \in AllMemories : References(p)' <= References(p)
  <2> SUFFICES ASSUME NEW p \in AllMemories
               PROVE  c[p] = References(p)' /\ References(p)' <= References(p)
    OBVIOUS
  <2>1. held[p] \in Nat /\ count[p] = References(p) /\ held' = held /\ engine' = engine
    BY <1>1, <1>2
  <2>2. CASE p \in own
    <3>1. p \in store /\ p \notin store' /\ c[p] = count[p] - 1
      BY <1>1, <2>2
    <3> QED BY <2>1, <3>1 DEF References
  <2>3. CASE p \notin own
    <3>1. (p \in store <=> p \in store') /\ c[p] = count[p]
      BY <1>1, <2>3
    <3> QED BY <2>1, <3>1 DEF References
  <2> QED BY <2>2, <2>3
<1> HIDE DEF c
<1>5. /\ mem' \in [Memories -> Memory \cup {Dropped}]
      /\ count' \in [AllMemories -> 0..(CountLimit - 1)]
      /\ CountsExact' /\ ReferencesValid' /\ NoneMoves
  BY <1>1, <1>3, <1>4, LetGo
<1>6. NoMemory \notin own /\ \A m \in loaded : MemoryOf[m] \notin own
  BY <1>1, Distinct DEF Running, Linked, Types
<1>7. Types' /\ panicked' \in BOOLEAN
  BY <1>1, <1>5 DEF Running, Types
<1>8. Linked'
  BY <1>1, <1>6 DEF Running, Linked
<1>9. EngineHasMemoryOfModule'
  BY <1>1 DEF Running, ReferencesCounted, EngineHasMemoryOfModule, Executing
<1> QED BY <1>5, <1>7, <1>8, <1>9, Assembled

LEMMA DestroyStep ==
  ASSUME Running, ~panicked, destroy
  PROVE  IInv' /\ NoneMoves
<1> DEFINE c == [o \in AllMemories |->
                   count[o] - (IF o \in store THEN 1 ELSE 0) - (IF o = engine THEN 1 ELSE 0)]
<1>1. /\ load = None /\ module = None /\ drop(c, block)
      /\ store' = {} /\ loaded' = {} /\ engine' = Gone
      /\ UNCHANGED <<load, module, held, panicked>>
  BY DEF destroy
<1>2. /\ held \in [AllMemories -> Nat] /\ count \in [AllMemories -> 0..(CountLimit - 1)]
      /\ \A p \in AllMemories : count[p] = References(p)
  BY DEF Running, Types, ReferencesCounted, CountsExact
<1>3. /\ \A p \in AllMemories : c[p] = References(p)' /\ c[p] \in Int
      /\ \A p \in AllMemories : References(p)' <= References(p)
  <2> SUFFICES ASSUME NEW p \in AllMemories
               PROVE  c[p] = References(p)' /\ c[p] \in Int /\ References(p)' <= References(p)
    OBVIOUS
  <2>1. held[p] \in Nat /\ count[p] = References(p) /\ p # Gone
    BY <1>2, Distinct
  <2>2. References(p)' = held[p]
    BY <1>1, <2>1 DEF References
  <2>3. c[p] = count[p] - (IF p \in store THEN 1 ELSE 0) - (IF p = engine THEN 1 ELSE 0)
    OBVIOUS
  <2> HIDE DEF c
  <2> QED BY <2>1, <2>2, <2>3 DEF References
<1>4. c \in [AllMemories -> Int]
  BY <1>3
<1> HIDE DEF c
<1>5. /\ mem' \in [Memories -> Memory \cup {Dropped}]
      /\ count' \in [AllMemories -> 0..(CountLimit - 1)]
      /\ CountsExact' /\ ReferencesValid' /\ NoneMoves
  BY <1>1, <1>3, <1>4, LetGo
<1>6. Types' /\ Linked' /\ EngineHasMemoryOfModule' /\ panicked' \in BOOLEAN
  BY <1>1, <1>5 DEF Running, Types, Linked, EngineHasMemoryOfModule, Executing
<1> QED BY <1>5, <1>6, Assembled

LEMMA GrowKeeps ==
  ASSUME Types, NEW o \in Memories, mem[o] \in Memory, NEW n \in Nat, grow(o, n)
  PROVE  mem' = mem \/ \E r \in Memory : mem' = [mem EXCEPT ![o] = r]
<1>1. TypeOf[o].page \in Nat \ {0} /\ mem[o].size \in Nat /\ WordLimit \in Nat \ {0}
  BY MemoryAssumption DEF Memory
<1>2. \A x \in Nat, d \in Nat \ {0}, w \in Nat \ {0} : (x \div d) % w \in Nat
  OBVIOUS
<1>3. size_pages(o) \in Nat
  <2>1. size_pages(o) = (mem[o].size \div TypeOf[o].page) % WordLimit
    BY Distinct DEF size_pages, SizeOf
  <2> QED BY <1>1, <1>2, <2>1
<1> DEFINE total == (size_pages(o) + n) * TypeOf[o].page
           outcomes == IF mem[o].ptr = Null THEN allocate(total) ELSE reallocate(mem[o].ptr, total)
<1>4. total \in Nat
  BY <1>1, <1>3
<1>5. \A outcome \in outcomes : outcome.ptr \in Blocks \cup {Null}
  <2>1. mem[o].ptr \in Blocks \cup {Null}
    BY DEF Memory
  <2>2. \A outcome \in allocate(total) : outcome.ptr \in Blocks \cup {Null}
    BY DEF allocate, Refused, Unused
  <2>3. mem[o].ptr # Null => \A outcome \in reallocate(mem[o].ptr, total) :
                               outcome.ptr \in Blocks \cup {Null}
    BY <2>1 DEF reallocate, Refused, Unused
  <2> QED BY <2>2, <2>3
<1>6. \/ mem' = mem
      \/ \E outcome \in outcomes : mem' = [mem EXCEPT ![o] = [ptr |-> outcome.ptr, size |-> total]]
  BY DEF grow
<1> HIDE DEF total, outcomes
<1> QED BY <1>4, <1>5, <1>6 DEF Memory

(* memory.grow drops the engine's reference and takes it again.  Only the  *)
(* store's is left in between, so no host function has one.                *)
LEMMA GrowStep ==
  ASSUME Running, ~panicked, NEW n \in Nat, memory_grow(n)
  PROVE  IInv' /\ NoneMoves
<1> DEFINE o == MemoryOf[module]
           cleared == inc(count, NoMemory)
           others == dec(cleared, engine)
           given == inc(others, o)
<1>1. /\ module # None /\ UNCHANGED <<store, loaded, load, held>>
      /\ engine = o /\ module \in loaded /\ o \in store
  BY DEF memory_grow, Executing, Running, ReferencesCounted, EngineHasMemoryOfModule, Linked
<1>2. /\ Types /\ ReferencesValid /\ o \in AllMemories /\ NoMemory \in AllMemories
      /\ held \in [AllMemories -> Nat] /\ count \in [AllMemories -> 0..(CountLimit - 1)]
      /\ \A p \in AllMemories : count[p] = References(p) /\ count[p] \in Nat
  BY <1>1, Distinct, MemoryAssumption DEF Running, Types, ReferencesCounted, CountsExact
<1>3. CASE cleared[NoMemory] = 0
  <2>1. panicked' = TRUE /\ UNCHANGED <<mem, engine>>
    BY <1>3 DEF memory_grow
  <2>2. ReferencesValid'
    BY <1>1, <1>2, <2>1 DEF ReferencesValid, References
  <2> QED BY <2>1, <2>2, Assembled DEF NoneMoves
<1>4. CASE cleared[NoMemory] # 0
  <2>1. /\ cleared \in [AllMemories -> 0..(CountLimit - 1)]
        /\ cleared[NoMemory] = count[NoMemory] + 1
        /\ \A p \in AllMemories : p # NoMemory => cleared[p] = count[p]
    BY <1>2, <1>4, Incremented
  <2>2. count[o] > 0
    BY <1>1, <1>2 DEF References
  <2>3. cleared[o] > 0
    BY <1>2, <2>1, <2>2
  <2>4. /\ others \in [AllMemories -> 0..(CountLimit - 1)] /\ others[o] = cleared[o] - 1
        /\ \A p \in AllMemories : p # o => others[p] = cleared[p]
    BY <1>1, <1>2, <2>1, <2>3, Decremented
  <2>5. CASE o = NoMemory \/ is_unique(others, o)
    <3>1. /\ grow(o, n) /\ engine' = o /\ count' = dec(given, NoMemory)
          /\ module' = module /\ panicked' = panicked
      BY <1>4, <2>5 DEF memory_grow
    <3>2. cleared[o] \in 0..(CountLimit - 1) /\ CountLimit \in Nat
      BY <1>2, <2>1, MemoryAssumption
    <3>3. others[o] + 1 < CountLimit
      BY <2>4, <3>2
    <3>4. /\ given \in [AllMemories -> 0..(CountLimit - 1)] /\ given[o] = others[o] + 1
          /\ \A p \in AllMemories : p # o => given[p] = others[p]
      BY <1>2, <2>4, <3>3, Incremented
    <3> HIDE DEF cleared, others, given
    <3>5. given = cleared
      <4>1. \A p \in AllMemories : given[p] = cleared[p]
        BY <1>2, <2>4, <3>2, <3>4
      <4> QED BY <2>1, <3>4, <4>1
    <3>6. given[NoMemory] > 0
      BY <1>2, <2>1, <3>5
    <3>7. /\ count' \in [AllMemories -> 0..(CountLimit - 1)]
          /\ \A p \in AllMemories : count'[p] = count[p]
      BY <1>2, <2>1, <3>1, <3>4, <3>5, <3>6, Decremented
    <3>8. CountsExact'
      BY <1>1, <1>2, <3>1, <3>7 DEF CountsExact, References
    <3>9. mem' = mem \/ (o \in Memories /\ \E r \in Memory : mem' = [mem EXCEPT ![o] = r])
      <4>1. CASE o = NoMemory
        BY <3>1, <4>1 DEF grow, grow_refused
      <4>2. CASE o # NoMemory
        <5>1. o \in Memories /\ mem[o] # Dropped
          BY <1>1, <1>2, <4>2, Distinct, StoredIsLive
        <5>2. mem[o] \in Memory
          BY <1>2, <5>1 DEF Types
        <5> QED BY <1>2, <3>1, <5>1, <5>2, GrowKeeps
      <4> QED BY <4>1, <4>2
    <3>10. ReferencesValid' /\ mem' \in [Memories -> Memory \cup {Dropped}]
      <4>1. CASE mem' = mem
        BY <1>1, <1>2, <3>1, <4>1 DEF ReferencesValid, References, Types
      <4>2. CASE o \in Memories /\ \E r \in Memory : mem' = [mem EXCEPT ![o] = r]
        BY <1>1, <1>2, <3>1, <4>2, Distinct DEF ReferencesValid, References, Types
      <4> QED BY <3>9, <4>1, <4>2
    <3>11. NoneMoves
      <4> SUFFICES ASSUME NEW p \in Memories, held[p] > 0 PROVE mem'[p] = mem[p]
        BY DEF NoneMoves
      <4>1. CASE p # o
        BY <1>2, <3>9, <4>1 DEF Types
      <4>2. CASE p = o
        <5>1. others[o] = 1
          BY <2>5, <4>2, Distinct DEF is_unique
        <5>2. count[o] = 2
          BY <1>2, <2>1, <2>4, <3>2, <4>2, <5>1, Distinct
        <5>3. held[o] \in Nat /\ References(o) = 2
          BY <1>2, <5>2
        <5>4. held[o] = 0
          BY <1>1, <5>3 DEF References
        <5> QED BY <4>2, <5>4
      <4> QED BY <4>1, <4>2
    <3>12. Types' /\ Linked' /\ EngineHasMemoryOfModule' /\ panicked' \in BOOLEAN
      BY <1>1, <1>2, <3>1, <3>7, <3>10
         DEF Types, Running, Linked, EngineHasMemoryOfModule, Executing
    <3> QED BY <3>8, <3>10, <3>11, <3>12, Assembled
  <2>6. CASE ~(o = NoMemory \/ is_unique(others, o))
    <3>1. /\ engine' = NoMemory /\ count' = others /\ module' = None
          /\ UNCHANGED <<mem, panicked>>
      BY <1>4, <2>6 DEF memory_grow
    <3> HIDE DEF cleared, others, given
    <3>2. CountsExact'
      <4> SUFFICES ASSUME NEW p \in AllMemories PROVE count'[p] = References(p)'
        BY DEF CountsExact
      <4>1. held[p] \in Nat /\ count[p] = References(p)
        BY <1>2
      <4>2. CASE p = o
        BY <1>1, <2>1, <2>4, <2>6, <3>1, <4>1, <4>2 DEF References
      <4>3. CASE p # o /\ p = NoMemory
        BY <1>1, <2>1, <2>4, <3>1, <4>1, <4>3 DEF References
      <4>4. CASE p # o /\ p # NoMemory
        BY <1>1, <2>1, <2>4, <3>1, <4>1, <4>4 DEF References
      <4> QED BY <4>2, <4>3, <4>4
    <3>3. ReferencesValid'
      <4> SUFFICES ASSUME NEW p \in Memories, mem[p] = Dropped PROVE References(p)' = 0
        BY <3>1 DEF ReferencesValid
      <4>1. References(p) = 0 /\ held[p] \in Nat /\ p # NoMemory
        BY <1>2, Distinct DEF ReferencesValid
      <4> QED BY <1>1, <3>1, <4>1 DEF References
    <3>4. Types' /\ panicked' \in BOOLEAN
      BY <1>1, <1>2, <2>4, <3>1 DEF Types
    <3>5. Linked'
      BY <1>1, <1>2, <3>1, Distinct DEF Running, Linked
    <3>6. EngineHasMemoryOfModule'
      BY <3>1 DEF EngineHasMemoryOfModule, Executing
    <3> QED BY <3>1, <3>2, <3>3, <3>4, <3>5, <3>6, Assembled DEF NoneMoves
  <2> QED BY <2>5, <2>6
<1> QED BY <1>3, <1>4

-----------------------------------------------------------------------------

LEMMA Initially ==
  ASSUME Init
  PROVE  IInv
<1>1. HostMemories \subseteq Memories /\ \A o \in HostMemories : Owner[o] = Embedder
  BY DEF HostMemories
<1>2. PICK ptr \in [HostMemories -> Blocks \cup {Null}] :
        mem = [o \in Memories |-> IF o \in HostMemories
                 THEN [ptr |-> ptr[o], size |-> TypeOf[o].min * TypeOf[o].page] ELSE Dropped]
  BY DEF Init
<1>3. \A o \in HostMemories :
        [ptr |-> ptr[o], size |-> TypeOf[o].min * TypeOf[o].page] \in Memory
  <2> SUFFICES ASSUME NEW o \in HostMemories
               PROVE  [ptr |-> ptr[o], size |-> TypeOf[o].min * TypeOf[o].page] \in Memory
    OBVIOUS
  <2>1. TypeOf[o].min \in Nat /\ TypeOf[o].page \in Nat
    BY <1>1, MemoryAssumption
  <2>2. TypeOf[o].min * TypeOf[o].page \in Nat
    BY <2>1
  <2> QED BY <2>2 DEF Memory
<1>4. mem \in [Memories -> Memory \cup {Dropped}]
      /\ \A o \in Memories : mem[o] = Dropped => o \notin HostMemories
  BY <1>2, <1>3, Distinct
<1>5. /\ store = HostMemories \cup {NoMemory} /\ engine = NoMemory
      /\ count = [o \in AllMemories |->
                    (IF o \in store THEN 1 ELSE 0) + (IF o = engine THEN 1 ELSE 0)]
      /\ loaded = {} /\ load = None /\ module = None
      /\ held = [o \in AllMemories |-> 0] /\ panicked = FALSE
  BY DEF Init
<1>6. 0 \in 0..(CountLimit - 1) /\ 1 \in 0..(CountLimit - 1) /\ 2 \in 0..(CountLimit - 1)
  BY MemoryAssumption
<1>7. count \in [AllMemories -> 0..(CountLimit - 1)]
  BY <1>5, <1>6
<1>8. Types /\ Linked /\ EngineHasMemoryOfModule
  BY <1>1, <1>4, <1>5, <1>7, Distinct DEF Types, Linked, EngineHasMemoryOfModule, Executing
<1>9. CountsExact
  BY <1>5 DEF CountsExact, References
<1>10. ReferencesValid
  BY <1>4, <1>5, Distinct DEF ReferencesValid, References
<1> QED BY <1>8, <1>9, <1>10 DEF IInv, Running, ReferencesCounted

LEMMA Preserved ==
  ASSUME IInv, [Next]_vars
  PROVE  IInv' /\ NoneMoves
<1>1. CASE UNCHANGED vars
  BY <1>1, QuietStep DEF vars
<1>2. CASE Next
  <2>1. ~panicked /\ Running
    BY <1>2 DEF Next, IInv
  <2>2. ASSUME UNCHANGED <<mem, count, store, loaded, load, engine, module, held, panicked>>
        PROVE  IInv' /\ NoneMoves
    BY <2>2, QuietStep
  <2>3. CASE Access
    <3>1. UNCHANGED <<mem, count, store, loaded, load, engine, module, held, panicked>>
      BY <2>3 DEF Access, load_n, store_n
    <3> QED BY <2>2, <3>1
  <2>4. CASE memory_size \/ mem_size
    <3>1. UNCHANGED <<mem, count, store, loaded, load, engine, module, held, panicked>>
      BY <2>4 DEF memory_size, mem_size
    <3> QED BY <2>2, <3>1
  <2>5. ASSUME NEW n \in Word32, memory_grow(n)
        PROVE  IInv' /\ NoneMoves
    <3>1. n \in Nat
      BY MemoryAssumption DEF Word32
    <3> QED BY <2>1, <2>5, <3>1, GrowStep
  <2>6. ASSUME NEW m \in Modules, enter_module(m)
        PROVE  IInv' /\ NoneMoves
    BY <2>1, <2>6, EnterStep
  <2>7. CASE stop
    BY <2>1, <2>7, StopStep
  <2>8. CASE HostAccess
    <3>1. UNCHANGED <<mem, count, store, loaded, load, engine, module, held, panicked>>
      BY <2>8 DEF HostAccess, mem_read, mem_write
    <3> QED BY <2>2, <3>1
  <2>9. CASE hold
    BY <2>1, <2>9, HoldStep
  <2>10. CASE reset
    BY <2>1, <2>10, ResetStep
  <2>11. ASSUME NEW o \in AllMemories, release(o)
         PROVE  IInv' /\ NoneMoves
    BY <2>1, <2>11, ReleaseStep
  <2>12. CASE Loading
    <3>1. ASSUME NEW m \in Modules, begin_load(m)
          PROVE  IInv' /\ NoneMoves
      BY <2>1, <3>1, BeginLoadStep
    <3>2. ASSUME NEW offset, NEW i, NEW byte, data_byte(offset, i, byte)
          PROVE  IInv' /\ NoneMoves
      <4>1. UNCHANGED <<mem, count, store, loaded, load, engine, module, held, panicked>>
        BY <3>2 DEF data_byte
      <4> QED BY <2>2, <4>1
    <3>3. CASE finish_load
      BY <2>1, <3>3, FinishLoadStep
    <3>4. CASE fail_load
      BY <2>1, <3>4, FailLoadStep
    <3> QED BY <2>12, <3>1, <3>2, <3>3, <3>4 DEF Loading
  <2>13. CASE destroy
    BY <2>1, <2>13, DestroyStep
  <2> QED BY <1>2, <2>3, <2>4, <2>5, <2>6, <2>7, <2>8, <2>9, <2>10, <2>11, <2>12, <2>13
          DEF Next
<1> QED BY <1>1, <1>2

(* The reference counts of Rc (inc, dec and drop in src/util/rc.rs) equal  *)
(* the references there are; no reference, the engine's cached one above   *)
(* all, outlives its memory; a guest executes with its module's memory.    *)
THEOREM MemoryReferencesCounted == Spec => []ReferencesCounted
<1>1. Init => IInv
  BY Initially
<1>2. IInv /\ [Next]_vars => IInv'
  BY Preserved
<1>3. IInv => ReferencesCounted
  BY DEF IInv
<1> QED BY <1>1, <1>2, <1>3, PTL DEF Spec

(* A slice that host code keeps with its reference stays where it is: the  *)
(* uniqueness that memory.grow asks for counts every reference.            *)
THEOREM MemoryStillWhileHeld == Spec => NoGrowthWhileHeld
<1>1. Init => IInv
  BY Initially
<1>2. IInv /\ [Next]_vars => IInv'
  BY Preserved
<1>3. IInv /\ [Next]_vars
        => [\A o \in Memories : held[o] > 0 /\ held'[o] > 0 => mem'[o] = mem[o]]_vars
  BY Preserved DEF NoneMoves
<1> QED BY <1>1, <1>2, <1>3, PTL DEF Spec, NoGrowthWhileHeld

-----------------------------------------------------------------------------
(* Numbers and their bytes *)

(* A byte has more than one value.                                         *)
LEMMA Bases == Radix \in Nat \ {0, 1}
BY MemoryAssumption

LEMMA Scaled == \A x \in Nat \ {0} : Radix * x \in Nat \ {0}
BY Bases

(* Power is defined by recursion on its exponent: there is such a          *)
(* function, and so it is what its definition says.                        *)
LEMMA Powers ==
  /\ Promise!Power \in [Nat -> Nat \ {0}]
  /\ Promise!Power[0] = 1
  /\ \A n \in Nat : Promise!Power[n + 1] = Radix * Promise!Power[n]
<1>1. PICK V : V = Nat \ {0}
  OBVIOUS
<1>2. PICK F, a : F = [p \in Nat \X V |-> Radix * p[2]] /\ a = 1
  OBVIOUS
<1>3. F \in [Nat \X V -> V] /\ a \in V
  BY <1>1, <1>2, Scaled
<1>4. PICK f : f \in Recursive(V, a, F)
  BY <1>3, Recursion
<1>5. f \in [Nat -> V] /\ f[0] = 1 /\ \A n \in Nat : f[n + 1] = F[<<n, f[n]>>]
  BY <1>2, <1>4 DEF Recursive
<1>6. \A n \in Nat : f[n + 1] = Radix * f[n]
  <2>1. \A n \in Nat : f[n] \in V /\ <<n, f[n]>> \in Nat \X V
    BY <1>5
  <2> QED BY <1>2, <1>5, <2>1
<1>7. ASSUME NEW n \in Nat PROVE f[n] = IF n = 0 THEN 1 ELSE Radix * f[n - 1]
  <2>1. CASE n = 0
    BY <1>5, <2>1
  <2>2. CASE n # 0
    <3>1. n - 1 \in Nat /\ (n - 1) + 1 = n
      BY <2>2
    <3> QED BY <1>6, <2>2, <3>1
  <2> QED BY <2>1, <2>2
<1>8. f = [n \in Nat |-> IF n = 0 THEN 1 ELSE Radix * f[n - 1]]
  BY <1>5, <1>7
<1>9. Promise!Power = [n \in Nat |-> IF n = 0 THEN 1 ELSE Radix * Promise!Power[n - 1]]
  BY <1>8 DEF Promise!Power
<1>10. Promise!Power[0] = 1 /\ \A n \in Nat : Promise!Power[n + 1] = Radix * Promise!Power[n]
  <2>1. ASSUME NEW n \in Nat PROVE Promise!Power[n + 1] = Radix * Promise!Power[n]
    <3>1. n + 1 \in Nat /\ n + 1 # 0 /\ (n + 1) - 1 = n
      OBVIOUS
    <3> QED BY <1>9, <3>1
  <2> QED BY <1>9, <2>1
<1> DEFINE S == {n \in Nat : Promise!Power[n] \in Nat \ {0}}
<1>11. 0 \in S
  BY <1>10
<1>12. ASSUME NEW n \in Nat, n \in S PROVE n + 1 \in S
  BY <1>10, <1>12, Scaled
<1> HIDE DEF S
<1>13. Nat \subseteq S
  BY <1>11, <1>12, SetInduction
<1>14. \A n \in Nat : Promise!Power[n] \in Nat \ {0}
  BY <1>13 DEF S
<1> QED BY <1>9, <1>10, <1>14

(* A number is the sum of its bytes. *)
LEMMA Sums ==
  ASSUME NEW s \in Seq(Nat)
  PROVE  \E f \in [0..Len(s) -> Nat] :
           /\ f[0] = 0
           /\ \A n \in 0..(Len(s) - 1) : f[n + 1] = f[n] + s[n + 1] * Promise!Power[n]
           /\ Promise!Number(s) = f[Len(s)]
<1>1. PICK F : F = [p \in Nat \X Nat |->
                     p[2] + (IF p[1] < Len(s) THEN s[p[1] + 1] ELSE 0) * Promise!Power[p[1]]]
  OBVIOUS
<1>2. ASSUME NEW n \in Nat, NEW x \in Nat
      PROVE  F[<<n, x>>] \in Nat /\ (n < Len(s) => F[<<n, x>>] = x + s[n + 1] * Promise!Power[n])
  <2>1. PICK d : d = IF n < Len(s) THEN s[n + 1] ELSE 0
    OBVIOUS
  <2>2. d \in Nat
    BY <2>1
  <2>3. PICK q \in Nat : q = Promise!Power[n]
    BY Powers
  <2>4. F[<<n, x>>] = x + d * q
    BY <1>1, <2>1, <2>3
  <2>5. x + d * q \in Nat
    BY <2>2
  <2> QED BY <2>1, <2>3, <2>4, <2>5
<1>3. F \in [Nat \X Nat -> Nat]
  BY <1>1, <1>2
<1>4. PICK V, a : V = Nat /\ a = 0
  OBVIOUS
<1>5. F \in [Nat \X V -> V] /\ a \in V
  BY <1>3, <1>4
<1>6. PICK h : h \in Recursive(V, a, F)
  BY <1>5, Recursion
<1>7. h \in [Nat -> Nat] /\ h[0] = 0 /\ \A n \in Nat : h[n + 1] = F[<<n, h[n]>>]
  BY <1>4, <1>6 DEF Recursive
<1> DEFINE f == [n \in 0..Len(s) |-> h[n]]
<1>8. f \in [0..Len(s) -> Nat] /\ f[0] = 0
  BY <1>7
<1>9. ASSUME NEW n \in 0..(Len(s) - 1) PROVE f[n + 1] = f[n] + s[n + 1] * Promise!Power[n]
  <2>1. n \in 0..Len(s) /\ n + 1 \in 0..Len(s) /\ n \in Nat /\ n < Len(s)
    OBVIOUS
  <2>2. h[n] \in Nat /\ f[n] = h[n] /\ f[n + 1] = h[n + 1]
    BY <1>7, <2>1
  <2> HIDE DEF f
  <2> QED BY <1>2, <1>7, <2>1, <2>2
<1> HIDE DEF f
<1>10. ASSUME NEW n \in 0..Len(s)
      PROVE  f[n] = IF n = 0 THEN 0 ELSE f[n - 1] + s[n] * Promise!Power[n - 1]
  <2>1. CASE n = 0
    BY <1>8, <2>1
  <2>2. CASE n # 0
    <3>1. n - 1 \in 0..(Len(s) - 1) /\ (n - 1) + 1 = n
      BY <2>2
    <3> QED BY <1>9, <2>2, <3>1
  <2> QED BY <2>1, <2>2
<1>11. f = [n \in 0..Len(s) |-> IF n = 0 THEN 0 ELSE f[n - 1] + s[n] * Promise!Power[n - 1]]
  BY <1>8, <1>10
<1>12. PICK g : /\ Promise!Number(s) = g[Len(s)]
               /\ g = [n \in 0..Len(s) |-> IF n = 0 THEN 0 ELSE g[n - 1] + s[n] * Promise!Power[n - 1]]
  BY <1>11 DEF Promise!Number
<1> DEFINE S == {n \in Nat : n <= Len(s) => g[n] = f[n]}
<1>13. 0 \in S
  BY <1>8, <1>12
<1>14. ASSUME NEW n \in Nat, n \in S PROVE n + 1 \in S
  <2> SUFFICES ASSUME n + 1 <= Len(s) PROVE g[n + 1] = f[n + 1]
    OBVIOUS
  <2>1. Len(s) \in Nat
    OBVIOUS
  <2>2. n + 1 \in 0..Len(s) /\ n + 1 # 0 /\ (n + 1) - 1 = n /\ n \in 0..(Len(s) - 1) /\ n <= Len(s)
    BY <2>1
  <2>3. g[n] = f[n]
    BY <1>14, <2>2
  <2>4. g[n + 1] = g[n] + s[n + 1] * Promise!Power[n]
    BY <1>12, <2>2
  <2>5. g[n + 1] = f[n + 1]
    BY <1>9, <2>2, <2>3, <2>4
  <2> QED BY <2>5
<1> HIDE DEF S
<1>15. Len(s) \in S
  <2>1. Nat \subseteq S
    BY <1>13, <1>14, SetInduction
  <2> QED BY <2>1
<1>16. g[Len(s)] = f[Len(s)]
  BY <1>15 DEF S
<1> QED BY <1>8, <1>9, <1>12, <1>16

(* More bytes make no fewer numbers.                                       *)
LEMMA PowersGrow ==
  ASSUME NEW n \in Nat, NEW m \in Nat, n <= m
  PROVE  Promise!Power[n] <= Promise!Power[m]
<1> DEFINE S == {k \in Nat : Promise!Power[n] <= Promise!Power[n + k]}
<1>1. 0 \in S
  BY Powers
<1>2. ASSUME NEW k \in Nat, k \in S PROVE k + 1 \in S
  <2>1. n + k \in Nat /\ n + (k + 1) = (n + k) + 1
    OBVIOUS
  <2>2. PICK p, q \in Nat \ {0} : p = Promise!Power[n] /\ q = Promise!Power[n + k]
    BY Powers, <2>1
  <2>3. Promise!Power[n + (k + 1)] = Radix * q /\ p <= q
    BY <1>2, Powers, <2>1, <2>2
  <2>4. p <= Radix * q
    BY <2>2, <2>3, Bases
  <2> QED BY <2>2, <2>3, <2>4
<1> HIDE DEF S
<1>3. Nat \subseteq S
  BY <1>1, <1>2, SetInduction
<1>4. m - n \in S
  BY <1>3
<1>5. n + (m - n) = m
  OBVIOUS
<1> QED BY <1>4, <1>5 DEF S

(* The low bytes of a word are the word again, modulo their range: what is *)
(* stored is what is loaded.                                               *)
LEMMA NumberOfBytes ==
  ASSUME NEW word \in Nat, NEW n \in Nat
  PROVE  /\ Bytes(word, n) \in Seq(0..(Radix - 1)) /\ Len(Bytes(word, n)) = n
         /\ Promise!Number(Bytes(word, n)) = word % Promise!Power[n]
<1> DEFINE s == Bytes(word, n)
<1>1. \A k \in Nat : (word \div Promise!Power[k]) % Radix \in 0..(Radix - 1)
  <2> SUFFICES ASSUME NEW k \in Nat PROVE (word \div Promise!Power[k]) % Radix \in 0..(Radix - 1)
    OBVIOUS
  <2>1. word \div Promise!Power[k] \in Nat
    BY Powers, Quotient
  <2> QED BY <2>1, Bases, Quotient
<1>2. s \in Seq(0..(Radix - 1)) /\ Len(s) = n
      /\ \A k \in 0..(n - 1) : s[k + 1] = (word \div Promise!Power[k]) % Radix
  BY <1>1 DEF Bytes
<1>3. s \in Seq(Nat)
  BY <1>2, Bases
<1> HIDE DEF s
<1>4. PICK f \in [0..Len(s) -> Nat] :
         /\ f[0] = 0
         /\ \A k \in 0..(Len(s) - 1) : f[k + 1] = f[k] + s[k + 1] * Promise!Power[k]
         /\ Promise!Number(s) = f[Len(s)]
  BY <1>3, Sums
<1> DEFINE S == {k \in Nat : k <= n => f[k] = word % Promise!Power[k]}
<1>5. 0 \in S
  BY <1>4, Powers
<1>6. ASSUME NEW k \in Nat, k \in S PROVE k + 1 \in S
  <2> SUFFICES ASSUME k + 1 <= n PROVE f[k + 1] = word % Promise!Power[k + 1]
    OBVIOUS
  <2>1. k \in 0..(n - 1) /\ k <= n
    OBVIOUS
  <2>2. PICK p \in Nat \ {0} : p = Promise!Power[k] /\ Promise!Power[k + 1] = Radix * p
    BY Powers
  <2>3. PICK q \in Nat, r \in 0..(p - 1) : q = word \div p /\ r = word % p /\ word = q * p + r
    BY Quotient
  <2>4. PICK e \in Nat, d \in 0..(Radix - 1) : e = q \div Radix /\ d = q % Radix /\ q = e * Radix + d
    BY Quotient, Bases
  <2>5. f[k + 1] = r + d * p
    BY <1>2, <1>4, <1>6, <2>1, <2>2, <2>3, <2>4
  <2>6. word = e * (Radix * p) + (d * p + r)
    <3>1. (e * Radix + d) * p = e * (Radix * p) + d * p
      BY Bases
    <3>2. PICK x : x = e * Radix + d
      OBVIOUS
    <3>3. q = x /\ x * p = e * (Radix * p) + d * p
      BY <2>4, <3>1, <3>2
    <3>4. PICK u, v \in Nat : u = e * (Radix * p) /\ v = d * p
      BY Bases
    <3>5. word = (u + v) + r
      BY <2>3, <3>3, <3>4
    <3>6. word = u + (v + r)
      BY <3>4, <3>5
    <3> QED BY <3>4, <3>6
  <2>7. d * p + r \in 0..(Radix * p - 1)
    <3>1. d * p <= (Radix - 1) * p
      BY Bases
    <3>2. (Radix - 1) * p = Radix * p - p
      BY Bases
    <3>3. d * p \in Nat /\ Radix * p \in Nat
      BY Bases
    <3> QED BY <3>1, <3>2, <3>3
  <2>8. Radix * p \in Nat \ {0}
    BY Bases
  <2>9. PICK z \in Nat \ {0} : z = Radix * p
    BY <2>8
  <2>10. PICK t \in 0..(z - 1) : t = d * p + r /\ t = r + d * p
    BY <2>7, <2>9
  <2>11. (e * z + t) % z = t
    OBVIOUS
  <2> QED BY <2>2, <2>5, <2>6, <2>9, <2>10, <2>11
<1> HIDE DEF S
<1>7. n \in S
  <2>1. Nat \subseteq S
    BY <1>5, <1>6, SetInduction
  <2> QED BY <2>1
<1>8. Promise!Number(s) = word % Promise!Power[n]
  BY <1>2, <1>4, <1>7 DEF S
<1> QED BY <1>2, <1>8 DEF s

(* n bytes are a number below Radix^n.                                     *)
LEMMA NumberInRange ==
  ASSUME NEW s \in Seq(0..(Radix - 1))
  PROVE  Promise!Number(s) \in 0..(Promise!Power[Len(s)] - 1)
<1>1. s \in Seq(Nat) /\ Len(s) \in Nat /\ \A k \in 0..(Len(s) - 1) : s[k + 1] \in 0..(Radix - 1)
  BY Bases
<1>2. PICK f \in [0..Len(s) -> Nat] :
         /\ f[0] = 0
         /\ \A k \in 0..(Len(s) - 1) : f[k + 1] = f[k] + s[k + 1] * Promise!Power[k]
         /\ Promise!Number(s) = f[Len(s)]
  BY <1>1, Sums
<1> DEFINE S == {k \in Nat : k <= Len(s) => f[k] < Promise!Power[k]}
<1>3. 0 \in S
  BY <1>2, Powers
<1>4. ASSUME NEW k \in Nat, k \in S PROVE k + 1 \in S
  <2> SUFFICES ASSUME k + 1 <= Len(s) PROVE f[k + 1] < Promise!Power[k + 1]
    OBVIOUS
  <2>1. k \in 0..(Len(s) - 1) /\ k <= Len(s) /\ k \in 0..Len(s)
    BY <1>1
  <2>2. PICK p \in Nat \ {0} : p = Promise!Power[k] /\ Promise!Power[k + 1] = Radix * p
    BY Powers
  <2>3. PICK d \in 0..(Radix - 1), x \in Nat : d = s[k + 1] /\ x = f[k]
    BY <1>1, <2>1
  <2>4. f[k + 1] = x + d * p /\ x < p
    BY <1>2, <1>4, <2>1, <2>2, <2>3
  <2>5. d * p <= (Radix - 1) * p
    BY Bases
  <2>6. (Radix - 1) * p = Radix * p - p /\ d * p \in Nat /\ Radix * p \in Nat
    BY Bases
  <2> QED BY <2>2, <2>4, <2>5, <2>6
<1> HIDE DEF S
<1>5. Len(s) \in S
  <2>1. Nat \subseteq S
    BY <1>3, <1>4, SetInduction
  <2> QED BY <1>1, <2>1
<1>6. f[Len(s)] < Promise!Power[Len(s)]
  BY <1>1, <1>5 DEF S
<1>7. f[Len(s)] \in Nat /\ Promise!Power[Len(s)] \in Nat
  <2>1. Len(s) \in 0..Len(s)
    BY <1>1
  <2> QED BY <1>1, <1>2, <2>1, Powers
<1> QED BY <1>2, <1>6, <1>7

(* Sign extension keeps the number, as a signed one, in a wider register.  *)
LEMMA SignExtends ==
  ASSUME NEW n \in Nat, NEW w \in Nat, n <= w, NEW x \in 0..(Promise!Power[n] - 1)
  PROVE  /\ 2 * x >= Promise!Power[n] =>
              Promise!Signed((x - Promise!Power[n]) % Promise!Power[w], w) = Promise!Signed(x, n)
         /\ ~(2 * x >= Promise!Power[n]) => Promise!Signed(x, w) = Promise!Signed(x, n)
<1>1. PICK p, q \in Nat \ {0} : p = Promise!Power[n] /\ q = Promise!Power[w] /\ p <= q
  BY Powers, PowersGrow
<1>2. x \in 0..(p - 1)
  BY <1>1
<1>3. ASSUME 2 * x >= p
      PROVE  Promise!Signed((x - p) % q, w) = Promise!Signed(x, n)
  <2>1. x - p \in Int /\ -q <= x - p /\ x - p < 0
    BY <1>1, <1>2
  <2>2. (x - p) % q = (x - p) + q
    BY <2>1, ModuloBelow
  <2> QED BY <1>1, <1>2, <1>3, <2>2 DEF Promise!Signed
<1>4. ASSUME ~(2 * x >= p) PROVE Promise!Signed(x, w) = Promise!Signed(x, n)
  BY <1>1, <1>2, <1>4 DEF Promise!Signed
<1> QED BY <1>1, <1>3, <1>4

-----------------------------------------------------------------------------
(* The heap: what is behind the references. *)

Byte == 0..(Radix - 1)

(* The memory has grown to some number of pages, which its type allows.    *)
Allowed(t, size) ==
  \E pages \in t.min..(WordLimit - 1) :
    /\ size = pages * t.page /\ size <= WordLimit
    /\ t.max # Unbounded => pages <= t.max

(* No garbage shows: a block holds the bytes of its memory and no others.  *)
Backed ==
  /\ block \in [Blocks -> Seq(Byte) \cup {Free}]
  /\ \A b \in Blocks : block[b] # Free => \E o \in Live : mem[o].ptr = b
  /\ \A o \in Live :
       /\ Allowed(TypeOf[o], mem[o].size)
       /\ mem[o].ptr = Null => mem[o].size = 0
       /\ mem[o].ptr # Null => /\ block[mem[o].ptr] \in Seq(Byte)
                               /\ Len(block[mem[o].ptr]) = mem[o].size
  /\ \A o, p \in Live : o # p /\ mem[o].ptr = mem[p].ptr => mem[o].ptr = Null

(* The test of the linker, about types, still holds of what it linked.     *)
ImportsLinked ==
  \A m \in loaded \cup {load} :
    m # None /\ MemoryOf[m] # NoMemory =>
      /\ mem[MemoryOf[m]] # Dropped
      /\ Owner[MemoryOf[m]] # m => matches(TypeOf[MemoryOf[m]], ImportType[m])

(* Unlike the counts this survives a panic: the process ends, and nothing  *)
(* is freed.                                                               *)
Heap ==
  /\ Types /\ held \in [AllMemories -> 0..MaxHeld]
  /\ Backed /\ ImportsLinked

(* What MemoryAssumption says of the type of a memory.                     *)
LEMMA TypeLimits ==
  ASSUME NEW o \in Memories
  PROVE  /\ TypeOf[o].min \in 0..(WordLimit - 1) /\ TypeOf[o].page \in Nat \ {0}
         /\ TypeOf[o].min * TypeOf[o].page <= WordLimit
         /\ TypeOf[o].max # Unbounded => /\ TypeOf[o].max \in Nat /\ TypeOf[o].min <= TypeOf[o].max
                                         /\ TypeOf[o].max * TypeOf[o].page <= WordLimit
BY MemoryAssumption

(* The marks are none of the values they stand beside.                     *)
LEMMA Constants ==
  /\ WordLimit \in Nat \ {0} /\ MaxHeld \in Nat /\ Null \notin Blocks
  /\ Byte \subseteq Nat /\ 0 \in Byte
  /\ Free \notin Seq(Byte) /\ Dropped \notin Seq(Byte)
<1>1. Byte \subseteq Nat /\ 0 \in Byte
  BY Bases DEF Byte
<1>2. Seq(Byte) \subseteq Seq(Nat)
  <2>1. ASSUME NEW s \in Seq(Byte) PROVE s \in Seq(Nat)
    <3>1. Len(s) \in Nat /\ s = [i \in 1..Len(s) |-> s[i]] /\ \A i \in 1..Len(s) : s[i] \in Nat
      BY <1>1
    <3> QED BY <3>1
  <2> QED BY <2>1
<1>3. Free \notin Seq(Nat) /\ Dropped \notin Seq(Nat) /\ WordLimit \in Nat \ {0} /\ MaxHeld \in Nat
      /\ Null \notin Blocks
  BY MemoryAssumption
<1> QED BY <1>1, <1>2, <1>3

(* The bytes behind a memory that is there. *)
Content(o) == IF mem[o].ptr = Null THEN <<>> ELSE block[mem[o].ptr]

(* The bytes of a memory that is alive fill its block.                     *)
LEMMA ContentIs ==
  ASSUME Types, Backed, NEW o \in Live
  PROVE  /\ mem[o] \in Memory
         /\ Content(o) \in Seq(Byte) /\ Len(Content(o)) = mem[o].size
         /\ mem[o].size > 0 => mem[o].ptr \in Blocks /\ block[mem[o].ptr] = Content(o)
<1>1. mem[o] \in Memory
  BY DEF Types, Live
<1>2. CASE mem[o].ptr = Null
  BY <1>1, <1>2 DEF Backed, Content
<1>3. CASE mem[o].ptr # Null
  BY <1>1, <1>3 DEF Backed, Content, Memory
<1> QED BY <1>1, <1>2, <1>3

(* A memory is a whole number of pages, within the limits declared.        *)
LEMMA PagesOf ==
  ASSUME Types, Backed, NEW o \in Live
  PROVE  /\ size_pages(o) \in TypeOf[o].min..(WordLimit - 1)
         /\ mem[o].size = size_pages(o) * TypeOf[o].page
         /\ TypeOf[o].max # Unbounded => size_pages(o) <= TypeOf[o].max
<1>1. o \in Memories /\ o # NoMemory /\ TypeOf[o].min \in Nat
  BY Distinct, TypeLimits DEF Live
<1>2. PICK pages \in TypeOf[o].min..(WordLimit - 1) :
        mem[o].size = pages * TypeOf[o].page /\ (TypeOf[o].max # Unbounded => pages <= TypeOf[o].max)
  BY DEF Backed, Allowed
<1>3. PICK page \in Nat \ {0} : page = TypeOf[o].page
  BY <1>1, TypeLimits
<1>4. pages \in Nat /\ pages < WordLimit /\ WordLimit \in Nat \ {0}
  BY <1>1, <1>2, Constants
<1>5. ((pages * page) \div page) = pages
  <2>1. ((pages * page + 0) \div page) = pages
    BY <1>4
  <2>2. pages * page + 0 = pages * page
    BY <1>4
  <2> QED BY <2>1, <2>2
<1>6. pages % WordLimit = pages
  BY <1>4
<1>7. size_pages(o) = pages
  BY <1>1, <1>2, <1>3, <1>5, <1>6 DEF size_pages, SizeOf
<1> QED BY <1>2, <1>7

-----------------------------------------------------------------------------
(* What steps do to the heap *)

(* Memory o, new or old, is given the block q with the bytes d; the block  *)
(* it had goes back to the allocator.                                      *)
Placed(o, q, d) ==
  /\ q \in Blocks /\ (block[q] = Free \/ (o \in Live /\ mem[o].ptr = q))
  /\ mem' = [mem EXCEPT ![o] = [ptr |-> q, size |-> Len(d)]]
  /\ block' = [b \in Blocks |-> IF b = q THEN d
                                ELSE IF o \in Live /\ mem[o].ptr = b THEN Free ELSE block[b]]

(* A memory that moves to a block of its own leaves the others alone.      *)
LEMMA PlacedKeepsBacked ==
  ASSUME Types, Backed, NEW o \in Memories, NEW q, NEW d \in Seq(Byte), Placed(o, q, d),
         Allowed(TypeOf[o], Len(d))
  PROVE  Backed'
<1>1. /\ q \in Blocks /\ (block[q] = Free \/ (o \in Live /\ mem[o].ptr = q))
      /\ mem' = [mem EXCEPT ![o] = [ptr |-> q, size |-> Len(d)]]
      /\ mem \in [Memories -> Memory \cup {Dropped}] /\ Len(d) \in Nat
  BY DEF Placed, Types
<1>2. /\ block' \in [Blocks -> Seq(Byte) \cup {Free}] /\ block'[q] = d
      /\ \A b \in Blocks : b # q => block'[b] = IF o \in Live /\ mem[o].ptr = b THEN Free ELSE block[b]
  BY <1>1 DEF Placed, Backed
<1>3. /\ mem'[o] = [ptr |-> q, size |-> Len(d)] /\ [ptr |-> q, size |-> Len(d)] # Dropped
      /\ \A p \in Memories : p # o => mem'[p] = mem[p]
  <2>1. [ptr |-> q, size |-> Len(d)] \in Memory
    BY <1>1 DEF Memory
  <2> QED BY <1>1, <2>1, Distinct
<1>4. Live' = Live \cup {o}
  BY <1>3 DEF Live
(* The blocks of the others are not touched. *)
<1>5. ASSUME NEW p \in Live, p # o, mem[p].ptr # Null
      PROVE  mem[p].ptr \in Blocks /\ mem[p].ptr # q /\ block'[mem[p].ptr] = block[mem[p].ptr]
             /\ block[mem[p].ptr] # Free
  <2>1. mem[p] \in Memory /\ block[mem[p].ptr] \in Seq(Byte)
    BY <1>1, <1>5 DEF Backed, Live
  <2>2. mem[p].ptr \in Blocks /\ block[mem[p].ptr] # Free
    BY <1>5, <2>1, Constants DEF Memory
  <2>3. o \in Live => mem[p].ptr # mem[o].ptr
    BY <1>5 DEF Backed
  <2>4. mem[p].ptr # q
    BY <1>1, <2>2, <2>3
  <2> QED BY <1>2, <2>2, <2>3, <2>4
<1>6. ASSUME NEW b \in Blocks, block'[b] # Free PROVE \E p \in Live' : mem'[p].ptr = b
  <2>1. CASE b = q
    BY <1>3, <1>4, <2>1
  <2>2. CASE b # q
    <3>1. block[b] # Free /\ ~(o \in Live /\ mem[o].ptr = b)
      BY <1>2, <1>6, <2>2
    <3>2. PICK p \in Live : mem[p].ptr = b
      BY <3>1 DEF Backed
    <3>3. p # o /\ p \in Memories
      BY <3>1, <3>2 DEF Live
    <3> QED BY <1>3, <1>4, <3>2, <3>3
  <2> QED BY <2>1, <2>2
<1>7. ASSUME NEW p \in Live'
      PROVE  /\ Allowed(TypeOf[p], mem'[p].size)
             /\ mem'[p].ptr = Null => mem'[p].size = 0
             /\ mem'[p].ptr # Null => /\ block'[mem'[p].ptr] \in Seq(Byte)
                                      /\ Len(block'[mem'[p].ptr]) = mem'[p].size
  <2>1. CASE p = o
    BY <1>1, <1>2, <1>3, <2>1, Constants
  <2>2. CASE p # o
    <3>1. p \in Live /\ p \in Memories /\ mem'[p] = mem[p]
      BY <1>3, <1>4, <2>2 DEF Live
    <3>2. /\ Allowed(TypeOf[p], mem[p].size)
          /\ mem[p].ptr = Null => mem[p].size = 0
          /\ mem[p].ptr # Null => /\ block[mem[p].ptr] \in Seq(Byte)
                                  /\ Len(block[mem[p].ptr]) = mem[p].size
      BY <3>1 DEF Backed
    <3> QED BY <1>5, <2>2, <3>1, <3>2
  <2> QED BY <2>1, <2>2
<1>8. ASSUME NEW p \in Live', NEW r \in Live', p # r, mem'[p].ptr = mem'[r].ptr
      PROVE  mem'[p].ptr = Null
  <2>1. p \in Memories /\ r \in Memories
    BY DEF Live
  <2>2. CASE p = o
    BY <1>3, <1>4, <1>5, <1>8, <2>1, <2>2
  <2>3. CASE r = o
    BY <1>3, <1>4, <1>5, <1>8, <2>1, <2>3
  <2>4. CASE p # o /\ r # o
    BY <1>3, <1>4, <1>8, <2>1, <2>4 DEF Backed
  <2> QED BY <2>2, <2>3, <2>4
<1> QED BY <1>2, <1>6, <1>7, <1>8 DEF Backed

(* Rc::drop frees the block of the memory it was the last to refer to.     *)
LEMMA DropKeepsBacked ==
  ASSUME Types, Backed, NEW c, drop(c, block)
  PROVE  /\ Backed' /\ Live' \subseteq Live
         /\ \A o \in Live' : Content(o)' = Content(o)
<1>1. /\ mem \in [Memories -> Memory \cup {Dropped}]
      /\ mem' = [o \in Memories |-> IF o \in Dying(c) THEN Dropped ELSE mem[o]]
      /\ block' = [p \in Blocks |-> IF \E o \in Dying(c) : mem[o].ptr = p THEN Free ELSE block[p]]
      /\ Dying(c) \subseteq Live
  BY DEF drop, Returned, Types, Dying
<1>2. Live' = Live \ Dying(c)
  BY <1>1 DEF Live
<1>3. ASSUME NEW o \in Live'
      PROVE  /\ mem'[o] = mem[o] /\ o \in Live /\ Content(o)' = Content(o)
             /\ mem[o].ptr # Null => block'[mem[o].ptr] = block[mem[o].ptr]
  <2>1. o \in Live /\ o \notin Dying(c) /\ mem'[o] = mem[o]
    BY <1>1, <1>2 DEF Live
  <2>2. mem[o].ptr # Null => block'[mem[o].ptr] = block[mem[o].ptr]
    <3> SUFFICES ASSUME mem[o].ptr # Null PROVE block'[mem[o].ptr] = block[mem[o].ptr]
      OBVIOUS
    <3>1. mem[o].ptr \in Blocks
      BY <2>1, ContentIs DEF Memory
    <3>2. ~\E p \in Dying(c) : mem[p].ptr = mem[o].ptr
      BY <1>1, <2>1 DEF Backed
    <3> QED BY <1>1, <3>1, <3>2
  <2> QED BY <2>1, <2>2 DEF Content
<1>4. block' \in [Blocks -> Seq(Byte) \cup {Free}]
  BY <1>1 DEF Backed
<1>5. ASSUME NEW b \in Blocks, block'[b] # Free PROVE \E o \in Live' : mem'[o].ptr = b
  <2>1. block[b] # Free /\ ~\E o \in Dying(c) : mem[o].ptr = b
    BY <1>1, <1>5
  <2>2. PICK o \in Live : mem[o].ptr = b
    BY <2>1 DEF Backed
  <2>3. o \in Live'
    BY <1>2, <2>1, <2>2
  <2> QED BY <1>3, <2>2, <2>3
<1>6. ASSUME NEW o \in Live'
      PROVE  /\ Allowed(TypeOf[o], mem'[o].size)
             /\ mem'[o].ptr = Null => mem'[o].size = 0
             /\ mem'[o].ptr # Null => /\ block'[mem'[o].ptr] \in Seq(Byte)
                                      /\ Len(block'[mem'[o].ptr]) = mem'[o].size
  <2>1. /\ o \in Live /\ mem'[o] = mem[o]
        /\ mem[o].ptr # Null => block'[mem[o].ptr] = block[mem[o].ptr]
    BY <1>3
  <2>2. /\ Allowed(TypeOf[o], mem[o].size)
        /\ mem[o].ptr = Null => mem[o].size = 0
        /\ mem[o].ptr # Null => /\ block[mem[o].ptr] \in Seq(Byte)
                                /\ Len(block[mem[o].ptr]) = mem[o].size
    BY <2>1 DEF Backed
  <2> QED BY <2>1, <2>2
<1>7. \A o, p \in Live' : o # p /\ mem'[o].ptr = mem'[p].ptr => mem'[o].ptr = Null
  BY <1>3 DEF Backed
<1>8. Backed'
  BY <1>4, <1>5, <1>6, <1>7 DEF Backed
<1> QED BY <1>2, <1>3, <1>8

(* The bytes d of a memory, with s written into them. *)
Overwritten(d, at, s) ==
  [i \in 1..Len(d) |-> IF at < i /\ i <= at + Len(s) THEN s[i - at] ELSE d[i]]

(* Bytes written within a block leave a block of the same length.          *)
LEMMA OverwrittenIs ==
  ASSUME NEW d \in Seq(Byte), NEW at \in Nat, NEW s \in Seq(Byte)
  PROVE  Overwritten(d, at, s) \in Seq(Byte) /\ Len(Overwritten(d, at, s)) = Len(d)
<1>1. ASSUME NEW i \in 1..Len(d), at < i, i <= at + Len(s)
      PROVE  s[i - at] \in Byte
  BY <1>1
<1>2. \A i \in 1..Len(d) : d[i] \in Byte
  OBVIOUS
<1>3. \A i \in 1..Len(d) : (IF at < i /\ i <= at + Len(s) THEN s[i - at] ELSE d[i]) \in Byte
  BY <1>1, <1>2
<1> QED BY <1>3 DEF Overwritten

(* One memory has new bytes in place. *)
Rewritten(o, d) == mem' = mem /\ block' = [block EXCEPT ![mem[o].ptr] = d]

(* A block rewritten in place stays the block of its memory.               *)
LEMMA RewrittenKeepsBacked ==
  ASSUME Types, Backed, NEW o \in Live, mem[o].ptr # Null, NEW d \in Seq(Byte),
         Len(d) = mem[o].size, Rewritten(o, d)
  PROVE  /\ Backed' /\ Live' = Live /\ Content(o)' = d
         /\ \A p \in Live : p # o => Content(p)' = Content(p)
<1>1. mem' = mem /\ Live' = Live
  BY DEF Rewritten, Live
<1>2. mem[o].ptr \in Blocks /\ block \in [Blocks -> Seq(Byte) \cup {Free}]
  BY ContentIs DEF Memory, Backed
<1>3. /\ block' \in [Blocks -> Seq(Byte) \cup {Free}] /\ block'[mem[o].ptr] = d
      /\ \A b \in Blocks : b # mem[o].ptr => block'[b] = block[b]
  BY <1>2 DEF Rewritten
<1>4. ASSUME NEW p \in Live, p # o, mem[p].ptr # Null
      PROVE  block'[mem[p].ptr] = block[mem[p].ptr]
  <2>1. mem[p].ptr \in Blocks /\ mem[p].ptr # mem[o].ptr
    BY <1>4, ContentIs DEF Memory, Backed
  <2> QED BY <1>3, <2>1
<1>5. ASSUME NEW b \in Blocks, block'[b] # Free PROVE \E p \in Live : mem[p].ptr = b
  BY <1>3, <1>5 DEF Backed
<1>6. ASSUME NEW p \in Live
      PROVE  /\ Allowed(TypeOf[p], mem[p].size)
             /\ mem[p].ptr = Null => mem[p].size = 0
             /\ mem[p].ptr # Null => /\ block'[mem[p].ptr] \in Seq(Byte)
                                     /\ Len(block'[mem[p].ptr]) = mem[p].size
  <2>1. /\ Allowed(TypeOf[p], mem[p].size)
        /\ mem[p].ptr = Null => mem[p].size = 0
        /\ mem[p].ptr # Null => /\ block[mem[p].ptr] \in Seq(Byte)
                                /\ Len(block[mem[p].ptr]) = mem[p].size
    BY DEF Backed
  <2> QED BY <1>3, <1>4, <2>1
<1>7. Backed'
  BY <1>1, <1>3, <1>5, <1>6 DEF Backed
<1>8. Content(o)' = d
  BY <1>1, <1>3 DEF Content
<1>9. ASSUME NEW p \in Live, p # o PROVE Content(p)' = Content(p)
  BY <1>1, <1>4, <1>9 DEF Content
<1> QED BY <1>1, <1>7, <1>8, <1>9

(* A store, or a write of the host or of a data segment. *)
Writes(o, at, n, word) ==
  /\ at + n <= mem[o].size
  /\ mem' = mem /\ block' = Written(o, at, Bytes(word, n))

(* What store_bytes does to the heap.                                      *)
LEMMA WritesRewrite ==
  ASSUME Types, Backed, NEW o \in Live, NEW at \in Nat, NEW n \in Nat \ {0}, NEW word \in Nat,
         Writes(o, at, n, word)
  PROVE  /\ mem[o].ptr # Null
         /\ Rewritten(o, Overwritten(Content(o), at, Bytes(word, n)))
<1>1. Bytes(word, n) \in Seq(Byte) /\ Len(Bytes(word, n)) = n
  BY NumberOfBytes DEF Byte
<1>2. Bytes(word, n) # <<>>
  BY <1>1
<1>3. mem[o].size \in Nat /\ mem[o].size > 0
  BY ContentIs DEF Writes, Memory
<1>4. mem[o].ptr # Null /\ mem[o].ptr \in Blocks /\ block[mem[o].ptr] = Content(o)
  BY <1>3, ContentIs, Constants
<1> DEFINE d == Overwritten(Content(o), at, Bytes(word, n))
<1>5. block' = [block EXCEPT ![mem[o].ptr] = Overwritten(block[mem[o].ptr], at, Bytes(word, n))]
  BY <1>2 DEF Writes, Written, Overwritten
<1> QED BY <1>4, <1>5 DEF Rewritten, Writes

LEMMA ZerosAre ==
  ASSUME NEW n \in Nat
  PROVE  Zeros(n) \in Seq(Byte) /\ Len(Zeros(n)) = n
BY Constants DEF Zeros

(* The bytes of a memory that has grown by n zeros. *)
LEMMA GrownBytes ==
  ASSUME NEW c \in Seq(Byte), NEW n \in Nat
  PROVE  /\ c \o Zeros(n) \in Seq(Byte) /\ Len(c \o Zeros(n)) = Len(c) + n
         /\ c \o Zeros(n) = [i \in 1..(Len(c) + n) |-> IF i > Len(c) THEN 0 ELSE c[i]]
<1>1. Zeros(n) \in Seq(Byte) /\ Len(Zeros(n)) = n /\ \A i \in 1..n : Zeros(n)[i] = 0
  BY ZerosAre DEF Zeros
<1>2. PICK z \in Seq(Byte) : z = Zeros(n) /\ Len(z) = n /\ \A i \in 1..n : z[i] = 0
  BY <1>1
<1>3. /\ c \o z \in Seq(Byte) /\ Len(c \o z) = Len(c) + n
      /\ \A i \in 1..(Len(c) + n) : (c \o z)[i] = IF i > Len(c) THEN 0 ELSE c[i]
  BY <1>2
<1>4. PICK g \in Seq(Byte) : g = c \o z
  BY <1>3
<1>5. g = [i \in 1..Len(g) |-> g[i]]
  OBVIOUS
<1>6. Len(g) = Len(c) + n /\ \A i \in 1..(Len(c) + n) : g[i] = IF i > Len(c) THEN 0 ELSE c[i]
  BY <1>3, <1>4
<1>7. g = [i \in 1..(Len(c) + n) |-> IF i > Len(c) THEN 0 ELSE c[i]]
  BY <1>5, <1>6
<1> QED BY <1>2, <1>4, <1>6, <1>7

(* The outcomes of the allocator, and of its resizing.                     *)
LEMMA Allocated ==
  ASSUME NEW t, NEW outcome \in allocate(t), outcome.ptr # Null
  PROVE  \E q \in Unused :
           outcome = [ptr |-> q, block |-> [block EXCEPT ![q] = [i \in 1..t |-> Garbage]]]
<1>1. outcome # Refused
  BY DEF Refused
<1> QED BY <1>1, Zenon DEF allocate

LEMMA Reallocated ==
  ASSUME NEW p, NEW t, NEW outcome \in reallocate(p, t), outcome.ptr # Null
  PROVE  \E q \in Unused \cup {p} :
           outcome = [ptr |-> q, block |-> [block EXCEPT ![p] = Free, ![q] = Resized(block[p], t)]]
<1>1. outcome # Refused
  BY DEF Refused
<1> QED BY <1>1, Zenon DEF reallocate

(* Every way through memory.grow: it fails, grows by no page, or moves the *)
(* memory to a block with its bytes and new zeros.                         *)
LEMMA GrowIs ==
  ASSUME Types, Backed, NEW o \in Live, NEW n \in Nat, grow(o, n)
  PROVE  \/ /\ UNCHANGED <<mem, block>>
            /\ last' = Nothing \/ (n = 0 /\ last' = Promise!Grown(o, 0, size_pages(o)))
         \/ /\ last' = Promise!Grown(o, n, size_pages(o))
            /\ Allowed(TypeOf[o], Len(Content(o) \o Zeros(n * TypeOf[o].page)))
            /\ \E q : Placed(o, q, Content(o) \o Zeros(n * TypeOf[o].page))
<1> DEFINE total == (size_pages(o) + n) * TypeOf[o].page
           outcomes == IF mem[o].ptr = Null THEN allocate(total) ELSE reallocate(mem[o].ptr, total)
<1>1. CASE grow_refused(o, n) \/ n = 0
  BY <1>1 DEF grow
<1>2. CASE ~grow_refused(o, n) /\ n # 0
  <2>1. PICK outcome \in outcomes :
          IF outcome.ptr = Null THEN UNCHANGED <<mem, block>> /\ last' = Nothing
          ELSE /\ block' = Cleared(outcome.block, outcome.ptr, mem[o].size)
               /\ mem' = [mem EXCEPT ![o] = [ptr |-> outcome.ptr, size |-> total]]
               /\ last' = Promise!Grown(o, n, size_pages(o))
    BY <1>2 DEF grow
  <2>2. CASE outcome.ptr = Null
    BY <2>1, <2>2
  <2>3. CASE outcome.ptr # Null
    <3>1. /\ mem[o] \in Memory /\ Content(o) \in Seq(Byte) /\ Len(Content(o)) = mem[o].size
          /\ mem[o].size \in Nat /\ mem[o].size = size_pages(o) * TypeOf[o].page
          /\ block \in [Blocks -> Seq(Byte) \cup {Free}]
      BY ContentIs, PagesOf DEF Memory, Backed
    <3>2. o \in Memories /\ o # NoMemory
      BY Distinct DEF Live
    <3>3. PICK pages \in Nat, page \in Nat \ {0} :
            /\ pages = size_pages(o) /\ page = TypeOf[o].page
            /\ TypeOf[o].min <= pages /\ TypeOf[o].min \in Nat
      <4>1. TypeOf[o].min \in Nat /\ TypeOf[o].page \in Nat \ {0}
        BY <3>2, TypeLimits
      <4> QED BY <4>1, PagesOf
    <3>4. total = mem[o].size + n * page /\ n * page \in Nat
      <4>1. (pages + n) * page = pages * page + n * page /\ n * page \in Nat
        OBVIOUS
      <4>2. total = (pages + n) * page /\ mem[o].size = pages * page
        BY <3>1, <3>3
      <4> HIDE DEF total
      <4> QED BY <4>1, <4>2
    <3>5. Allowed(TypeOf[o], total)
      <4>1. /\ pages + n < WordLimit /\ can_hold(TypeOf[o], pages + n)
        BY <1>2, <3>1, <3>3, Constants DEF grow_refused
      <4>2. pages + n \in TypeOf[o].min..(WordLimit - 1)
        BY <3>3, <4>1, Constants
      <4>3. total <= WordLimit /\ (TypeOf[o].max # Unbounded => pages + n <= TypeOf[o].max)
        <5>1. CASE TypeOf[o].max = Unbounded
          BY <3>3, <4>1, <5>1 DEF can_hold
        <5>2. CASE TypeOf[o].max # Unbounded
          <6>1. PICK max \in Nat : max = TypeOf[o].max /\ max * page <= WordLimit
            BY <3>2, <3>3, <5>2, TypeLimits
          <6>2. pages + n <= max
            BY <4>1, <5>2, <6>1 DEF can_hold
          <6>3. (pages + n) * page <= max * page
            BY <6>2
          <6>4. (pages + n) * page \in Nat /\ max * page \in Nat /\ WordLimit \in Nat
            BY Constants
          <6> QED BY <3>3, <6>1, <6>2, <6>3, <6>4
        <5> QED BY <5>1, <5>2
      <4> QED BY <3>3, <4>2, <4>3 DEF Allowed
    <3> DEFINE d == Content(o) \o Zeros(n * TypeOf[o].page)
    <3> HIDE DEF total
    <3>6. /\ d \in Seq(Byte) /\ Len(d) = total
          /\ d = [i \in 1..total |-> IF i > mem[o].size THEN 0 ELSE Content(o)[i]]
      <4>1. PICK z \in Nat : z = n * page /\ d = Content(o) \o Zeros(z) /\ total = mem[o].size + z
        BY <3>3, <3>4
      <4> HIDE DEF d
      <4>2. PICK c \in Seq(Byte) : c = Content(o) /\ Len(c) = mem[o].size
        BY <3>1
      <4>3. PICK g : /\ g = c \o Zeros(z) /\ g \in Seq(Byte) /\ Len(g) = Len(c) + z
                     /\ g = [i \in 1..(Len(c) + z) |-> IF i > Len(c) THEN 0 ELSE c[i]]
        BY GrownBytes
      <4>4. d = g /\ total = Len(c) + z
        BY <4>1, <4>2, <4>3
      <4> QED BY <4>2, <4>3, <4>4
    <3>7. /\ outcome.ptr \in Blocks /\ (block[outcome.ptr] = Free \/ mem[o].ptr = outcome.ptr)
          /\ block' = [b \in Blocks |-> IF b = outcome.ptr THEN d
                                        ELSE IF mem[o].ptr = b THEN Free ELSE block[b]]
      <4>1. PICK c : c = Content(o)
        OBVIOUS
      <4>2. total \in Nat /\ mem[o].size <= total
        BY <3>1, <3>4
      <4>3. PICK size \in Nat, t \in Nat : size = mem[o].size /\ t = total /\ size <= t
        BY <3>1, <4>2
      <4>4. d = [i \in 1..t |-> IF i > size THEN 0 ELSE c[i]] /\ Len(c) = size /\ c \in Seq(Byte)
        BY <3>1, <3>6, <4>1, <4>3
      <4> HIDE DEF d
      <4>5. CASE mem[o].ptr = Null
        <5>1. size = 0
          BY <4>3, <4>5 DEF Backed
        <5>2. PICK q \in Unused : /\ outcome.ptr = q
                                  /\ outcome.block = [block EXCEPT ![q] = [i \in 1..t |-> Garbage]]
          <6>1. outcome \in allocate(t)
            BY <4>3, <4>5
          <6>2. PICK q \in Unused :
                  outcome = [ptr |-> q, block |-> [block EXCEPT ![q] = [i \in 1..t |-> Garbage]]]
            BY <2>3, <6>1, Allocated, Zenon
          <6> QED BY <6>2
        <5>3. q \in Blocks /\ block[q] = Free
          BY DEF Unused
        <5>4. block' = [outcome.block EXCEPT
                ![q] = [i \in 1..Len(outcome.block[q]) |-> IF i > size THEN 0 ELSE outcome.block[q][i]]]
          BY <2>1, <2>3, <4>3, <5>2 DEF Cleared
        <5>5. outcome.block[q] = [i \in 1..t |-> Garbage] /\ Len(outcome.block[q]) = t
          BY <3>1, <5>2, <5>3
        <5>6. block' = [outcome.block EXCEPT ![q] = d]
          <6>1. [i \in 1..t |-> IF i > size THEN 0 ELSE outcome.block[q][i]] = d
            BY <4>4, <5>1
          <6> QED BY <5>4, <5>5, <6>1
        <5>7. block' = [block EXCEPT ![q] = d]
          BY <3>1, <5>2, <5>3, <5>6
        <5> QED BY <3>1, <4>5, <5>2, <5>3, <5>7, Constants
      <4>6. CASE mem[o].ptr # Null
        <5>1. mem[o].ptr \in Blocks /\ block[mem[o].ptr] = c
          BY <3>1, <4>1, <4>6 DEF Memory, Content
        <5>2. PICK p \in Blocks : p = mem[o].ptr
          BY <5>1
        <5>3. PICK q \in Unused \cup {p} :
                /\ outcome.ptr = q
                /\ outcome.block = [block EXCEPT ![p] = Free, ![q] = Resized(c, t)]
          <6>1. outcome \in reallocate(p, t) /\ block[p] = c
            BY <4>3, <4>6, <5>1, <5>2
          <6>2. PICK q \in Unused \cup {p} :
                  outcome = [ptr |-> q, block |-> [block EXCEPT ![p] = Free,
                                                                ![q] = Resized(block[p], t)]]
            BY <2>3, <6>1, Reallocated, Zenon
          <6> QED BY <6>1, <6>2
        <5>4. q \in Blocks /\ (block[q] = Free \/ q = p)
          BY DEF Unused
        <5>5. block' = [outcome.block EXCEPT
                ![q] = [i \in 1..Len(outcome.block[q]) |-> IF i > size THEN 0 ELSE outcome.block[q][i]]]
          BY <2>1, <2>3, <4>3, <5>3 DEF Cleared
        <5>6. /\ outcome.block[q] = Resized(c, t)
              /\ \A b \in Blocks : b # q => outcome.block[b] = IF b = p THEN Free ELSE block[b]
              /\ DOMAIN outcome.block = Blocks
          BY <3>1, <5>3, <5>4
        <5>7. Len(Resized(c, t)) = t
              /\ \A i \in 1..t : Resized(c, t)[i] = IF i <= size THEN c[i] ELSE Garbage
          BY <4>4 DEF Resized
        <5>8. [i \in 1..Len(outcome.block[q]) |-> IF i > size THEN 0 ELSE outcome.block[q][i]] = d
          BY <4>4, <5>6, <5>7
        <5>9. block' = [outcome.block EXCEPT ![q] = d]
          BY <5>5, <5>8
        <5>10. block' = [b \in Blocks |-> IF b = q THEN d ELSE IF p = b THEN Free ELSE block[b]]
          <6>1. outcome.block = [b \in Blocks |-> outcome.block[b]]
            BY <3>1, <5>3
          <6>2. block' = [b \in Blocks |-> IF b = q THEN d ELSE outcome.block[b]]
            BY <5>9, <6>1
          <6> QED BY <5>6, <6>2
        <5> QED BY <5>2, <5>3, <5>4, <5>10
      <4> QED BY <4>5, <4>6
    <3>8. Placed(o, outcome.ptr, d)
      <4>1. mem' = [mem EXCEPT ![o] = [ptr |-> outcome.ptr, size |-> Len(d)]]
        BY <2>1, <2>3, <3>6
      <4> HIDE DEF d
      <4> QED BY <3>7, <4>1 DEF Placed
    <3> QED BY <2>1, <2>3, <3>5, <3>6, <3>8
  <2> QED BY <2>2, <2>3
<1> QED BY <1>1, <1>2

(* A memory without bytes needs no block. *)
LEMMA EmptyKeepsBacked ==
  ASSUME Types, Backed, NEW o \in Memories, o \notin Live, TypeOf[o].min = 0,
         mem' = [mem EXCEPT ![o] = [ptr |-> Null, size |-> 0]], block' = block
  PROVE  Backed'
<1>1. Allowed(TypeOf[o], 0)
  BY TypeLimits, Constants DEF Allowed
<1>2. /\ mem'[o] = [ptr |-> Null, size |-> 0] /\ mem'[o] # Dropped
      /\ \A p \in Memories : p # o => mem'[p] = mem[p]
  <2>1. [ptr |-> Null, size |-> 0] \in Memory
    BY DEF Memory
  <2> QED BY <2>1, Distinct DEF Types
<1>3. Live' = Live \cup {o}
  BY <1>2 DEF Live
<1>4. ASSUME NEW p \in Live' PROVE p \in Memories /\ (p = o \/ (p \in Live /\ mem'[p] = mem[p]))
  BY <1>2, <1>3 DEF Live
<1>5. ASSUME NEW b \in Blocks, block'[b] # Free PROVE \E p \in Live' : mem'[p].ptr = b
  <2>1. PICK p \in Live : mem[p].ptr = b
    BY <1>5 DEF Backed
  <2> QED BY <1>2, <1>3, <2>1 DEF Live
<1>6. ASSUME NEW p \in Live'
      PROVE  /\ Allowed(TypeOf[p], mem'[p].size)
             /\ mem'[p].ptr = Null => mem'[p].size = 0
             /\ mem'[p].ptr # Null => /\ block'[mem'[p].ptr] \in Seq(Byte)
                                      /\ Len(block'[mem'[p].ptr]) = mem'[p].size
  BY <1>1, <1>2, <1>4 DEF Backed
<1>7. \A p, r \in Live' : p # r /\ mem'[p].ptr = mem'[r].ptr => mem'[p].ptr = Null
  BY <1>2, <1>4 DEF Backed
<1> QED BY <1>5, <1>6, <1>7 DEF Backed

(* Every way through LinearMemory::create.                                 *)
LEMMA CreateIs ==
  ASSUME Types, Backed, NEW o \in Memories, o \notin Live,
         NEW outcome \in allocate(TypeOf[o].min * TypeOf[o].page),
         outcome.ptr = Null => TypeOf[o].min = 0, Create(o, outcome)
  PROVE  \/ /\ TypeOf[o].min = 0 /\ mem' = [mem EXCEPT ![o] = [ptr |-> Null, size |-> 0]]
            /\ block' = block
         \/ \E q : Placed(o, q, Zeros(TypeOf[o].min * TypeOf[o].page))
<1>1. PICK size \in Nat : size = TypeOf[o].min * TypeOf[o].page
  BY TypeLimits
<1>2. CASE outcome.ptr = Null
  <2>1. TypeOf[o].min = 0 /\ 0 * TypeOf[o].page = 0
    BY <1>2, TypeLimits
  <2> QED BY <1>2, <2>1 DEF Create
<1>3. CASE outcome.ptr # Null
  <2>1. block \in [Blocks -> Seq(Byte) \cup {Free}]
    BY DEF Backed
  <2>2. PICK q \in Unused : /\ outcome.ptr = q
                            /\ outcome.block = [block EXCEPT ![q] = [i \in 1..size |-> Garbage]]
    <3>1. outcome \in allocate(size)
      BY <1>1
    <3>2. PICK q \in Unused :
            outcome = [ptr |-> q, block |-> [block EXCEPT ![q] = [i \in 1..size |-> Garbage]]]
      BY <1>3, <3>1, Allocated, Zenon
    <3> QED BY <3>2
  <2>3. q \in Blocks /\ block[q] = Free
    BY DEF Unused
  <2>4. block' = [outcome.block EXCEPT
          ![q] = [i \in 1..Len(outcome.block[q]) |-> IF i > 0 THEN 0 ELSE outcome.block[q][i]]]
    BY <1>3, <2>2 DEF Create, Cleared
  <2>5. outcome.block[q] = [i \in 1..size |-> Garbage] /\ Len(outcome.block[q]) = size
    BY <2>1, <2>2, <2>3
  <2>6. [i \in 1..size |-> IF i > 0 THEN 0 ELSE outcome.block[q][i]] = Zeros(size)
    BY DEF Zeros
  <2>7. block' = [outcome.block EXCEPT ![q] = Zeros(size)]
    BY <2>4, <2>5, <2>6
  <2>8. block' = [block EXCEPT ![q] = Zeros(size)]
    BY <2>1, <2>2, <2>3, <2>7
  <2>9. mem' = [mem EXCEPT ![o] = [ptr |-> q, size |-> size]]
    BY <1>1, <2>2 DEF Create
  <2>10. Len(Zeros(size)) = size
    BY ZerosAre
  <2>11. block' = [b \in Blocks |-> IF b = q THEN Zeros(size)
                                   ELSE IF o \in Live /\ mem[o].ptr = b THEN Free ELSE block[b]]
    BY <2>1, <2>8
  <2>12. Placed(o, q, Zeros(size))
    BY <2>3, <2>9, <2>10, <2>11 DEF Placed
  <2> QED BY <1>1, <2>12
<1> QED BY <1>2, <1>3

-----------------------------------------------------------------------------
(* Every step does one of these things to the heap, and records it.        *)

Keeps == UNCHANGED <<mem, block>> /\ (last' = Nothing \/ last' = last)
Measures(o) == UNCHANGED <<mem, block>> /\ last' = Promise!Sized(o, size_pages(o))
Reads(o, at, n, w, signed) ==
  /\ n <= w /\ at + n <= mem[o].size
  /\ UNCHANGED <<mem, block>>
  /\ last' = Promise!Loaded(o, at, n, w, signed,
               Extend(Promise!Number(ReadBytes(o, at, n)), n, w, signed))
Stores(o, at, n, word) == Writes(o, at, n, word) /\ last' = Promise!Stored(o, at, n, word)
Creates(o) ==
  \E outcome \in allocate(TypeOf[o].min * TypeOf[o].page) :
    (outcome.ptr = Null => TypeOf[o].min = 0) /\ Create(o, outcome)

HeapStep ==
  \/ Keeps
  \/ \E o \in Live : Measures(o)
  \/ \E o \in Live, at \in Nat, n \in Nat \ {0}, w \in Nat, signed \in BOOLEAN :
       Reads(o, at, n, w, signed)
  \/ \E o \in Live, at \in Nat, n \in Nat \ {0}, word \in Nat : Stores(o, at, n, word)
  \/ last' = Nothing /\ \E c : drop(c, block)
  \/ \E o \in Live, n \in Nat : grow(o, n)
  \/ last' = Nothing /\ \E o \in Memories \ Live : Creates(o)

(* References are to memories that are there. *)
LEMMA ReferencedIsLive ==
  ASSUME Running
  PROVE  /\ engine \in Memories => engine \in Live
         /\ \A m \in loaded : MemoryOf[m] \in Memories => MemoryOf[m] \in Live
         /\ load # None => (MemoryOf[load] \in Memories => MemoryOf[load] \in Live)
<1>1. Types /\ ReferencesValid
  BY DEF Running, ReferencesCounted
<1>2. engine \in Memories => engine \in Live
  <2> SUFFICES ASSUME engine \in Memories PROVE mem[engine] # Dropped
    BY DEF Live
  <2>1. engine \in AllMemories /\ held[engine] \in Nat
    BY <1>1, Distinct DEF Types
  <2>2. References(engine) # 0
    BY <2>1 DEF References
  <2> QED BY <1>1, <2>2 DEF ReferencesValid
<1>3. \A o \in store : o \in Memories => o \in Live
  BY <1>1, StoredIsLive DEF Live
<1> QED BY <1>2, <1>3 DEF Running, Linked

(* An access that passes the bounds check lies within the memory.          *)
LEMMA InBounds ==
  ASSUME Running, Backed, NEW o \in AllMemories, o \in Memories => o \in Live,
         NEW at \in Nat, NEW n \in Nat \ {0}, in_bounds(o, at, n)
  PROVE  o \in Live /\ at + n <= mem[o].size
<1>1. o # NoMemory
  BY DEF in_bounds, SizeOf
<1>2. o \in Live
  BY <1>1, Distinct
<1>3. mem[o].size \in Nat
  BY <1>2, ContentIs DEF Running, Memory
<1> QED BY <1>1, <1>2, <1>3 DEF in_bounds, SizeOf

(* Code runs with the memory of its module, which is alive.                *)
LEMMA ExecutingHasMemory ==
  ASSUME Running, ~panicked, Executing
  PROVE  engine \in AllMemories /\ (engine \in Memories => engine \in Live)
<1>1. engine = MemoryOf[module] /\ module \in Modules
  BY DEF Running, Types, ReferencesCounted, EngineHasMemoryOfModule, Executing
<1> QED BY <1>1, Distinct, ReferencedIsLive

(* What each action does to the heap.                                      *)
LEMMA AccessOnHeap ==
  ASSUME Running, ~panicked, Backed, Access
  PROVE  HeapStep
<1>1. PICK access \in Accesses, base \in Word32, offset \in Word32 :
        \/ \E signed \in BOOLEAN : load_n(access[1], access[2], signed, base, offset)
        \/ \E word \in Words(access[2]) : store_n(access[1], word, base, offset)
  BY DEF Access
<1>2. PICK n \in Nat \ {0}, w \in Nat : n = access[1] /\ w = access[2] /\ n <= w
  BY MemoryAssumption
<1>3. PICK at \in Nat : at = base + offset
  BY Constants DEF Word32
<1>4. CASE \E signed \in BOOLEAN : load_n(n, w, signed, base, offset)
  <2>1. PICK signed \in BOOLEAN : load_n(n, w, signed, base, offset)
    BY <1>4
  <2>2. /\ Executing /\ in_bounds(engine, at, n) /\ UNCHANGED <<mem, block>>
        /\ last' = Promise!Loaded(engine, at, n, w, signed,
                     Extend(Promise!Number(ReadBytes(engine, at, n)), n, w, signed))
    BY <1>3, <2>1 DEF load_n, effective_address
  <2>3. engine \in Live /\ at + n <= mem[engine].size
    BY <2>2, ExecutingHasMemory, InBounds
  <2>4. Reads(engine, at, n, w, signed)
    BY <1>2, <2>2, <2>3 DEF Reads
  <2> QED BY <2>3, <2>4 DEF HeapStep
<1>5. CASE \E word \in Words(w) : store_n(n, word, base, offset)
  <2>1. PICK word \in Words(w) : store_n(n, word, base, offset)
    BY <1>5
  <2>2. word \in Nat
    BY Powers DEF Words
  <2>3. /\ Executing /\ in_bounds(engine, at, n) /\ mem' = mem
        /\ block' = Written(engine, at, Bytes(word, n))
        /\ last' = Promise!Stored(engine, at, n, word)
    BY <1>3, <2>1 DEF store_n, effective_address
  <2>4. engine \in Live /\ at + n <= mem[engine].size
    BY <2>3, ExecutingHasMemory, InBounds
  <2>5. Stores(engine, at, n, word)
    BY <2>3, <2>4 DEF Stores, Writes
  <2> QED BY <2>2, <2>4, <2>5 DEF HeapStep
<1> QED BY <1>1, <1>2, <1>4, <1>5

LEMMA HostAccessOnHeap ==
  ASSUME Running, ~panicked, Backed, HostAccess
  PROVE  HeapStep
<1>1. PICK addr \in Word32, n \in {0} \cup {access[1] : access \in Accesses} :
        mem_read(addr, n) \/ \E word \in Words(n) : mem_write(addr, n, word)
  BY DEF HostAccess
<1>2. addr \in Nat /\ n \in Nat
  BY Constants, MemoryAssumption DEF Word32
<1>3. engine # Gone /\ in_bounds(engine, addr, n)
  BY <1>1 DEF mem_read, mem_write
<1>4. engine \in AllMemories
  BY <1>3 DEF Running, Types
<1>5. CASE n = 0
  <2>1. \A word : Bytes(word, 0) = <<>>
    BY DEF Bytes
  <2>2. Keeps
    <3>1. CASE mem_read(addr, 0)
      BY <3>1 DEF mem_read, Seen, Keeps, Promise!Loaded
    <3>2. ASSUME NEW word, mem_write(addr, 0, word) PROVE Keeps
      BY <2>1, <3>2 DEF mem_write, Seen, Written, Keeps, Promise!Stored
    <3> QED BY <1>1, <1>5, <3>1, <3>2
  <2> QED BY <2>2 DEF HeapStep
<1>6. CASE n # 0
  <2>1. engine \in Live /\ addr + n <= mem[engine].size
    BY <1>2, <1>3, <1>4, <1>6, ReferencedIsLive, InBounds
  <2>2. CASE mem_read(addr, n)
    <3>1. Reads(engine, addr, n, n, FALSE)
      BY <1>2, <1>6, <2>1, <2>2 DEF mem_read, Seen, Reads, Extend, Promise!Loaded
    <3> QED BY <1>2, <1>6, <2>1, <3>1 DEF HeapStep
  <2>3. CASE \E word \in Words(n) : mem_write(addr, n, word)
    <3>1. PICK word \in Words(n) : mem_write(addr, n, word)
      BY <2>3
    <3>2. word \in Nat
      BY <1>2, Powers DEF Words
    <3>3. Stores(engine, addr, n, word)
      BY <1>6, <2>1, <3>1 DEF mem_write, Seen, Stores, Writes, Promise!Stored
    <3> QED BY <1>2, <1>6, <2>1, <3>2, <3>3 DEF HeapStep
  <2> QED BY <1>1, <2>2, <2>3
<1> QED BY <1>5, <1>6

LEMMA DataOnHeap ==
  ASSUME Running, ~panicked, Backed, NEW offset \in Word32, NEW i \in Word32, NEW byte \in Words(1),
         data_byte(offset, i, byte)
  PROVE  HeapStep
<1> DEFINE o == MemoryOf[load]
<1>1. PICK at \in Nat : at = offset + i
  BY Constants DEF Word32
<1>2. /\ load # None /\ o # NoMemory /\ in_bounds(o, at, 1) /\ mem' = mem
      /\ block' = Written(o, at, <<byte>>) /\ last' = Promise!Stored(o, at, 1, byte)
  BY <1>1 DEF data_byte, effective_address
<1>3. o \in AllMemories /\ (o \in Memories => o \in Live)
  BY <1>2, Distinct, ReferencedIsLive DEF Running, Types
<1> HIDE DEF o
<1>4. o \in Live /\ at + 1 <= mem[o].size
  BY <1>2, <1>3, InBounds
<1>5. byte \in 0..(Radix - 1)
  BY Powers, Bases DEF Words
<1>6. Bytes(byte, 1) = <<byte>>
  <2>1. byte \div 1 = byte /\ byte % Radix = byte
    BY <1>5, Bases
  <2>2. (byte \div Promise!Power[1 - 1]) % Radix = byte
    BY <2>1, Powers
  <2>3. \A k \in 1..1 : (byte \div Promise!Power[k - 1]) % Radix = byte
    BY <2>2
  <2>4. <<byte>> = [k \in 1..1 |-> byte]
    OBVIOUS
  <2> QED BY <2>3, <2>4 DEF Bytes
<1>7. Stores(o, at, 1, byte)
  BY <1>2, <1>4, <1>6 DEF Stores, Writes
<1>8. byte \in Nat
  BY <1>5, Bases
<1> QED BY <1>4, <1>7, <1>8 DEF HeapStep

LEMMA SizesOnHeap ==
  ASSUME Running, ~panicked, Backed, memory_size \/ mem_size
  PROVE  HeapStep
<1>1. CASE engine = NoMemory
  BY <1>1 DEF memory_size, mem_size, Keeps, HeapStep
<1>2. CASE engine # NoMemory
  <2>1. engine \in AllMemories
    BY ExecutingHasMemory DEF memory_size, mem_size, Running, Types
  <2>2. engine \in Live
    BY <1>2, <2>1, Distinct, ReferencedIsLive
  <2>3. Measures(engine)
    BY <1>2 DEF memory_size, mem_size, Measures
  <2> QED BY <2>2, <2>3 DEF HeapStep
<1> QED BY <1>1, <1>2

LEMMA TakeOnHeap ==
  ASSUME NEW o, take_memory(o), last' = Nothing
  PROVE  HeapStep
<1>1. UNCHANGED <<mem, block>> \/ \E c : drop(c, block)
  BY DEF take_memory
<1> QED BY <1>1 DEF HeapStep, Keeps

LEMMA GrowthOnHeap ==
  ASSUME Running, ~panicked, NEW n \in Nat, memory_grow(n)
  PROVE  HeapStep
<1> DEFINE o == MemoryOf[module]
<1>1. (UNCHANGED <<mem, block>> /\ (last' = Nothing \/ last' = last)) \/ grow(o, n)
  BY DEF memory_grow
<1>2. CASE grow(o, n) /\ o = NoMemory
  BY <1>2 DEF grow, grow_refused, HeapStep, Keeps
<1>3. CASE grow(o, n) /\ o # NoMemory
  <2>1. module \in loaded /\ o \in AllMemories
    BY Distinct DEF memory_grow, Executing, Running, Linked, Types
  <2>2. o \in Live
    BY <1>3, <2>1, Distinct, ReferencedIsLive
  <2> QED BY <1>3, <2>2 DEF HeapStep
<1> QED BY <1>1, <1>2, <1>3 DEF HeapStep, Keeps

LEMMA BeginLoadOnHeap ==
  ASSUME NEW m \in Modules, begin_load(m)
  PROVE  HeapStep
<1> DEFINE o == MemoryOf[m]
<1>1. CASE ~(o # NoMemory /\ Owner[o] = m)
  BY <1>1 DEF begin_load, HeapStep, Keeps
<1>2. CASE o # NoMemory /\ Owner[o] = m
  <2>1. o \in Memories \ Live
    BY <1>2, Distinct DEF begin_load
  <2>2. last' = Nothing
    BY DEF begin_load
  <2>3. Creates(o)
    <3>1. CASE TypeOf[o].min = 0
      <4>1. Create(o, Refused)
        BY <1>2, <3>1 DEF begin_load
      <4>2. Refused \in allocate(TypeOf[o].min * TypeOf[o].page)
        BY DEF allocate
      <4> QED BY <3>1, <4>1, <4>2 DEF Creates
    <3>2. CASE TypeOf[o].min # 0
      BY <1>2, <3>2 DEF begin_load, Creates
    <3> QED BY <3>1, <3>2
  <2> QED BY <2>1, <2>2, <2>3 DEF HeapStep
<1> QED BY <1>1, <1>2

(* Every step of the memories, as one of the few things it can do to the   *)
(* heap.                                                                   *)
LEMMA StepsOnHeap ==
  ASSUME IInv, ~panicked => Backed, [Next]_vars
  PROVE  HeapStep
<1>1. CASE UNCHANGED vars
  BY <1>1 DEF vars, HeapStep, Keeps
<1>2. CASE Next
  <2>1. ~panicked /\ Running /\ Backed
    BY <1>2 DEF Next, IInv
  <2>2. CASE Access
    BY <2>1, <2>2, AccessOnHeap
  <2>3. CASE memory_size \/ mem_size
    BY <2>1, <2>3, SizesOnHeap
  <2>4. ASSUME NEW n \in Word32, memory_grow(n) PROVE HeapStep
    <3>1. n \in Nat
      BY Constants DEF Word32
    <3> QED BY <2>1, <2>4, <3>1, GrowthOnHeap
  <2>5. ASSUME NEW m \in Modules, enter_module(m) PROVE HeapStep
    BY <2>5, TakeOnHeap DEF enter_module
  <2>6. CASE stop \/ hold \/ finish_load
    BY <2>6 DEF stop, hold, finish_load, HeapStep, Keeps
  <2>7. CASE HostAccess
    BY <2>1, <2>7, HostAccessOnHeap
  <2>8. CASE reset
    BY <2>8, TakeOnHeap DEF reset
  <2>9. CASE (\E o \in AllMemories : release(o)) \/ fail_load \/ destroy
    BY <2>9 DEF release, fail_load, destroy, HeapStep
  <2>10. CASE Loading
    <3>1. ASSUME NEW m \in Modules, begin_load(m) PROVE HeapStep
      BY <3>1, BeginLoadOnHeap
    <3>2. ASSUME NEW offset \in Word32, NEW i \in Word32, NEW byte \in Words(1),
                 data_byte(offset, i, byte)
          PROVE  HeapStep
      BY <2>1, <3>2, DataOnHeap
    <3> QED BY <2>6, <2>9, <2>10, <3>1, <3>2 DEF Loading
  <2> QED BY <1>2, <2>2, <2>3, <2>4, <2>5, <2>6, <2>7, <2>8, <2>9, <2>10 DEF Next
<1> QED BY <1>1, <1>2

-----------------------------------------------------------------------------
(* The heap stays backed *)

LEMMA KeepKeepsBacked ==
  ASSUME Backed, UNCHANGED <<mem, block>>
  PROVE  Backed'
BY DEF Backed, Live

(* Each of those keeps every memory on a block of its own.                 *)
LEMMA BackedPreserved ==
  ASSUME Types, Backed, HeapStep
  PROVE  Backed'
<1>1. CASE UNCHANGED <<mem, block>>
  BY <1>1, KeepKeepsBacked
<1>2. ASSUME NEW o \in Live, NEW at \in Nat, NEW n \in Nat \ {0}, NEW word \in Nat,
             Stores(o, at, n, word)
      PROVE  Backed'
  <2> DEFINE d == Overwritten(Content(o), at, Bytes(word, n))
  <2>1. mem[o].ptr # Null /\ Rewritten(o, d)
    BY <1>2, WritesRewrite DEF Stores
  <2>2. Content(o) \in Seq(Byte) /\ Len(Content(o)) = mem[o].size /\ Bytes(word, n) \in Seq(Byte)
    BY ContentIs, NumberOfBytes DEF Byte
  <2>3. d \in Seq(Byte) /\ Len(d) = mem[o].size
    BY <2>2, OverwrittenIs
  <2> HIDE DEF d
  <2> QED BY <2>1, <2>3, RewrittenKeepsBacked
<1>3. ASSUME NEW c, drop(c, block) PROVE Backed'
  BY <1>3, DropKeepsBacked
<1>4. ASSUME NEW o \in Live, NEW n \in Nat, grow(o, n) PROVE Backed'
  <2> DEFINE d == Content(o) \o Zeros(n * TypeOf[o].page)
  <2>1. o \in Memories
    BY DEF Live
  <2>2. n * TypeOf[o].page \in Nat
    BY <2>1, TypeLimits
  <2>3. d \in Seq(Byte)
    BY <2>2, ContentIs, GrownBytes
  <2>4. UNCHANGED <<mem, block>> \/ (Allowed(TypeOf[o], Len(d)) /\ \E q : Placed(o, q, d))
    BY <1>4, GrowIs
  <2> HIDE DEF d
  <2> QED BY <1>1, <2>1, <2>3, <2>4, PlacedKeepsBacked
<1>5. ASSUME NEW o \in Memories \ Live, Creates(o) PROVE Backed'
  <2> DEFINE size == TypeOf[o].min * TypeOf[o].page
  <2>1. PICK outcome \in allocate(size) :
          (outcome.ptr = Null => TypeOf[o].min = 0) /\ Create(o, outcome)
    BY <1>5 DEF Creates
  <2>2. \/ /\ TypeOf[o].min = 0 /\ mem' = [mem EXCEPT ![o] = [ptr |-> Null, size |-> 0]]
           /\ block' = block
        \/ \E q : Placed(o, q, Zeros(size))
    BY <2>1, CreateIs
  <2>3. size \in Nat /\ Allowed(TypeOf[o], size)
    <3>1. /\ TypeOf[o].min \in TypeOf[o].min..(WordLimit - 1) /\ size <= WordLimit /\ size \in Nat
          /\ TypeOf[o].max # Unbounded => TypeOf[o].min <= TypeOf[o].max
      BY TypeLimits
    <3> QED BY <3>1 DEF Allowed
  <2> HIDE DEF size
  <2>4. Zeros(size) \in Seq(Byte) /\ Len(Zeros(size)) = size
    BY <2>3, ZerosAre
  <2>5. ASSUME NEW q, Placed(o, q, Zeros(size)) PROVE Backed'
    BY <2>3, <2>4, <2>5, PlacedKeepsBacked
  <2> QED BY <2>2, <2>5, EmptyKeepsBacked
<1> QED BY <1>1, <1>2, <1>3, <1>4, <1>5 DEF HeapStep, Keeps, Measures, Reads

(* A step that panics has changed a count and nothing else that matters.   *)
LEMMA PanicStep ==
  ASSUME Running, ~panicked, Next, panicked'
  PROVE  /\ UNCHANGED <<mem, store, loaded, load, engine, held>>
         /\ count' \in [AllMemories -> 0..(CountLimit - 1)]
         /\ module' \in Modules \cup {None}
<1>1. /\ count \in [AllMemories -> 0..(CountLimit - 1)] /\ module \in Modules \cup {None}
      /\ engine \in AllMemories \cup {Gone}
  BY DEF Running, Types
<1>2. ASSUME NEW o \in AllMemories, take_memory(o)
      PROVE  /\ UNCHANGED <<mem, engine>>
             /\ count' \in [AllMemories -> 0..(CountLimit - 1)]
  <2>1. UNCHANGED <<mem, engine>> /\ count' = inc(count, o)
    BY <1>2 DEF take_memory
  <2> QED BY <1>1, <2>1, Incremented
<1>3. ASSUME NEW m \in Modules, enter_module(m)
      PROVE  /\ UNCHANGED <<mem, store, loaded, load, engine, held>>
             /\ count' \in [AllMemories -> 0..(CountLimit - 1)]
             /\ module' \in Modules \cup {None}
  <2>1. MemoryOf[m] \in AllMemories
    BY Distinct
  <2> QED BY <1>2, <1>3, <2>1 DEF enter_module
<1>4. CASE reset
  BY <1>2, <1>4, Distinct DEF reset
<1>5. CASE hold
  <2>1. /\ UNCHANGED <<mem, store, loaded, load, engine, module>> /\ count' = inc(count, engine)
        /\ held' = held /\ engine \in AllMemories
    BY <1>1, <1>5 DEF hold
  <2> QED BY <1>1, <2>1, Incremented
<1>6. ASSUME NEW n, memory_grow(n)
      PROVE  /\ UNCHANGED <<mem, store, loaded, load, engine, held, module>>
             /\ count' \in [AllMemories -> 0..(CountLimit - 1)]
  <2>1. UNCHANGED <<mem, store, loaded, load, engine, held, module>> /\ count' = inc(count, NoMemory)
    BY <1>6 DEF memory_grow
  <2> QED BY <1>1, <2>1, Incremented, Distinct
<1>7. ~Access /\ ~memory_size /\ ~stop /\ ~HostAccess /\ ~mem_size /\ ~Loading /\ ~destroy
      /\ \A o \in AllMemories : ~release(o)
  BY DEF Access, load_n, store_n, memory_size, stop, HostAccess, mem_read, mem_write, mem_size,
         Loading, begin_load, data_byte, finish_load, fail_load, destroy, release
<1>8. CASE \E n \in Word32 : memory_grow(n)
  BY <1>1, <1>6, <1>8
<1> QED BY <1>3, <1>4, <1>5, <1>7, <1>8 DEF Next

(* Host code keeps a bounded number of references. *)
LEMMA HeldPreserved ==
  ASSUME held \in [AllMemories -> 0..MaxHeld], Next
  PROVE  held' \in [AllMemories -> 0..MaxHeld]
<1>1. CASE held' = held
  BY <1>1
<1>2. CASE hold
  <2>1. held' = held \/ (held[engine] < MaxHeld /\ held' = [held EXCEPT ![engine] = @ + 1])
    BY <1>2 DEF hold
  <2>2. ASSUME NEW x \in 0..MaxHeld, x < MaxHeld PROVE x + 1 \in 0..MaxHeld
    BY <2>2, Constants
  <2> QED BY <2>1, <2>2
<1>3. ASSUME NEW o \in AllMemories, release(o)
      PROVE  held' \in [AllMemories -> 0..MaxHeld]
  <2>1. held[o] > 0 /\ held' = [held EXCEPT ![o] = @ - 1]
    BY <1>3 DEF release
  <2>2. ASSUME NEW x \in 0..MaxHeld, x > 0 PROVE x - 1 \in 0..MaxHeld
    BY <2>2, Constants
  <2> QED BY <2>1, <2>2
<1>4. Access \/ memory_size \/ stop \/ HostAccess \/ mem_size \/ Loading \/ destroy \/ reset
        => held' = held
  BY DEF Access, load_n, store_n, memory_size, stop, HostAccess, mem_read, mem_write, mem_size,
         Loading, begin_load, data_byte, finish_load, fail_load, destroy, reset
<1>5. (\E m \in Modules : enter_module(m)) \/ (\E n \in Word32 : memory_grow(n)) => held' = held
  BY DEF enter_module, memory_grow
<1> QED BY <1>1, <1>2, <1>3, <1>4, <1>5 DEF Next

(* What the linker has accepted, for a module that is new. *)
Accepted(m) ==
  MemoryOf[m] # NoMemory /\ Owner[MemoryOf[m]] # m =>
    matches(TypeOf[MemoryOf[m]], ImportType[m])

(* A module is linked when its import has been compared with the memory.   *)
LEMMA NewlyLinked ==
  ASSUME Next, NEW m \in loaded' \cup {load'}, m # None
  PROVE  m \in loaded \cup {load} \/ Accepted(m)
<1>1. CASE UNCHANGED <<loaded, load>>
  BY <1>1
<1>2. ASSUME NEW k \in Modules, begin_load(k)
      PROVE  m \in loaded \cup {load} \/ Accepted(m)
  <2>1. loaded' = loaded /\ load' = k
    BY <1>2 DEF begin_load
  <2>2. CASE MemoryOf[k] # NoMemory /\ Owner[MemoryOf[k]] = k
    BY <2>1, <2>2 DEF Accepted
  <2>3. CASE ~(MemoryOf[k] # NoMemory /\ Owner[MemoryOf[k]] = k)
    <3>1. link_memory(k)
      BY <1>2, <2>3 DEF begin_load
    <3> QED BY <2>1, <3>1 DEF link_memory, Accepted
  <2> QED BY <2>2, <2>3
<1>3. CASE finish_load
  BY <1>3 DEF finish_load
<1>4. CASE fail_load
  BY <1>4 DEF fail_load
<1>5. CASE destroy
  BY <1>5 DEF destroy
<1>6. Access \/ memory_size \/ stop \/ HostAccess \/ mem_size \/ hold \/ reset
        => UNCHANGED <<loaded, load>>
  BY DEF Access, load_n, store_n, memory_size, stop, HostAccess, mem_read, mem_write, mem_size,
         hold, reset
<1>7. /\ (\E k \in Modules : enter_module(k)) \/ (\E n \in Word32 : memory_grow(n))
           => UNCHANGED <<loaded, load>>
      /\ (\E o \in AllMemories : release(o)) => UNCHANGED <<loaded, load>>
      /\ (\E offset \in Word32, i \in Word32, byte \in Words(1) : data_byte(offset, i, byte))
           => UNCHANGED <<loaded, load>>
  BY DEF enter_module, memory_grow, release, data_byte
<1> QED BY <1>1, <1>2, <1>3, <1>4, <1>5, <1>6, <1>7 DEF Next, Loading

(* No step changes the type a linked import was compared with.             *)
LEMMA ImportsLinkedPreserved ==
  ASSUME Running, ~panicked, ImportsLinked, Next, IInv'
  PROVE  ImportsLinked'
<1> SUFFICES ASSUME NEW m \in loaded' \cup {load'}, m # None, MemoryOf[m] # NoMemory
             PROVE  mem'[MemoryOf[m]] # Dropped /\ Accepted(m)
  BY DEF ImportsLinked, Accepted
<1>1. Accepted(m)
  BY NewlyLinked DEF ImportsLinked, Accepted
<1>2. CASE panicked'
  <2>1. UNCHANGED <<mem, loaded, load>>
    BY <1>2, PanicStep
  <2> QED BY <1>1, <2>1 DEF ImportsLinked
<1>3. CASE ~panicked'
  <2>1. Types' /\ Linked' /\ ReferencesValid'
    BY <1>3 DEF IInv, Running, ReferencesCounted
  <2>2. m \in Modules /\ MemoryOf[m] \in store'
    BY <2>1 DEF Types, Linked
  <2>3. MemoryOf[m] \in Memories /\ MemoryOf[m] \in AllMemories
    BY <2>2, Distinct
  <2>4. held'[MemoryOf[m]] \in Nat
    BY <2>1, <2>3 DEF Types
  <2>5. References(MemoryOf[m])' # 0
    BY <2>2, <2>4 DEF References
  <2>6. mem'[MemoryOf[m]] # Dropped
    BY <2>1, <2>3, <2>5 DEF ReferencesValid
  <2> QED BY <1>1, <2>6
<1> QED BY <1>2, <1>3

(* A panic is the end of the process, and changes no memory.               *)
LEMMA PanicIsFlag ==
  ASSUME panicked \in BOOLEAN, Next
  PROVE  panicked' \in BOOLEAN
<1>1. \A o : take_memory(o) => panicked' \in BOOLEAN
  BY DEF take_memory
<1> QED BY <1>1 DEF Next, Access, load_n, store_n, memory_size, memory_grow, enter_module, stop, reset,
           HostAccess, mem_read, mem_write, mem_size, hold, release, Loading, begin_load,
           data_byte, finish_load, fail_load, destroy

(* What MemoryAssumption says of the type of an import.                    *)
LEMMA ImportLimits ==
  ASSUME NEW m \in Modules
  PROVE  /\ ImportType[m].min \in Nat
         /\ ImportType[m].max # Unbounded => ImportType[m].max \in Nat
BY MemoryAssumption

(* Heap is inductive, with the invariant of the counts.                    *)
LEMMA HeapPreserved ==
  ASSUME IInv, Heap, [Next]_vars
  PROVE  Heap'
<1>1. CASE UNCHANGED vars
  BY <1>1 DEF vars, Heap, Types, Backed, Live, ImportsLinked
<1>2. CASE Next
  <2>1. ~panicked /\ Running
    BY <1>2 DEF Next, IInv
  <2>2. IInv'
    BY Preserved
  <2>3. Backed'
    BY StepsOnHeap, BackedPreserved DEF Heap
  <2>4. held' \in [AllMemories -> 0..MaxHeld]
    BY <1>2, HeldPreserved DEF Heap
  <2>5. ImportsLinked'
    BY <1>2, <2>1, <2>2, ImportsLinkedPreserved DEF Heap
  <2>6. Types'
    <3>1. CASE panicked'
      <4>1. /\ UNCHANGED <<mem, store, loaded, load, engine, held>>
            /\ count' \in [AllMemories -> 0..(CountLimit - 1)]
            /\ module' \in Modules \cup {None}
        BY <1>2, <2>1, <3>1, PanicStep
      <4>2. panicked' \in BOOLEAN
        BY <1>2, PanicIsFlag DEF Heap, Types
      <4> QED BY <4>1, <4>2 DEF Heap, Types
    <3>2. CASE ~panicked'
      BY <2>2, <3>2 DEF IInv, Running
    <3> QED BY <3>1, <3>2
  <2> QED BY <2>3, <2>4, <2>5, <2>6 DEF Heap
<1> QED BY <1>1, <1>2

(* The embedder has built its host memories, each on a block of its own.   *)
LEMMA InitiallyHeap ==
  ASSUME Init
  PROVE  Heap
<1>1. IInv /\ panicked = FALSE
  BY Initially DEF Init
<1>2. Types
  BY <1>1 DEF IInv, Running
<1>3. held \in [AllMemories -> 0..MaxHeld] /\ ImportsLinked
  BY Constants DEF Init, ImportsLinked
<1>4. PICK ptr \in [HostMemories -> Blocks \cup {Null}] :
       /\ \A o, p \in HostMemories : o # p => ptr[o] # ptr[p] \/ ptr[o] = Null
       /\ \A o \in HostMemories : (ptr[o] = Null) <=> (TypeOf[o].min * TypeOf[o].page = 0)
       /\ mem = [o \in Memories |-> IF o \in HostMemories
                   THEN [ptr |-> ptr[o], size |-> TypeOf[o].min * TypeOf[o].page] ELSE Dropped]
       /\ block = [b \in Blocks |->
            IF \E o \in HostMemories : ptr[o] = b
              THEN LET o == CHOOSE o \in HostMemories : ptr[o] = b
                   IN Zeros(TypeOf[o].min * TypeOf[o].page) ELSE Free]
  BY DEF Init
<1>5. HostMemories \subseteq Memories /\ Live = HostMemories
  <2>1. HostMemories \subseteq Memories
    BY DEF HostMemories
  <2>2. ASSUME NEW o \in HostMemories PROVE mem[o] # Dropped
    <3>1. TypeOf[o].min * TypeOf[o].page \in Nat
      BY <2>1, TypeLimits
    <3>2. [ptr |-> ptr[o], size |-> TypeOf[o].min * TypeOf[o].page] \in Memory
      BY <3>1 DEF Memory
    <3> QED BY <1>4, <2>1, <3>2, Distinct
  <2>3. \A o \in Memories \ HostMemories : mem[o] = Dropped
    BY <1>4
  <2> QED BY <2>1, <2>2, <2>3 DEF Live
<1>6. ASSUME NEW o \in HostMemories
      PROVE  /\ mem[o].ptr = ptr[o] /\ mem[o].size = TypeOf[o].min * TypeOf[o].page
             /\ TypeOf[o].min * TypeOf[o].page \in Nat
             /\ Allowed(TypeOf[o], TypeOf[o].min * TypeOf[o].page)
  <2>1. o \in Memories
    BY <1>5
  <2>2. /\ TypeOf[o].min \in TypeOf[o].min..(WordLimit - 1)
        /\ TypeOf[o].min * TypeOf[o].page <= WordLimit
        /\ TypeOf[o].min * TypeOf[o].page \in Nat
        /\ TypeOf[o].max # Unbounded => TypeOf[o].min <= TypeOf[o].max
    BY <2>1, TypeLimits
  <2> QED BY <1>4, <2>1, <2>2 DEF Allowed
<1>7. ASSUME NEW o \in HostMemories, ptr[o] # Null
      PROVE  ptr[o] \in Blocks /\ block[ptr[o]] = Zeros(TypeOf[o].min * TypeOf[o].page)
  <2>1. ptr[o] \in Blocks
    BY <1>7
  <2>2. PICK p \in HostMemories : p = CHOOSE q \in HostMemories : ptr[q] = ptr[o]
    OBVIOUS
  <2>3. ptr[p] = ptr[o]
    BY <2>2
  <2>4. p = o
    BY <1>4, <1>7, <2>3
  <2>5. block[ptr[o]] = Zeros(TypeOf[p].min * TypeOf[p].page)
    BY <1>4, <2>1, <2>2
  <2> QED BY <2>1, <2>4, <2>5
<1>8. ASSUME NEW b \in Blocks
      PROVE  block[b] = Free \/ \E o \in HostMemories : ptr[o] = b
  BY <1>4
<1>9. ASSUME NEW b \in Blocks PROVE block[b] \in Seq(Byte) \cup {Free}
  <2>1. CASE block[b] = Free
    BY <2>1
  <2>2. CASE \E o \in HostMemories : ptr[o] = b
    <3>1. PICK o \in HostMemories : ptr[o] = b
      BY <2>2
    <3>2. b # Null
      BY Constants
    <3>3. block[b] = Zeros(TypeOf[o].min * TypeOf[o].page)
      BY <1>7, <3>1, <3>2
    <3> QED BY <1>6, <3>3, ZerosAre
  <2> QED BY <1>8, <2>1, <2>2
<1>10. ASSUME NEW o \in HostMemories
       PROVE  /\ Allowed(TypeOf[o], mem[o].size)
              /\ mem[o].ptr = Null => mem[o].size = 0
              /\ mem[o].ptr # Null => /\ block[mem[o].ptr] \in Seq(Byte)
                                      /\ Len(block[mem[o].ptr]) = mem[o].size
  <2>1. PICK size \in Nat : size = TypeOf[o].min * TypeOf[o].page
    BY <1>6
  <2>2. mem[o].ptr = ptr[o] /\ mem[o].size = size /\ Allowed(TypeOf[o], size)
    BY <1>6, <2>1
  <2>3. ptr[o] = Null => size = 0
    BY <1>4, <2>1
  <2>4. ptr[o] # Null => block[ptr[o]] = Zeros(size)
    BY <1>7, <2>1
  <2> QED BY <2>2, <2>3, <2>4, ZerosAre
<1>11. block \in [Blocks -> Seq(Byte) \cup {Free}]
  BY <1>4, <1>9
<1>12. \A b \in Blocks : block[b] # Free => \E o \in Live : mem[o].ptr = b
  BY <1>5, <1>6, <1>8
<1>13. \A o, p \in Live : o # p /\ mem[o].ptr = mem[p].ptr => mem[o].ptr = Null
  BY <1>4, <1>5, <1>6
<1>14. Backed
  BY <1>5, <1>10, <1>11, <1>12, <1>13 DEF Backed
<1> QED BY <1>2, <1>3, <1>14 DEF Heap

(* What the runs check follows from Heap.                                  *)
LEMMA HeapIsOwned ==
  ASSUME Heap
  PROVE  BlocksOwned /\ ImportsStaySatisfied
<1>1. Types /\ Backed
  BY DEF Heap
<1>2. ASSUME NEW s \in Seq(Byte) PROVE s \in Seq(Cell) /\ s # Free
  <2>1. Byte \subseteq Cell
    BY Bases DEF Byte, Cell
  <2>2. Len(s) \in Nat /\ s = [i \in 1..Len(s) |-> s[i]] /\ \A i \in 1..Len(s) : s[i] \in Cell
    BY <2>1
  <2>3. s \in Seq(Cell)
    BY <2>2
  <2> QED BY <2>3, Constants
<1>3. ASSUME NEW o \in Memories, mem[o] # Dropped
      PROVE  mem[o].ptr \in Blocks \cup {Null} /\ mem[o].size \in 0..WordLimit
  <2>1. o \in Live /\ mem[o] \in Memory
    BY <1>1, <1>3 DEF Types, Live
  <2>2. mem[o].size <= WordLimit
    BY <1>1, <2>1 DEF Backed, Allowed
  <2> QED BY <2>1, <2>2, Constants DEF Memory
<1>4. \A b \in Blocks : block[b] = Free \/ block[b] \in Seq(Cell)
  BY <1>1, <1>2 DEF Backed
<1>5. TypeOK
  BY <1>1, <1>3, <1>4 DEF TypeOK, Heap, Types
<1>6. ASSUME NEW o \in Live, mem[o].ptr # Null
      PROVE  block[mem[o].ptr] # Free /\ Len(block[mem[o].ptr]) = mem[o].size
  BY <1>1, <1>2, <1>6 DEF Backed
<1>7. \A b \in Blocks : block[b] # Free <=> \E o \in Live : mem[o].ptr = b
  <2> SUFFICES ASSUME NEW b \in Blocks, NEW o \in Live, mem[o].ptr = b PROVE block[b] # Free
    BY <1>1 DEF Backed
  <2> QED BY <1>6, Constants
<1>8. BlocksOwned
  BY <1>1, <1>5, <1>6, <1>7 DEF BlocksOwned, Backed
<1>9. ImportsStaySatisfied
  <2> SUFFICES ASSUME NEW m \in loaded, MemoryOf[m] # NoMemory, Owner[MemoryOf[m]] # m
               PROVE  /\ size_pages(MemoryOf[m]) >= ImportType[m].min
                      /\ ImportType[m].max # Unbounded =>
                           size_pages(MemoryOf[m]) <= ImportType[m].max
    BY DEF ImportsStaySatisfied
  <2> DEFINE o == MemoryOf[m]
  <2>1. m \in Modules /\ m # None
    BY <1>1, Distinct DEF Types
  <2>2. o \in Memories /\ mem[o] # Dropped /\ matches(TypeOf[o], ImportType[m])
    BY <2>1, Distinct DEF Heap, ImportsLinked
  <2> HIDE DEF o
  <2>3. o \in Live
    BY <2>2 DEF Live
  <2>4. PICK pages \in Nat : /\ pages = size_pages(o) /\ TypeOf[o].min <= pages
                             /\ TypeOf[o].max # Unbounded => pages <= TypeOf[o].max
    <3>1. TypeOf[o].min \in Nat
      BY <2>2, TypeLimits
    <3> QED BY <1>1, <2>3, <3>1, PagesOf
  <2>5. /\ TypeOf[o].min \in Nat /\ (TypeOf[o].max # Unbounded => TypeOf[o].max \in Nat)
    BY <2>2, TypeLimits
  <2>6. /\ ImportType[m].min \in Nat /\ (ImportType[m].max # Unbounded => ImportType[m].max \in Nat)
    BY <2>1, ImportLimits
  <2>7. /\ TypeOf[o].min >= ImportType[m].min
        /\ \/ ImportType[m].max = Unbounded
           \/ TypeOf[o].max # Unbounded /\ TypeOf[o].max <= ImportType[m].max
    BY <2>2 DEF matches
  <2>8. pages >= ImportType[m].min /\ (ImportType[m].max # Unbounded => pages <= ImportType[m].max)
    BY <2>4, <2>5, <2>6, <2>7
  <2> QED BY <2>4, <2>8 DEF o
<1> QED BY <1>8, <1>9

-----------------------------------------------------------------------------
(* The bytes, as ByteMemory has them *)

(* What a memory shows is all of its block. *)
Shown ==
  /\ Contents = [o \in Memories |-> IF o \in Live THEN Content(o) ELSE Dropped]
  /\ \A o \in Live : Content(o) \in Seq(Byte)

LEMMA AllShown == Types /\ Backed => Shown
<1> SUFFICES ASSUME Types, Backed PROVE Shown
  OBVIOUS
<1>1. ASSUME NEW s \in Seq(Byte) PROVE SubSeq(s, 1, Len(s)) = s
  OBVIOUS
<1>2. ASSUME NEW o \in Memories
      PROVE  (IF mem[o] = Dropped THEN Dropped
              ELSE IF mem[o].ptr = Null THEN <<>> ELSE SubSeq(block[mem[o].ptr], 1, mem[o].size))
             = IF o \in Live THEN Content(o) ELSE Dropped
  <2>1. CASE mem[o] = Dropped
    BY <2>1 DEF Live
  <2>2. CASE mem[o] # Dropped
    <3>1. o \in Live
      BY <2>2 DEF Live
    <3>2. CASE mem[o].ptr = Null
      BY <2>2, <3>1, <3>2 DEF Content
    <3>3. CASE mem[o].ptr # Null
      <4>1. block[mem[o].ptr] \in Seq(Byte) /\ Len(block[mem[o].ptr]) = mem[o].size
        BY <3>1, <3>3 DEF Backed
      <4>2. SubSeq(block[mem[o].ptr], 1, mem[o].size) = block[mem[o].ptr]
        BY <1>1, <4>1
      <4> QED BY <2>2, <3>1, <3>3, <4>2 DEF Content
    <3> QED BY <3>2, <3>3
  <2> QED BY <2>1, <2>2
<1>3. \A o \in Live : Content(o) \in Seq(Byte)
  BY ContentIs
<1> QED BY <1>2, <1>3 DEF Shown, Contents

LEMMA NextShown ==
  ASSUME Types', Backed'
  PROVE  Shown'
<1>1. (Types /\ Backed => Shown)'
  BY AllShown, PTL
<1> QED BY <1>1

LEMMA ShownIs ==
  ASSUME Shown
  PROVE  /\ \A o \in Memories : Promise!Exists(o) <=> o \in Live
         /\ \A o \in Live : Contents[o] = Content(o)
<1>1. \A o \in Memories : Contents[o] = IF o \in Live THEN Content(o) ELSE Dropped
  BY DEF Shown
<1>2. \A o \in Live : Content(o) # Dropped /\ o \in Memories
  BY Constants DEF Shown, Live
<1> QED BY <1>1, <1>2 DEF Promise!Exists

LEMMA NothingIs == Nothing = Promise!Nothing
BY DEF Nothing, Promise!Nothing

(* Nothing happens to the bytes. *)
LEMMA KeepsAreReleases ==
  ASSUME Keeps
  PROVE  [Promise!Next]_Promise!vars
<1>1. Contents' = Contents
  BY DEF Keeps, Contents
<1>2. CASE last' = Nothing
  BY <1>1, <1>2, NothingIs DEF Promise!Next, Promise!Release
<1>3. CASE last' = last
  BY <1>1, <1>3 DEF Promise!vars
<1> QED BY <1>2, <1>3 DEF Keeps

(* memory.size is the length of the bytes in pages.                        *)
LEMMA MeasuresAreSizes ==
  ASSUME Types, Backed, Shown, NEW o \in Live, Measures(o)
  PROVE  Promise!Next
<1>1. Contents' = Contents
  BY DEF Measures, Contents
<1>2. o \in Memories /\ PageSizes[o] = TypeOf[o].page
  BY DEF Live, PageSizes
<1>3. size_pages(o) * PageSizes[o] = Len(Contents[o]) /\ Promise!Exists(o)
  BY <1>2, ShownIs, ContentIs, PagesOf
<1>4. last'.op = "size" /\ last'.memory = o /\ last'.pages = size_pages(o)
  BY DEF Measures, Promise!Sized
<1> QED BY <1>1, <1>3, <1>4 DEF Promise!Next, Promise!Size

(* A part of a sequence of bytes, byte by byte. *)
LEMMA PartIs ==
  ASSUME NEW c \in Seq(Byte), NEW at \in Nat, NEW n \in Nat \ {0}, at + n <= Len(c)
  PROVE  /\ SubSeq(c, at + 1, at + n) \in Seq(Byte)
         /\ Len(SubSeq(c, at + 1, at + n)) = n
         /\ SubSeq(c, at + 1, at + n) = [i \in 1..n |-> c[at + i]]
<1>1. PICK last1 \in Nat : last1 = at + n /\ at + 1 <= last1 /\ last1 <= Len(c)
  OBVIOUS
<1>2. PICK first1 \in Nat : first1 = at + 1 /\ first1 >= 1 /\ first1 <= last1
  BY <1>1
<1>3. \A i \in first1..last1 : c[i] \in Byte
  <2>1. \A i \in 1..Len(c) : c[i] \in Byte
    OBVIOUS
  <2>2. \A i \in first1..last1 : i \in 1..Len(c)
    BY <1>1, <1>2
  <2> QED BY <2>1, <2>2
<1>4. SubSeq(c, first1, last1) = [i \in 1..(last1 - first1 + 1) |-> c[first1 + i - 1]]
  OBVIOUS
<1>5. last1 - first1 + 1 = n /\ \A i \in 1..n : first1 + i - 1 = at + i /\ at + i \in first1..last1
  BY <1>1, <1>2
<1>6. [i \in 1..(last1 - first1 + 1) |-> c[first1 + i - 1]] = [i \in 1..n |-> c[at + i]]
  BY <1>5
<1>7. PICK g : g = [i \in 1..n |-> c[at + i]]
  OBVIOUS
<1>8. g \in [1..n -> Byte]
  BY <1>3, <1>5, <1>7
<1>9. g \in Seq(Byte) /\ Len(g) = n
  BY <1>8
<1> QED BY <1>1, <1>2, <1>4, <1>6, <1>7, <1>9

(* A load takes the number its bytes are, extended to the register.        *)
LEMMA ReadsAreLoads ==
  ASSUME Types, Backed, Shown, NEW o \in Live, NEW at \in Nat, NEW n \in Nat \ {0}, NEW w \in Nat,
         NEW signed \in BOOLEAN, Reads(o, at, n, w, signed)
  PROVE  Promise!Next
<1>1. PICK c \in Seq(Byte) : /\ c = Contents[o] /\ c = block[mem[o].ptr] /\ at + n <= Len(c)
  <2>1. mem[o].size > 0
    BY ContentIs DEF Reads, Memory
  <2> QED BY <2>1, ContentIs, ShownIs DEF Reads
<1>2. PICK s \in Seq(Byte) : s = SubSeq(c, at + 1, at + n) /\ Len(s) = n
  <2>1. at + n <= Len(c)
    BY <1>1
  <2>2. SubSeq(c, at + 1, at + n) \in Seq(Byte) /\ Len(SubSeq(c, at + 1, at + n)) = n
    BY <2>1, PartIs
  <2> QED BY <2>2, Zenon
<1>3. ReadBytes(o, at, n) = s
  <2>1. ReadBytes(o, at, n) = [i \in 1..n |-> c[at + i]]
    BY <1>1 DEF ReadBytes
  <2>2. at + n <= Len(c)
    BY <1>1
  <2>3. SubSeq(c, at + 1, at + n) = [i \in 1..n |-> c[at + i]]
    BY <2>2, PartIs
  <2> QED BY <1>2, <2>1, <2>3
<1>4. PICK x \in 0..(Promise!Power[n] - 1) : x = Promise!Number(s)
  BY <1>2, NumberInRange DEF Byte
<1>5. /\ last'.op = "load" /\ last'.memory = o /\ last'.at = at /\ last'.n = n /\ last'.w = w
      /\ last'.signed = signed /\ last'.word = Extend(x, n, w, signed)
  BY <1>3, <1>4 DEF Reads, Promise!Loaded
<1>6. IF signed THEN Promise!Signed(Extend(x, n, w, signed), w) = Promise!Signed(x, n)
      ELSE Extend(x, n, w, signed) = x
  <2>1. n <= w
    BY DEF Reads
  <2>2. CASE signed /\ 2 * x >= Promise!Power[n]
    BY <2>1, <2>2, SignExtends DEF Extend
  <2>3. CASE signed /\ ~(2 * x >= Promise!Power[n])
    BY <2>1, <2>3, SignExtends DEF Extend
  <2>4. CASE ~signed
    BY <2>4 DEF Extend
  <2> QED BY <2>2, <2>3, <2>4
<1>7. Contents' = Contents
  BY DEF Reads, Contents
<1>8. o \in Memories /\ Promise!Exists(o)
  BY ShownIs DEF Live
<1>9. Promise!Part(Contents[o], at, n) = s
  BY <1>1, <1>2 DEF Promise!Part
<1>10. Promise!Load
  BY <1>2, <1>4, <1>5, <1>6, <1>7, <1>8, <1>9 DEF Promise!Load
<1> QED BY <1>5, <1>10 DEF Promise!Next

(* A store puts the low bytes of the word there and touches no other.      *)
LEMMA StoresAreStores ==
  ASSUME Types, Backed, Shown, Types', Backed', Shown',
         NEW o \in Live, NEW at \in Nat, NEW n \in Nat \ {0}, NEW word \in Nat,
         Stores(o, at, n, word)
  PROVE  Promise!Next
<1>1. PICK s \in Seq(Byte) : s = Bytes(word, n) /\ Len(s) = n
                             /\ Promise!Number(s) = word % Promise!Power[n]
  BY NumberOfBytes DEF Byte
<1>2. PICK c \in Seq(Byte) : c = Content(o) /\ Len(c) = mem[o].size /\ at + n <= Len(c)
  BY ContentIs DEF Stores, Writes
<1>3. PICK d \in Seq(Byte) : d = Overwritten(c, at, s) /\ Len(d) = Len(c)
  BY <1>2, OverwrittenIs
<1>4. mem[o].ptr # Null /\ Rewritten(o, d)
  BY <1>1, <1>2, <1>3, WritesRewrite DEF Stores
<1>5. /\ Live' = Live /\ Content(o)' = d
      /\ \A p \in Live : p # o => Content(p)' = Content(p)
  BY <1>2, <1>3, <1>4, RewrittenKeepsBacked
<1>6. /\ Contents[o] = c /\ Contents'[o] = d /\ Promise!Exists(o) /\ o \in Memories
      /\ \A p \in Memories \ {o} : Contents'[p] = Contents[p]
  <2>1. /\ \A p \in Memories : Contents[p] = IF p \in Live THEN Content(p) ELSE Dropped
        /\ \A p \in Memories : Contents'[p] = IF p \in Live' THEN Content(p)' ELSE Dropped
    BY DEF Shown
  <2> QED BY <1>2, <1>5, <2>1, ShownIs DEF Live
<1>7. /\ last'.op = "store" /\ last'.memory = o /\ last'.at = at /\ last'.n = n /\ last'.word = word
  BY DEF Stores, Promise!Stored
<1>8. \A i \in DOMAIN c : i <= at \/ i > at + n => d[i] = c[i]
  BY <1>1, <1>3 DEF Overwritten
<1>9. Promise!Part(d, at, n) = s
  <2>1. at + n <= Len(d)
    BY <1>2, <1>3
  <2>2. /\ SubSeq(d, at + 1, at + n) \in Seq(Byte) /\ Len(SubSeq(d, at + 1, at + n)) = n
        /\ SubSeq(d, at + 1, at + n) = [i \in 1..n |-> d[at + i]]
    BY <2>1, PartIs
  <2>3. ASSUME NEW i \in 1..n PROVE d[at + i] = s[i]
    <3>1. at + i \in 1..Len(c) /\ at < at + i /\ at + i <= at + Len(s) /\ (at + i) - at = i
      BY <1>1, <1>2
    <3> QED BY <1>3, <3>1 DEF Overwritten
  <2>4. PICK g \in Seq(Byte) : g = SubSeq(d, at + 1, at + n)
    BY <2>2
  <2>5. Len(g) = Len(s) /\ \A i \in 1..Len(g) : g[i] = s[i]
    BY <1>1, <2>2, <2>3, <2>4
  <2>6. g = s
    BY <2>5
  <2> QED BY <2>4, <2>6 DEF Promise!Part
<1>10. Promise!Store
  BY <1>1, <1>2, <1>3, <1>6, <1>7, <1>8, <1>9 DEF Promise!Store
<1> QED BY <1>7, <1>10 DEF Promise!Next

(* A memory dropped shows nothing any more.                                *)
LEMMA DropsAreReleases ==
  ASSUME Types, Backed, Shown, Shown', last' = Nothing, NEW c, drop(c, block)
  PROVE  Promise!Next
<1>1. Live' \subseteq Live /\ \A o \in Live' : Content(o)' = Content(o)
  BY DropKeepsBacked
<1>2. /\ \A p \in Memories : Contents[p] = IF p \in Live THEN Content(p) ELSE Dropped
      /\ \A p \in Memories : Contents'[p] = IF p \in Live' THEN Content(p)' ELSE Dropped
  BY DEF Shown
<1>3. \A p \in Memories : Contents'[p] \in {Contents[p], Dropped}
  BY <1>1, <1>2
<1> QED BY <1>3, NothingIs DEF Promise!Next, Promise!Release

(* A memory that moves shows the bytes it was moved with.                  *)
LEMMA PlacedShows ==
  ASSUME Types, Backed, Shown, Shown', NEW o \in Memories, NEW q, NEW d \in Seq(Byte), Placed(o, q, d)
  PROVE  Contents' = [Contents EXCEPT ![o] = d]
<1>1. /\ q \in Blocks /\ (block[q] = Free \/ (o \in Live /\ mem[o].ptr = q)) /\ q # Null
      /\ mem' = [mem EXCEPT ![o] = [ptr |-> q, size |-> Len(d)]]
      /\ mem \in [Memories -> Memory \cup {Dropped}] /\ Len(d) \in Nat
      /\ block' = [b \in Blocks |-> IF b = q THEN d
                                    ELSE IF o \in Live /\ mem[o].ptr = b THEN Free ELSE block[b]]
  BY Constants DEF Placed, Types
<1>2. /\ mem'[o] = [ptr |-> q, size |-> Len(d)] /\ [ptr |-> q, size |-> Len(d)] # Dropped
      /\ \A p \in Memories : p # o => mem'[p] = mem[p]
  <2>1. [ptr |-> q, size |-> Len(d)] \in Memory
    BY <1>1 DEF Memory
  <2> QED BY <1>1, <2>1, Distinct
<1>3. Live' = Live \cup {o}
  BY <1>2 DEF Live
<1>4. Content(o)' = d
  BY <1>1, <1>2 DEF Content
<1>5. ASSUME NEW p \in Live, p # o PROVE Content(p)' = Content(p)
  <2>1. mem'[p] = mem[p] /\ mem[p] \in Memory
    BY <1>2, <1>5, ContentIs DEF Live
  <2>2. CASE mem[p].ptr = Null
    BY <2>1, <2>2 DEF Content
  <2>3. CASE mem[p].ptr # Null
    <3>1. mem[p].ptr \in Blocks /\ block[mem[p].ptr] \in Seq(Byte)
      BY <2>1, <2>3 DEF Backed, Memory
    <3>2. block[mem[p].ptr] # Free
      BY <3>1, Constants
    <3>3. ~(o \in Live /\ mem[o].ptr = mem[p].ptr)
      BY <1>5, <2>3 DEF Backed
    <3>4. block'[mem[p].ptr] = block[mem[p].ptr]
      BY <1>1, <3>1, <3>2, <3>3
    <3> QED BY <2>1, <2>3, <3>4 DEF Content
  <2> QED BY <2>2, <2>3
<1>6. ASSUME NEW p \in Memories PROVE Contents'[p] = IF p = o THEN d ELSE Contents[p]
  <2>1. /\ Contents[p] = IF p \in Live THEN Content(p) ELSE Dropped
        /\ Contents'[p] = IF p \in Live' THEN Content(p)' ELSE Dropped
    BY DEF Shown
  <2> QED BY <1>3, <1>4, <1>5, <2>1
<1>7. Contents = [p \in Memories |-> Contents[p]] /\ Contents' = [p \in Memories |-> Contents'[p]]
  BY DEF Contents
<1> QED BY <1>6, <1>7

(* memory.grow keeps the bytes and adds zeros.                             *)
LEMMA GrowsAreGrows ==
  ASSUME Types, Backed, Shown, Shown', NEW o \in Live, NEW n \in Nat, grow(o, n)
  PROVE  [Promise!Next]_Promise!vars
<1>1. PICK page \in Nat \ {0} : page = TypeOf[o].page /\ PageSizes[o] = page
  BY TypeLimits DEF Live, PageSizes
<1>2. PICK c \in Seq(Byte) : c = Content(o) /\ c = Contents[o] /\ Len(c) = size_pages(o) * page
  BY <1>1, ContentIs, PagesOf, ShownIs
<1>3. o \in Memories /\ Promise!Exists(o)
  BY ShownIs DEF Live
<1>4. \A k : Promise!Zeros(k) = Zeros(k)
  BY DEF Promise!Zeros, Zeros
<1>5. ASSUME NEW k \in Nat, last' = Promise!Grown(o, k, size_pages(o)),
             Contents' = [Contents EXCEPT ![o] = c \o Zeros(k * page)]
      PROVE  Promise!Next
  <2>1. last'.op = "grow" /\ last'.memory = o /\ last'.pages = k /\ last'.old = size_pages(o)
    BY <1>5 DEF Promise!Grown
  <2>2. Promise!Grow
    BY <1>1, <1>2, <1>3, <1>4, <1>5, <2>1 DEF Promise!Grow
  <2> QED BY <2>1, <2>2 DEF Promise!Next
<1>6. CASE UNCHANGED <<mem, block>> /\ last' = Nothing
  BY <1>6, KeepsAreReleases DEF Keeps
<1>7. CASE UNCHANGED <<mem, block>> /\ last' = Promise!Grown(o, 0, size_pages(o))
  <2>1. Contents' = Contents
    BY <1>7 DEF Contents
  <2>2. 0 * page = 0 /\ Zeros(0) = <<>>
    BY DEF Zeros
  <2>3. c \o <<>> = c
    OBVIOUS
  <2>4. Contents' = [Contents EXCEPT ![o] = c \o Zeros(0 * page)]
    BY <1>2, <1>3, <2>1, <2>2, <2>3 DEF Contents
  <2> QED BY <1>5, <1>7, <2>4
<1>8. CASE /\ last' = Promise!Grown(o, n, size_pages(o))
           /\ \E q : Placed(o, q, Content(o) \o Zeros(n * TypeOf[o].page))
  <2>1. PICK z \in Nat : z = n * page
    OBVIOUS
  <2>2. PICK q : Placed(o, q, c \o Zeros(z))
    BY <1>1, <1>2, <1>8, <2>1
  <2>3. c \o Zeros(z) \in Seq(Byte)
    BY GrownBytes
  <2>4. Contents' = [Contents EXCEPT ![o] = c \o Zeros(z)]
    BY <1>3, <2>2, <2>3, PlacedShows
  <2> QED BY <1>5, <1>8, <2>1, <2>4
<1> QED BY <1>6, <1>7, <1>8, GrowIs

(* A memory is created with zeros.                                         *)
LEMMA CreatesAreCreates ==
  ASSUME Types, Backed, Shown, Shown', Types', NEW o \in Memories \ Live, Creates(o), last' = Nothing
  PROVE  Promise!Next
<1> DEFINE size == TypeOf[o].min * TypeOf[o].page
<1>1. PICK outcome \in allocate(size) :
        (outcome.ptr = Null => TypeOf[o].min = 0) /\ Create(o, outcome)
  BY DEF Creates
<1>2. \/ /\ TypeOf[o].min = 0 /\ mem' = [mem EXCEPT ![o] = [ptr |-> Null, size |-> 0]]
         /\ block' = block
      \/ \E q : Placed(o, q, Zeros(size))
  BY <1>1, CreateIs
<1>3. size \in Nat
  BY TypeLimits
<1> HIDE DEF size
<1>4. Zeros(size) \in Seq(Byte) /\ Len(Zeros(size)) = size
  BY <1>3, ZerosAre
<1>5. ASSUME NEW d \in Seq(Byte), d = Zeros(Len(d)), Contents' = [Contents EXCEPT ![o] = d]
      PROVE  Promise!Next
  <2>1. Contents'[o] = d /\ d # Dropped
    BY <1>5, Constants DEF Contents
  <2>2. Promise!Zeros(Len(d)) = d
    BY <1>5 DEF Promise!Zeros, Zeros
  <2>3. ~Promise!Exists(o) /\ Promise!Exists(o)'
    BY <2>1, ShownIs DEF Promise!Exists
  <2>4. Contents' = [Contents EXCEPT ![o] = Promise!Zeros(Len(Contents'[o]))]
    BY <1>5, <2>1, <2>2
  <2> QED BY <2>3, <2>4, NothingIs DEF Promise!Next, Promise!Create
<1>6. CASE TypeOf[o].min = 0 /\ mem' = [mem EXCEPT ![o] = [ptr |-> Null, size |-> 0]] /\ block' = block
  <2>1. /\ mem'[o] = [ptr |-> Null, size |-> 0] /\ mem'[o] # Dropped
        /\ \A p \in Memories : p # o => mem'[p] = mem[p]
    <3>1. [ptr |-> Null, size |-> 0] \in Memory
      BY DEF Memory
    <3> QED BY <1>6, <3>1, Distinct DEF Types
  <2>2. Live' = Live \cup {o} /\ Content(o)' = <<>>
    BY <2>1 DEF Live, Content
  <2>3. \A p \in Live : p # o /\ Content(p)' = Content(p)
    BY <1>6, <2>1 DEF Live, Content
  <2>4. /\ \A p \in Memories : Contents[p] = IF p \in Live THEN Content(p) ELSE Dropped
        /\ \A p \in Memories : Contents'[p] = IF p \in Live' THEN Content(p)' ELSE Dropped
    BY DEF Shown
  <2>5. \A p \in Memories : Contents'[p] = IF p = o THEN <<>> ELSE Contents[p]
    BY <2>2, <2>3, <2>4
  <2>6. Contents = [p \in Memories |-> Contents[p]] /\ Contents' = [p \in Memories |-> Contents'[p]]
    BY DEF Contents
  <2>7. Contents' = [Contents EXCEPT ![o] = <<>>]
    BY <2>5, <2>6
  <2>8. Zeros(0) = <<>>
    BY DEF Zeros
  <2>9. PICK d \in Seq(Byte) : d = <<>> /\ Len(d) = 0
    <3>1. Zeros(0) \in Seq(Byte) /\ Len(Zeros(0)) = 0
      BY ZerosAre
    <3> QED BY <2>8, <3>1, Zenon
  <2>10. d = Zeros(Len(d)) /\ Contents' = [Contents EXCEPT ![o] = d]
    BY <2>7, <2>8, <2>9
  <2> QED BY <1>5, <2>10
<1>7. ASSUME NEW q, Placed(o, q, Zeros(size)) PROVE Promise!Next
  <2>1. Contents' = [Contents EXCEPT ![o] = Zeros(size)]
    BY <1>4, <1>7, PlacedShows
  <2> QED BY <1>4, <1>5, <2>1
<1> QED BY <1>2, <1>6, <1>7

(* Every step is one of ByteMemory or a stutter.                           *)
LEMMA StepKeepsPromise ==
  ASSUME IInv, Heap, [Next]_vars
  PROVE  [Promise!Next]_Promise!vars
<1>1. Types /\ Backed /\ Types' /\ Backed'
  BY HeapPreserved DEF Heap
<1>2. Shown /\ Shown'
  BY <1>1, AllShown, NextShown
<1>3. HeapStep
  BY StepsOnHeap DEF Heap
<1>4. CASE Keeps
  BY <1>4, KeepsAreReleases
<1>5. CASE \E o \in Live : Measures(o)
  BY <1>1, <1>2, <1>5, MeasuresAreSizes
<1>6. ASSUME NEW o \in Live, NEW at \in Nat, NEW n \in Nat \ {0}, NEW w \in Nat,
             NEW signed \in BOOLEAN, Reads(o, at, n, w, signed)
      PROVE  Promise!Next
  BY <1>1, <1>2, <1>6, ReadsAreLoads
<1>7. ASSUME NEW o \in Live, NEW at \in Nat, NEW n \in Nat \ {0}, NEW word \in Nat,
             Stores(o, at, n, word)
      PROVE  Promise!Next
  BY <1>1, <1>2, <1>7, StoresAreStores
<1>8. CASE last' = Nothing /\ \E c : drop(c, block)
  BY <1>1, <1>2, <1>8, DropsAreReleases
<1>9. CASE \E o \in Live, n \in Nat : grow(o, n)
  BY <1>1, <1>2, <1>9, GrowsAreGrows
<1>10. CASE last' = Nothing /\ \E o \in Memories \ Live : Creates(o)
  BY <1>1, <1>2, <1>10, CreatesAreCreates
<1> QED BY <1>3, <1>4, <1>5, <1>6, <1>7, <1>8, <1>9, <1>10 DEF HeapStep

(* The host memories start with zeros.                                     *)
LEMMA InitialContent ==
  ASSUME Init, NEW o \in Live
  PROVE  Content(o) = Zeros(mem[o].size)
<1>1. PICK ptr \in [HostMemories -> Blocks \cup {Null}] :
       /\ \A p, r \in HostMemories : p # r => ptr[p] # ptr[r] \/ ptr[p] = Null
       /\ \A p \in HostMemories : (ptr[p] = Null) <=> (TypeOf[p].min * TypeOf[p].page = 0)
       /\ mem = [p \in Memories |-> IF p \in HostMemories
                   THEN [ptr |-> ptr[p], size |-> TypeOf[p].min * TypeOf[p].page] ELSE Dropped]
       /\ block = [b \in Blocks |->
            IF \E p \in HostMemories : ptr[p] = b
              THEN LET p == CHOOSE p \in HostMemories : ptr[p] = b
                   IN Zeros(TypeOf[p].min * TypeOf[p].page) ELSE Free]
  BY DEF Init
<1>2. o \in Memories /\ o \in HostMemories
  BY <1>1 DEF Live
<1>3. PICK size : size = TypeOf[o].min * TypeOf[o].page
  OBVIOUS
<1>4. mem[o].ptr = ptr[o] /\ mem[o].size = size
  BY <1>1, <1>2, <1>3
<1>5. CASE ptr[o] = Null
  BY <1>1, <1>2, <1>3, <1>4, <1>5 DEF Content, Zeros
<1>6. CASE ptr[o] # Null
  <2>1. ptr[o] \in Blocks
    BY <1>2, <1>6
  <2>2. PICK p \in HostMemories : p = CHOOSE q \in HostMemories : ptr[q] = ptr[o]
    BY <1>2
  <2>3. ptr[p] = ptr[o]
    BY <1>2, <2>2
  <2>4. p = o
    BY <1>1, <1>2, <1>6, <2>3
  <2>5. block[ptr[o]] = Zeros(TypeOf[p].min * TypeOf[p].page)
    BY <1>1, <1>2, <2>1, <2>2
  <2> QED BY <1>3, <1>4, <1>6, <2>4, <2>5 DEF Content
<1> QED BY <1>5, <1>6

LEMMA InitiallyZeros ==
  ASSUME Init
  PROVE  Promise!Init
<1>1. Types /\ Backed
  BY InitiallyHeap DEF Heap
<1>2. Shown
  BY <1>1, AllShown
<1>3. ASSUME NEW o \in Memories, Promise!Exists(o)
      PROVE  Contents[o] = Promise!Zeros(Len(Contents[o]))
  <2>1. o \in Live /\ Contents[o] = Content(o)
    BY <1>2, <1>3, ShownIs
  <2>2. Content(o) = Zeros(mem[o].size) /\ Len(Content(o)) = mem[o].size
    BY <1>1, <2>1, ContentIs, InitialContent
  <2> QED BY <2>1, <2>2 DEF Zeros, Promise!Zeros
<1>4. last = Promise!Nothing
  BY NothingIs DEF Init
<1> QED BY <1>3, <1>4 DEF Promise!Init

-----------------------------------------------------------------------------
(* Theorems: what lies in the linear memories *)

(* Every memory that is alive has a block of its own, as long as its size, *)
(* and no block is left behind: the allocator's resizing and the new block *)
(* that is copied to, the drop of the last reference and the drop of a     *)
(* half-loaded module all keep the heap and the memories in step.          *)
THEOREM MemoryBlocksOwned == Spec => []BlocksOwned
<1>1. Init => IInv /\ Heap
  BY Initially, InitiallyHeap
<1>2. IInv /\ Heap /\ [Next]_vars => (IInv /\ Heap)'
  BY Preserved, HeapPreserved
<1>3. Heap => BlocksOwned
  BY HeapIsOwned
<1> QED BY <1>1, <1>2, <1>3, PTL DEF Spec

(* An importer can rely on the limits of its import for as long as it      *)
(* runs: they are compared once, at linking, with the limits declared, and *)
(* memory.grow never takes the memory out of those.                        *)
THEOREM MemoryImportsSatisfied == Spec => []ImportsStaySatisfied
<1>1. Init => IInv /\ Heap
  BY Initially, InitiallyHeap
<1>2. IInv /\ Heap /\ [Next]_vars => (IInv /\ Heap)'
  BY Preserved, HeapPreserved
<1>3. Heap => ImportsStaySatisfied
  BY HeapIsOwned
<1> QED BY <1>1, <1>2, <1>3, PTL DEF Spec

(* Every step of the memories is one of ByteMemory, on the bytes they show *)
(* to guests and hosts, or changes nothing of it: loads and stores of any  *)
(* width, sign extension, memory.size, and memory.grow on every path.      *)
THEOREM MemoryKeepsPromise == Spec => KeepsPromise
<1>1. Init => IInv /\ Heap
  BY Initially, InitiallyHeap
<1>2. IInv /\ Heap /\ [Next]_vars => (IInv /\ Heap)'
  BY Preserved, HeapPreserved
<1>3. Init => Promise!Init
  BY InitiallyZeros
<1>4. IInv /\ Heap /\ [Next]_vars => [Promise!Next]_Promise!vars
  BY StepKeepsPromise
<1> QED BY <1>1, <1>2, <1>3, <1>4, PTL DEF Spec, KeepsPromise, Promise!Spec

=============================================================================
