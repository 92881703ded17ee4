---------------------------- MODULE ReaderProofs ----------------------------
(***************************************************************************)
(* Proofs about Reader, for rings and chunks of any length.  The invariant *)
(* is the conjunction of the properties the runs check: the bytes that are *)
(* not read yet are those of the ring and of the chunk, in order.          *)
(***************************************************************************)
EXTENDS Reader, SequenceTheorems, TLAPS

Indices == 0..(Capacity - 1)
RingType == [items : [Indices -> Nat \cup {Junk}], start : Indices, size : 0..Capacity]

(* The slot of the i-th element of a ring, and what it means for a ring to *)
(* hold the bytes from number n on.                                        *)
SlotOf(r, i) == (r.start + i) % Capacity
Holds(r, n) == \A i \in 0..(r.size - 1) : r.items[SlotOf(r, i)] = n + i

IInv == NothingLost /\ ChunksComeBack

-----------------------------------------------------------------------------
(* The ring *)

LEMMA Wraps ==
  ASSUME NEW x \in Nat, x < 2 * Capacity
  PROVE  x % Capacity = IF x < Capacity THEN x ELSE x - Capacity
BY ReaderAssumption

(* Consecutive elements of a ring have slots of their own. *)
LEMMA SlotsDiffer ==
  ASSUME NEW start \in Indices, NEW i \in Indices, NEW k \in Indices,
         (start + i) % Capacity = (start + k) % Capacity
  PROVE  i = k
<1>1. start + i \in Nat /\ start + i < 2 * Capacity /\ start + k \in Nat /\ start + k < 2 * Capacity
  BY ReaderAssumption DEF Indices
<1> QED
  BY <1>1, Wraps, ReaderAssumption DEF Indices

LEMMA SlotIsIndex ==
  ASSUME NEW x \in Nat, x < 2 * Capacity
  PROVE  x % Capacity \in Indices
BY Wraps, ReaderAssumption DEF Indices

(* fill_buffer: an empty ring that is filled with the n bytes from first   *)
(* on holds them in their order, however far round it starts.              *)
LEMMA Refill ==
  ASSUME ring \in RingType, ring.size = 0, NEW first \in Nat, NEW n \in 0..Capacity
  PROVE  /\ Pushed(first, n) \in RingType
         /\ Pushed(first, n).size = n
         /\ Holds(Pushed(first, n), first)
<1> DEFINE Into(j) == {i \in 0..(n - 1) : Slot(ring.size + i) = j}
           Newest(S) == CHOOSE i \in S : \A k \in S : k <= i
           items == [j \in Indices |->
                       IF Into(j) = {} THEN ring.items[j] ELSE first + Newest(Into(j))]
           r == [items |-> items, start |-> ring.start, size |-> n]
<1>1. ring.start \in Indices /\ ring.items \in [Indices -> Nat \cup {Junk}]
  BY DEF RingType
<1>2. Pushed(first, n) = r
  <2>1. ring.size + n = n /\ ring.size + n <= Capacity
    BY ReaderAssumption
  <2>2. Pushed(first, n) =
          [items |-> items,
           start |-> IF ring.size + n <= Capacity THEN ring.start ELSE Slot(ring.size + n),
           size  |-> IF ring.size + n <= Capacity THEN ring.size + n ELSE Capacity]
    BY DEF Pushed, Indices
  <2> HIDE DEF items
  <2> QED BY <2>1, <2>2
<1>8. \A i \in 0..(n - 1) : Slot(ring.size + i) = (ring.start + i) % Capacity
  BY DEF Slot
<1>3. \A i \in 0..(n - 1) : /\ (ring.start + i) % Capacity \in Indices
                           /\ Into((ring.start + i) % Capacity) = {i}
  <2> SUFFICES ASSUME NEW i \in 0..(n - 1)
               PROVE  /\ (ring.start + i) % Capacity \in Indices
                      /\ Into((ring.start + i) % Capacity) = {i}
    OBVIOUS
  <2>1. ring.start + i \in Nat /\ ring.start + i < 2 * Capacity
    BY <1>1, ReaderAssumption DEF Indices
  <2>2. \A k \in 0..(n - 1) : k \in Indices
    BY ReaderAssumption DEF Indices
  <2>3. \A k \in Into((ring.start + i) % Capacity) : k = i
    BY <1>1, <1>8, <2>2, SlotsDiffer
  <2>4. i \in Into((ring.start + i) % Capacity)
    BY <1>8
  <2> QED BY <2>1, <2>3, <2>4, SlotIsIndex
<1>4. \A i \in 0..(n - 1) : Newest({i}) = i
  OBVIOUS
<1>5. \A j \in Indices : Into(j) # {} => Newest(Into(j)) \in Nat
  <2> SUFFICES ASSUME NEW j \in Indices, NEW i \in Into(j)
               PROVE  Newest(Into(j)) \in Nat
    OBVIOUS
  <2>1. i \in 0..(n - 1) /\ (ring.start + i) % Capacity = j
    BY <1>8
  <2>2. Into(j) = {i}
    BY <1>3, <2>1
  <2> HIDE DEF Into, Newest
  <2> QED BY <1>4, <2>1, <2>2
<1> HIDE DEF Into, Newest
<1>6. r \in RingType
  BY <1>1, <1>5 DEF RingType
<1>7. Holds(r, first)
  BY <1>3, <1>4 DEF Holds, SlotOf
<1> QED BY <1>2, <1>6, <1>7

(* pop_front moves on by one. *)
LEMMA PopFront ==
  ASSUME NEW r \in RingType, r.size > 0, NEW n \in Nat, Holds(r, n)
  PROVE  /\ pop_front(r) \in RingType
         /\ pop_front(r).size = r.size - 1
         /\ Holds(pop_front(r), n + 1)
         /\ front(r) = n
<1>1. r.start \in Indices /\ r.size \in 1..Capacity
  BY DEF RingType
<1>2. pop_front(r) = [items |-> r.items, start |-> (r.start + 1) % Capacity, size |-> r.size - 1]
  BY DEF pop_front
<1>3. (r.start + 1) % Capacity \in Indices
  BY <1>1, SlotIsIndex, ReaderAssumption DEF Indices
<1>4. (r.start + 0) % Capacity = r.start
  BY <1>1, Wraps, ReaderAssumption DEF Indices
<1>5. \A i \in 0..(r.size - 2) :
        (((r.start + 1) % Capacity) + i) % Capacity = (r.start + (i + 1)) % Capacity
  <2> SUFFICES ASSUME NEW i \in 0..(r.size - 2)
               PROVE  (((r.start + 1) % Capacity) + i) % Capacity = (r.start + (i + 1)) % Capacity
    OBVIOUS
  <2>1. (r.start + 1) % Capacity = IF r.start + 1 < Capacity THEN r.start + 1 ELSE r.start + 1 - Capacity
    BY <1>1, Wraps, ReaderAssumption DEF Indices
  <2>2. CASE r.start + 1 < Capacity
    BY <1>1, <2>1, <2>2, ReaderAssumption DEF Indices
  <2>3. CASE ~(r.start + 1 < Capacity)
    <3>1. r.start + 1 = Capacity
      BY <1>1, <2>3, ReaderAssumption DEF Indices
    <3>2. i % Capacity = i
      BY <1>1, Wraps, ReaderAssumption DEF Indices
    <3>3. (Capacity + i) % Capacity = i
      BY <1>1, Wraps, ReaderAssumption DEF Indices
    <3>4. r.start + (i + 1) = Capacity + i
      BY <1>1, <3>1, ReaderAssumption DEF Indices
    <3>5. ((r.start + 1) % Capacity) + i = i
      BY <2>1, <3>1, ReaderAssumption
    <3> QED BY <3>2, <3>3, <3>4, <3>5
  <2> QED BY <2>2, <2>3
<1>6. Holds(pop_front(r), n + 1)
  <2> SUFFICES ASSUME NEW i \in 0..(r.size - 2)
               PROVE  r.items[(((r.start + 1) % Capacity) + i) % Capacity] = n + 1 + i
    BY <1>1, <1>2 DEF Holds, SlotOf
  <2>1. i + 1 \in 0..(r.size - 1)
    BY <1>1
  <2>2. r.items[(r.start + (i + 1)) % Capacity] = n + (i + 1)
    BY <2>1 DEF Holds, SlotOf
  <2> QED BY <1>5, <2>2
<1>7. front(r) = n
  <2>1. r.items[(r.start + 0) % Capacity] = n + 0
    BY <1>1 DEF Holds, SlotOf
  <2>2. n + 0 = n
    OBVIOUS
  <2> QED BY <1>4, <2>1, <2>2 DEF front
<1>8. r.items \in [Indices -> Nat \cup {Junk}] /\ r.size - 1 \in 0..Capacity
  BY ReaderAssumption DEF RingType
<1>9. pop_front(r) \in RingType /\ pop_front(r).size = r.size - 1
  BY <1>2, <1>3, <1>8 DEF RingType
<1> QED BY <1>6, <1>7, <1>9

-----------------------------------------------------------------------------
(* peek_u8: whatever it does, the bytes ahead are those that were ahead.   *)

Chunk == [first : Nat, len : 0..MaxChunk]
Left(p) == IF p.next = None THEN 0 ELSE p.next.len - p.chunk_used
Sound(p) ==
  /\ p.ring \in RingType
  /\ p.next \in Chunk \cup {None}
  /\ p.chunk_used \in Nat /\ (p.next # None => p.chunk_used <= p.next.len)
  /\ p.sent \in 0..MaxBytes
  /\ p.lent = IF p.next = None THEN 0 ELSE 1
  /\ Holds(p.ring, full_offset)
  /\ full_offset + p.ring.size + Left(p) = p.sent
  /\ Left(p) > 0 => p.next.first + p.chunk_used = full_offset + p.ring.size
  /\ p.ring.size = 0 => p.error \in {"Eof", "ReaderError"}

LEMMA NoneIsNoChunk == None \notin Chunk
BY ReaderAssumption DEF Chunk

LEMMA PeekFacts ==
  ASSUME IInv, ~dropped, NEW p \in Peek
  PROVE  Sound(p)
<1>1. /\ ring \in RingType /\ next \in Chunk \cup {None}
      /\ chunk_used \in Nat /\ (next # None => chunk_used <= next.len)
      /\ full_offset \in Nat /\ sent \in 0..MaxBytes
  BY DEF IInv, NothingLost, TypeOK, RingType, Chunk, Indices
<1>2. ring.size \in 0..Capacity
  BY <1>1 DEF RingType
<1>3. Holds(ring, full_offset)
  BY DEF IInv, NothingLost, Holds, SlotOf, Slot
<1>4. /\ full_offset + ring.size + Remaining = sent
      /\ Remaining > 0 => next.first + chunk_used = full_offset + ring.size
      /\ lent = IF next = None THEN 0 ELSE 1
  BY DEF IInv, NothingLost, ChunksComeBack
<1>5. CASE ring.size > 0
  <2>1. p = Outcome(ring, next, chunk_used, 0, lent, "none")
    BY <1>5 DEF Peek
  <2> QED BY <1>1, <1>2, <1>3, <1>4, <1>5, <2>1 DEF Outcome, Sound, Left, Remaining
<1>6. CASE ring.size = 0 /\ Remaining > 0
  <2>1. p = FromChunk
    BY <1>6 DEF Peek
  <2>2. /\ next \in Chunk /\ next.first \in Nat /\ next.len \in Nat
        /\ Remaining = next.len - chunk_used /\ Remaining \in Nat
    BY <1>1, <1>6, ReaderAssumption DEF Remaining, Chunk
  <2>3. to_copy(Remaining) \in 1..Capacity /\ to_copy(Remaining) <= Remaining
    BY <1>6, <2>2, ReaderAssumption DEF to_copy
  <2>4. next.first + chunk_used = full_offset
    BY <1>1, <1>4, <1>6, <2>2
  <2> DEFINE n == to_copy(Remaining)
             q == Pushed(full_offset, n)
  <2>5. q \in RingType /\ q.size = n /\ Holds(q, full_offset)
    BY <1>1, <1>6, <2>3, Refill
  <2>6. p = [ring |-> q, next |-> next, chunk_used |-> chunk_used + n, sent |-> sent + 0,
             lent |-> lent, error |-> "none"]
    BY <2>1, <2>4 DEF FromChunk, Outcome
  <2>7. Left(p) = Remaining - n
    BY <1>1, <2>2, <2>3, <2>6, NoneIsNoChunk DEF Left
  <2> HIDE DEF q
  <2>8. n \in 1..Capacity /\ n <= Remaining
    BY <2>3
  <2> HIDE DEF n
  <2>9. chunk_used + n \in Nat /\ chunk_used + n <= next.len
    BY <1>1, <2>2, <2>8, ReaderAssumption
  <2>10. full_offset + n + (Remaining - n) = sent + 0
    BY <1>1, <1>4, <1>6, <2>2, <2>8, ReaderAssumption
  <2>11. next.first + (chunk_used + n) = full_offset + n
    BY <1>1, <2>2, <2>4, <2>8, ReaderAssumption
  <2>12. sent + 0 = sent /\ n # 0
    BY <1>1, <2>8, ReaderAssumption
  <2> QED BY <1>1, <1>4, <2>2, <2>5, <2>6, <2>7, <2>9, <2>10, <2>11, <2>12, NoneIsNoChunk DEF Sound
<1>7. CASE ring.size = 0 /\ ~(Remaining > 0)
  <2>1. Remaining = 0
    BY <1>1, <1>7, ReaderAssumption DEF Remaining, Chunk
  <2>2. full_offset = sent
    BY <1>1, <1>4, <1>7, <2>1, ReaderAssumption
  <2>3. lent \in {0, 1} /\ Returned = 0
    BY <1>4 DEF Returned
  <2>4. CASE p = NoChunk \/ p = Broken
    <3>1. /\ p.ring = ring /\ p.next = None /\ p.chunk_used \in Nat /\ p.sent = sent
          /\ p.lent = 0 /\ p.error \in {"Eof", "ReaderError"}
      BY <1>1, <2>3, <2>4, ReaderAssumption DEF NoChunk, Broken, Outcome
    <3> QED BY <1>1, <1>3, <1>7, <2>2, <3>1, ReaderAssumption DEF Sound, Left
  <2>5. CASE \E n \in 0..MaxChunk : sent + n <= MaxBytes /\ p = NewChunk(n)
    <3>1. PICK n \in 0..MaxChunk : sent + n <= MaxBytes /\ p = NewChunk(n)
      BY <2>5
    <3>2. n \in Nat /\ sent \in Nat
      BY <1>1, ReaderAssumption
    <3>3. to_copy(n) \in 0..Capacity /\ to_copy(n) <= n /\ (to_copy(n) = 0 => n = 0)
      BY <3>2, ReaderAssumption DEF to_copy
    <3>4. PICK k \in 0..Capacity : k = to_copy(n)
      BY <3>3
    <3> DEFINE q == Pushed(sent, k)
               c == [first |-> sent, len |-> n]
    <3>5. q \in RingType /\ q.size = k /\ Holds(q, full_offset)
      BY <1>1, <1>7, <2>2, <3>2, Refill
    <3>6. p = [ring |-> q, next |-> c, chunk_used |-> k, sent |-> sent + n,
               lent |-> 0 + 1, error |-> IF n = 0 THEN "Eof" ELSE "none"]
      BY <2>3, <3>1, <3>4 DEF NewChunk, Outcome
    <3>7. c \in Chunk /\ c.len = n /\ c.first = sent
      BY <3>1, <3>2 DEF Chunk
    <3> HIDE DEF q, c
    <3>8. c # None
      BY <3>7, NoneIsNoChunk
    <3>9. Left(p) = n - k
      BY <3>6, <3>7, <3>8 DEF Left
    <3>10. /\ k \in Nat /\ k <= n /\ (k = 0 => n = 0)
           /\ full_offset + k + (n - k) = sent + n /\ sent + n \in 0..MaxBytes
      BY <1>1, <2>2, <3>1, <3>2, <3>3, <3>4, ReaderAssumption
    <3> QED BY <2>2, <3>5, <3>6, <3>7, <3>8, <3>9, <3>10 DEF Sound
  <2> QED BY <1>7, <2>1, <2>4, <2>5 DEF Peek
<1> QED BY <1>2, <1>5, <1>6, <1>7, ReaderAssumption

(* A call that fails, or only looks: what was peeked stays in the ring.    *)
LEMMA Kept ==
  ASSUME IInv, ~dropped, NEW p \in Peek, Take(p, p.ring),
         UNCHANGED <<full_offset, limit, outer, dropped>>,
         last' \in [status : Failure \cup {"byte", "ok"}, byte : Nat]
  PROVE  IInv'
<1>1. Sound(p)
  BY PeekFacts
<1>2. /\ ring' = p.ring /\ next' = p.next /\ chunk_used' = p.chunk_used
      /\ sent' = p.sent /\ lent' = p.lent
  BY DEF Take
<1>3. Remaining' = Left(p)
  BY <1>2 DEF Remaining, Left
<1>4. TypeOK'
  <2>1. full_offset \in Nat /\ limit \in 0..UsizeMax /\ outer \in Seq(0..UsizeMax)
    BY DEF IInv, NothingLost, TypeOK
  <2>2. p.lent \in Nat
    BY <1>1 DEF Sound
  <2>3. dropped \in BOOLEAN
    BY DEF IInv, NothingLost, TypeOK
  <2> QED BY <1>1, <1>2, <2>1, <2>2, <2>3 DEF Sound, TypeOK, RingType, Indices, Chunk
<1>5. \A i \in 0..(ring'.size - 1) : ring'.items[Slot(i)'] = full_offset' + i
  BY <1>1, <1>2 DEF Sound, Holds, SlotOf, Slot
<1>6. NothingLost'
  BY <1>1, <1>2, <1>3, <1>4, <1>5 DEF Sound, NothingLost
<1>7. ChunksComeBack'
  BY <1>1, <1>2 DEF Sound, ChunksComeBack
<1> QED BY <1>6, <1>7 DEF IInv

(* A call that reads: the byte it returns is the next one of the binary.   *)
LEMMA Consumed ==
  ASSUME IInv, ~dropped, NEW p \in Peek, p.ring.size > 0, Take(p, pop_front(p.ring)),
         full_offset' = full_offset + 1, last' = Got(front(p.ring)),
         UNCHANGED <<limit, outer, dropped>>
  PROVE  IInv' /\ last' = Got(full_offset)
<1>1. Sound(p)
  BY PeekFacts
<1>2. full_offset \in Nat /\ limit \in 0..UsizeMax /\ outer \in Seq(0..UsizeMax)
  BY DEF IInv, NothingLost, TypeOK
<1>3. p.ring \in RingType /\ Holds(p.ring, full_offset)
  BY <1>1 DEF Sound
<1> DEFINE q == pop_front(p.ring)
<1>4. /\ q \in RingType /\ q.size = p.ring.size - 1 /\ Holds(q, full_offset + 1)
      /\ front(p.ring) = full_offset
  BY <1>2, <1>3, PopFront
<1>5. /\ ring' = q /\ next' = p.next /\ chunk_used' = p.chunk_used
      /\ sent' = p.sent /\ lent' = p.lent
  BY DEF Take
<1> HIDE DEF q
<1>6. Remaining' = Left(p)
  BY <1>5 DEF Remaining, Left
<1>7. p.ring.size \in Nat /\ Left(p) \in Int
  BY <1>1, ReaderAssumption DEF Sound, RingType, Left, Chunk
<1>8. TypeOK'
  <2>1. p.lent \in Nat /\ full_offset' \in Nat
    BY <1>1, <1>2 DEF Sound
  <2>2. last' \in [status : Failure \cup {"byte", "ok"}, byte : Nat]
    BY <1>2, <1>4 DEF Got
  <2>3. dropped' \in BOOLEAN
    BY DEF IInv, NothingLost, TypeOK
  <2> QED BY <1>1, <1>2, <1>4, <1>5, <2>1, <2>2, <2>3 DEF Sound, TypeOK, RingType, Indices, Chunk
<1>9. \A i \in 0..(ring'.size - 1) : ring'.items[Slot(i)'] = full_offset' + i
  BY <1>4, <1>5 DEF Holds, SlotOf, Slot
<1>10. full_offset' + ring'.size = full_offset + p.ring.size
  <2>1. PICK s \in Nat : s = p.ring.size
    BY <1>7
  <2>2. ring'.size = s - 1 /\ full_offset' = full_offset + 1
    BY <1>4, <1>5, <2>1
  <2>3. (full_offset + 1) + (s - 1) = full_offset + s
    BY <1>2
  <2> QED BY <2>1, <2>2, <2>3
<1>11. /\ full_offset' + ring'.size + Remaining' = sent'
       /\ Remaining' > 0 => next'.first + chunk_used' = full_offset' + ring'.size
  BY <1>1, <1>5, <1>6, <1>10 DEF Sound
<1>12. NothingLost'
  BY <1>8, <1>9, <1>11 DEF NothingLost
<1>13. ChunksComeBack'
  BY <1>1, <1>5 DEF Sound, ChunksComeBack
<1> QED BY <1>4, <1>12, <1>13 DEF IInv

(* The calls that leave the source of bytes alone. *)
LEMMA SourceKept ==
  ASSUME IInv, UNCHANGED <<source, full_offset, dropped>>,
         limit' \in 0..UsizeMax, outer' \in Seq(0..UsizeMax),
         last' \in [status : Failure \cup {"byte", "ok"}, byte : Nat]
  PROVE  IInv'
<1>1. Remaining' = Remaining
  BY DEF source, Remaining
<1>2. TypeOK'
  BY DEF IInv, NothingLost, TypeOK, source
<1>3. NothingLost'
  BY <1>1, <1>2 DEF IInv, NothingLost, source, Slot
<1>4. ChunksComeBack'
  BY DEF IInv, ChunksComeBack, source
<1> QED BY <1>3, <1>4 DEF IInv

-----------------------------------------------------------------------------

LEMMA Initially ==
  ASSUME Init
  PROVE  IInv
<1>1. TypeOK
  <2>1. /\ 0 \in Nat /\ 0 \in 0..(Capacity - 1) /\ 0 \in 0..Capacity
        /\ 0 \in 0..MaxBytes /\ UsizeMax \in 0..UsizeMax /\ <<>> \in Seq(0..UsizeMax)
    BY ReaderAssumption
  <2>2. [j \in 0..(Capacity - 1) |-> Junk] \in [0..(Capacity - 1) -> Nat \cup {Junk}]
    OBVIOUS
  <2> QED BY <2>1, <2>2 DEF Init, TypeOK, Answer
<1>2. NothingLost
  BY <1>1, ReaderAssumption DEF Init, NothingLost, Remaining
<1>3. ChunksComeBack
  BY DEF Init, ChunksComeBack
<1> QED BY <1>2, <1>3 DEF IInv

LEMMA Preserved ==
  ASSUME IInv, [Next]_vars
  PROVE  IInv'
<1> DEFINE Answers == [status : Failure \cup {"byte", "ok"}, byte : Nat]
<1>1. /\ limit \in 0..UsizeMax /\ outer \in Seq(0..UsizeMax) /\ last \in Answers
      /\ full_offset \in Nat
  BY DEF IInv, NothingLost, TypeOK
<1>2. \A s \in Failure \cup {"ok"} : Answer(s) \in Answers
  BY DEF Answer
<1>3. \A p \in Peek : ~dropped /\ p.ring.size = 0 => Answer(p.error) \in Answers
  BY <1>2, PeekFacts DEF Sound, Failure
<1>4. Answer("Eof") \in Answers /\ Answer("ExpectedTerminal") \in Answers
      /\ Answer("MalformedSectionSize") \in Answers /\ Answer("ok") \in Answers
  BY <1>2 DEF Failure
<1> HIDE DEF Answers
<1> USE DEF Answers
<1>5. CASE ~dropped /\ read_u8
  <2>1. CASE full_offset >= limit /\ last' = Answer("Eof") /\ UNCHANGED <<source, full_offset>>
    BY <1>1, <1>4, <1>5, <2>1, SourceKept DEF read_u8
  <2>2. CASE \E p \in Peek : /\ p.ring.size > 0
                           /\ Take(p, pop_front(p.ring))
                           /\ full_offset' = full_offset + 1
                           /\ last' = Got(front(p.ring))
    BY <1>5, <2>2, Consumed DEF read_u8
  <2>3. CASE \E p \in Peek : /\ p.ring.size = 0
                           /\ Take(p, p.ring)
                           /\ last' = Answer(p.error)
                           /\ UNCHANGED full_offset
    BY <1>3, <1>5, <2>3, Kept DEF read_u8
  <2> QED BY <1>5, <2>1, <2>2, <2>3 DEF read_u8
<1>6. CASE ~dropped /\ expect_u8
  <2>1. PICK p \in Peek :
          \/ Take(p, p.ring) /\ last' = Answer(p.error) /\ p.ring.size = 0
                /\ UNCHANGED full_offset
          \/ /\ Take(p, p.ring) /\ UNCHANGED full_offset
             /\ last' = Answer("ExpectedTerminal") \/ last' = Answer("Eof")
          \/ /\ Take(p, pop_front(p.ring)) /\ p.ring.size > 0
             /\ last' = Got(front(p.ring)) /\ full_offset' = full_offset + 1
    BY <1>6 DEF expect_u8
  <2>2. UNCHANGED <<limit, outer, dropped>>
    BY <1>6 DEF expect_u8
  <2> QED BY <1>3, <1>4, <1>6, <2>1, <2>2, Kept, Consumed
<1>7. ASSUME NEW len \in 0..MaxBytes \cup {UsizeMax}, with_limit(len)
      PROVE  IInv'
  <2>1. len \in Nat
    BY ReaderAssumption
  <2>2. Append(outer, limit) \in Seq(0..UsizeMax)
    BY <1>1, AppendProperties
  <2>3. full_offset + len <= UsizeMax => full_offset + len \in 0..UsizeMax
    BY <1>1, <2>1, ReaderAssumption
  <2>4. limit' \in 0..UsizeMax /\ outer' \in Seq(0..UsizeMax)
    BY <1>1, <1>7, <2>2, <2>3 DEF with_limit
  <2>5. last' \in Answers /\ UNCHANGED <<source, full_offset, dropped>>
    BY <1>4, <1>7 DEF with_limit
  <2> QED BY <2>4, <2>5, SourceKept
<1>8. CASE end_limit
  <2>1. Len(outer) \in Nat \ {0}
    BY <1>1, <1>8, EmptySeq DEF end_limit
  <2>2. \A i \in 1..Len(outer) : outer[i] \in 0..UsizeMax
    BY <1>1, ElementOfSeq
  <2>3. SubSeq(outer, 1, Len(outer) - 1) \in Seq(0..UsizeMax)
    BY <2>1, <2>2, SubSeqProperties
  <2> QED BY <1>4, <1>8, <2>1, <2>2, <2>3, SourceKept DEF end_limit
<1>9. CASE ~dropped /\ drop
  <2>1. Remaining' = 0 /\ lent' = 0
    BY <1>9 DEF drop, Remaining, Returned, IInv, ChunksComeBack
  <2>2. TypeOK'
    BY <1>9, <2>1 DEF IInv, NothingLost, TypeOK, drop
  <2>3. NothingLost'
    BY <1>9, <2>1, <2>2 DEF IInv, NothingLost, drop, Slot
  <2>4. ChunksComeBack'
    BY <1>9, <2>1 DEF ChunksComeBack, drop
  <2> QED BY <2>3, <2>4 DEF IInv
<1>10. CASE UNCHANGED vars
  BY <1>1, <1>10, SourceKept DEF vars
<1> QED BY <1>5, <1>6, <1>7, <1>8, <1>9, <1>10 DEF Next

LEMMA Invariant == Spec => []IInv
BY Initially, Preserved, PTL DEF Spec

(* What fill_buffer's comment promises: the bytes not read yet are those of *)
(* the ring and the chunk, in order.                                       *)
THEOREM ReaderNothingLost == Spec => []NothingLost
<1>1. IInv => NothingLost
  BY DEF IInv
<1> QED BY <1>1, Invariant, PTL

(* What Chunk::drop asserts: every chunk is given back, once, before the   *)
(* stream is asked for another.                                            *)
THEOREM ReaderReturnsChunks == Spec => []ChunksComeBack
<1>1. IInv => ChunksComeBack
  BY DEF IInv
<1> QED BY <1>1, Invariant, PTL

LEMMA CursorStep ==
  ASSUME IInv, [Next]_vars
  PROVE  [AbstractCursor!Next]_(AbstractCursor!vars)
<1>1. limit \in 0..UsizeMax /\ full_offset \in Nat
  BY DEF IInv, NothingLost, TypeOK
<1>2. \A p \in Peek : ~dropped /\ p.ring.size = 0 => p.error \in Failure
  BY PeekFacts DEF Sound, Failure
<1>3. \A s : AbstractCursor!Answer(s) = Answer(s) /\ AbstractCursor!Got(s) = Got(s)
  BY DEF AbstractCursor!Answer, AbstractCursor!Got, Answer, Got
<1>4. ASSUME NEW s \in Failure, last' = Answer(s), UNCHANGED <<full_offset, limit, outer>>
      PROVE  AbstractCursor!Fail
  BY <1>3, <1>4 DEF AbstractCursor!Fail
<1>5. {"Eof", "ExpectedTerminal", "MalformedSectionSize"} \subseteq Failure
  BY DEF Failure
<1>6. ASSUME full_offset < limit, full_offset' = full_offset + 1, last' = Got(full_offset),
             UNCHANGED <<limit, outer>>
      PROVE  AbstractCursor!Read
  BY <1>3, <1>6 DEF AbstractCursor!Read
<1>7. CASE ~dropped /\ read_u8
  <2>1. CASE last' = Answer("Eof") /\ UNCHANGED full_offset
    BY <1>4, <1>5, <1>7, <2>1 DEF read_u8, AbstractCursor!Next
  <2>2. CASE full_offset < limit
             /\ \E p \in Peek : /\ p.ring.size > 0
                              /\ Take(p, pop_front(p.ring))
                              /\ full_offset' = full_offset + 1
                              /\ last' = Got(front(p.ring))
    BY <1>6, <1>7, <2>2, Consumed DEF read_u8, AbstractCursor!Next
  <2>3. CASE \E p \in Peek : /\ p.ring.size = 0
                           /\ last' = Answer(p.error)
                           /\ UNCHANGED full_offset
    BY <1>2, <1>4, <1>7, <2>3 DEF read_u8, AbstractCursor!Next
  <2> QED BY <1>7, <2>1, <2>2, <2>3 DEF read_u8
<1>8. CASE ~dropped /\ expect_u8
  <2>1. UNCHANGED <<limit, outer, dropped>>
    BY <1>8 DEF expect_u8
  <2>2. PICK p \in Peek :
          \/ last' = Answer(p.error) /\ p.ring.size = 0 /\ UNCHANGED full_offset
          \/ /\ UNCHANGED full_offset
             /\ last' = Answer("ExpectedTerminal") \/ last' = Answer("Eof")
          \/ /\ Take(p, pop_front(p.ring)) /\ p.ring.size > 0 /\ full_offset < limit
             /\ last' = Got(front(p.ring)) /\ full_offset' = full_offset + 1
    BY <1>8 DEF expect_u8
  <2> QED BY <1>2, <1>4, <1>5, <1>6, <1>8, <2>1, <2>2, Consumed DEF AbstractCursor!Next
<1>9. ASSUME NEW len \in 0..MaxBytes \cup {UsizeMax}, with_limit(len)
      PROVE  AbstractCursor!Next
  <2>1. len \in Nat
    BY ReaderAssumption
  <2>2. CASE full_offset + len <= UsizeMax /\ full_offset + len <= limit
    <3>1. full_offset + len \in full_offset..limit
      BY <1>1, <2>1, <2>2
    <3>2. /\ limit' = full_offset + len /\ outer' = Append(outer, limit)
          /\ last' = Answer("ok") /\ full_offset' = full_offset
      BY <1>9, <2>2 DEF with_limit
    <3> QED BY <1>3, <3>1, <3>2 DEF AbstractCursor!Enter, AbstractCursor!Next
  <2>3. CASE ~(full_offset + len <= UsizeMax /\ full_offset + len <= limit)
    BY <1>4, <1>5, <1>9, <2>3 DEF with_limit, AbstractCursor!Next
  <2> QED BY <2>2, <2>3
<1>10. CASE end_limit
  BY <1>3, <1>10 DEF end_limit, AbstractCursor!Leave, AbstractCursor!Next
<1>11. CASE drop \/ UNCHANGED vars
  BY <1>11 DEF drop, vars, AbstractCursor!vars
<1> QED BY <1>7, <1>8, <1>9, <1>10, <1>11 DEF Next

(* The reader implements the cursor: what a caller of read_u8, expect_u8   *)
(* and with_limit sees is a position that moves one byte at a time and     *)
(* never leaves the section or function it was limited to, however the     *)
(* stream cuts the binary into chunks.                                     *)
THEOREM ReaderIsACursor == Spec => IsACursor
<1>1. Init => AbstractCursor!Init
  BY DEF Init, AbstractCursor!Init, Answer, AbstractCursor!Answer
<1> QED BY <1>1, CursorStep, Invariant, PTL DEF Spec, IsACursor, AbstractCursor!Spec

=============================================================================
