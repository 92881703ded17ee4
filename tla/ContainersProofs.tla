-------------------------- MODULE ContainersProofs --------------------------
(***************************************************************************)
(* Proofs about Containers, for any number of containers, values and       *)
(* blocks and any capacities: every value with a size is owned once, every *)
(* block is freed as it was allocated, and the containers are              *)
(* OwnedSequence.  A value without a size is kept by its caller until a    *)
(* box is made of it, and by nobody from then on.                          *)
(***************************************************************************)
EXTENDS Containers, SequenceTheorems, TLAPS

Cell == Tokens \cup {Uninit}
Container == [kind : Kinds, ptr : Blocks \cup {Null}, cap : Nat, lo : Nat, hi : Nat, data : Seq(Cell)]

Iterators == {"into_iter", "static_into_iter"}

(* The indices of a container, whatever its buffer is.  What Layout frees  *)
(* is the capacity for every kind.                                         *)
Shape(c) ==
  /\ c.lo <= c.hi /\ c.hi <= c.cap
  /\ c.kind \notin Iterators => c.lo = 0
  /\ c.kind = "slice" => c.hi = c.cap
  /\ c.kind \in {"box", "raw"} => c.hi = 1 /\ c.cap = 1
  /\ c.kind \in Inline => c.cap = N /\ Len(c.data) = N

Heaped == {s \in Present : slot[s].kind \notin Inline}

Types ==
  /\ slot \in [Slots -> Container \cup {Absent}]
  /\ heap \in [Blocks -> Seq(Cell) \cup {Free}]
  /\ \A s \in Present : Shape(slot[s])

(* Each container with a capacity has a block of its own, as long.         *)
Backed ==
  /\ \A s \in Heaped : LET c == slot[s] IN
       IF c.cap = 0 THEN c.ptr = Null
       ELSE c.ptr \in Blocks /\ heap[c.ptr] # Free /\ Len(heap[c.ptr]) = c.cap
  /\ \A s, t \in Heaped : s # t /\ slot[s].ptr # Null => slot[s].ptr # slot[t].ptr
  /\ \A b \in Blocks : heap[b] # Free => \E s \in Heaped : slot[s].ptr = b

Buffers == Types /\ Backed

-----------------------------------------------------------------------------
(* Sequences *)

(* A part of a sequence, cell by cell.                                     *)
LEMMA PartIs ==
  ASSUME NEW S, NEW c \in Seq(S), NEW lo \in Nat, NEW hi \in Nat, lo <= hi, hi <= Len(c)
  PROVE  /\ SubSeq(c, lo + 1, hi) \in Seq(S)
         /\ Len(SubSeq(c, lo + 1, hi)) = hi - lo
         /\ SubSeq(c, lo + 1, hi) = [i \in 1..(hi - lo) |-> c[lo + i]]
<1>1. PICK first1 \in Nat : first1 = lo + 1 /\ first1 >= 1
  OBVIOUS
<1>2. PICK n \in Nat : n = hi - lo
  OBVIOUS
<1>3. SubSeq(c, first1, hi) = [i \in 1..(hi - first1 + 1) |-> c[first1 + i - 1]]
  OBVIOUS
<1>4. hi - first1 + 1 = n /\ \A i \in 1..n : first1 + i - 1 = lo + i /\ lo + i \in 1..Len(c)
  BY <1>1, <1>2
<1>5. [i \in 1..(hi - first1 + 1) |-> c[first1 + i - 1]] = [i \in 1..n |-> c[lo + i]]
  BY <1>4
<1>6. PICK g : g = [i \in 1..n |-> c[lo + i]]
  OBVIOUS
<1>7. \A i \in 1..Len(c) : c[i] \in S
  OBVIOUS
<1>8. g \in [1..n -> S]
  BY <1>4, <1>6, <1>7
<1>9. g \in Seq(S) /\ Len(g) = n
  BY <1>8
<1> QED BY <1>1, <1>2, <1>3, <1>5, <1>6, <1>9

(* Two sequences of one length with the same elements.                     *)
LEMMA SameSequence ==
  ASSUME NEW S, NEW s \in Seq(S), NEW t \in Seq(S), Len(s) = Len(t), \A i \in 1..Len(s) : s[i] = t[i]
  PROVE  s = t
OBVIOUS

(* Appending, at the end that grows.                                       *)
LEMMA PartAppended ==
  ASSUME NEW S, NEW c \in Seq(S), NEW lo \in Nat, NEW hi \in Nat, lo <= hi, hi < Len(c), NEW x \in S
  PROVE  /\ [c EXCEPT ![hi + 1] = x] \in Seq(S) /\ Len([c EXCEPT ![hi + 1] = x]) = Len(c)
         /\ SubSeq([c EXCEPT ![hi + 1] = x], lo + 1, hi + 1) = Append(SubSeq(c, lo + 1, hi), x)
<1>1. PICK d : d = [c EXCEPT ![hi + 1] = x]
  OBVIOUS
<1>2. /\ d \in Seq(S) /\ Len(d) = Len(c) /\ hi + 1 \in 1..Len(c)
      /\ \A i \in 1..Len(c) : d[i] = IF i = hi + 1 THEN x ELSE c[i]
  BY <1>1
<1>3. PICK e \in Nat : e = hi + 1 /\ lo <= e /\ e <= Len(d)
  BY <1>2
<1>4. PICK s : s = SubSeq(c, lo + 1, hi)
  OBVIOUS
<1>5. s \in Seq(S) /\ Len(s) = hi - lo /\ s = [i \in 1..(hi - lo) |-> c[lo + i]]
  <2>1. hi <= Len(c)
    OBVIOUS
  <2> QED BY <1>4, <2>1, PartIs
<1>6. PICK t : t = SubSeq(d, lo + 1, e)
  OBVIOUS
<1>7. t \in Seq(S) /\ Len(t) = e - lo /\ t = [i \in 1..(e - lo) |-> d[lo + i]]
  BY <1>2, <1>3, <1>6, PartIs
<1>8. PICK a : a = Append(s, x)
  OBVIOUS
<1>9. /\ a \in Seq(S) /\ Len(a) = Len(s) + 1 /\ a[Len(s) + 1] = x
      /\ \A i \in 1..Len(s) : a[i] = s[i]
  BY <1>5, <1>8, AppendProperties
<1>10. Len(a) = Len(t)
  BY <1>3, <1>5, <1>7, <1>9
<1>11. ASSUME NEW i \in 1..Len(t) PROVE t[i] = a[i]
  <2>1. i \in 1..(e - lo) /\ lo + i \in 1..Len(c) /\ t[i] = d[lo + i]
    BY <1>2, <1>3, <1>7
  <2>2. CASE i = hi - lo + 1
    <3>1. lo + i = hi + 1 /\ i = Len(s) + 1
      BY <1>5, <2>2
    <3> QED BY <1>2, <1>9, <2>1, <3>1
  <2>3. CASE i # hi - lo + 1
    <3>1. lo + i # hi + 1 /\ i \in 1..Len(s) /\ i \in 1..(hi - lo)
      BY <1>3, <1>5, <2>1, <2>3
    <3> QED BY <1>2, <1>5, <1>9, <2>1, <3>1
  <2> QED BY <2>2, <2>3
<1>12. t = a
  BY <1>7, <1>9, <1>10, <1>11, SameSequence
<1> QED BY <1>1, <1>2, <1>3, <1>4, <1>6, <1>8, <1>12

(* The last element of a part is in its last cell.                         *)
LEMMA PartLast ==
  ASSUME NEW S, NEW c \in Seq(S), NEW lo \in Nat, NEW hi \in Nat, lo < hi, hi <= Len(c)
  PROVE  c[hi] = Last(SubSeq(c, lo + 1, hi)) /\ SubSeq(c, lo + 1, hi) # <<>>
<1>1. PICK s : s = SubSeq(c, lo + 1, hi)
  OBVIOUS
<1>2. s \in Seq(S) /\ Len(s) = hi - lo /\ s = [i \in 1..(hi - lo) |-> c[lo + i]]
  <2>1. lo <= hi
    OBVIOUS
  <2> QED BY <1>1, <2>1, PartIs
<1>3. hi - lo \in 1..(hi - lo) /\ lo + (hi - lo) = hi /\ Len(s) # 0
  BY <1>2
<1>4. s[hi - lo] = c[hi]
  BY <1>2, <1>3
<1>5. c[hi] = Last(s) /\ s # <<>>
  BY <1>2, <1>3, <1>4 DEF Last
<1> QED BY <1>1, <1>5

(* The last element comes out, and its cell holds none.                    *)
LEMMA PartShortened ==
  ASSUME NEW S, NEW c \in Seq(S), NEW lo \in Nat, NEW hi \in Nat, lo < hi, hi <= Len(c),
         NEW x \in S, NEW d, d = [c EXCEPT ![hi] = x], NEW e \in Nat, e + 1 = hi
  PROVE  SubSeq(d, lo + 1, e) = Front(SubSeq(c, lo + 1, hi))
<1>1. d = [c EXCEPT ![hi] = x]
  OBVIOUS
<1>2. /\ d \in Seq(S) /\ Len(d) = Len(c)
      /\ \A i \in 1..Len(c) : d[i] = IF i = hi THEN x ELSE c[i]
  BY <1>1
<1>3. e = hi - 1 /\ lo <= e /\ e <= Len(d)
  BY <1>2
<1>4. PICK s : s = SubSeq(c, lo + 1, hi)
  OBVIOUS
<1>5. s \in Seq(S) /\ Len(s) = hi - lo /\ s = [i \in 1..(hi - lo) |-> c[lo + i]]
  <2>1. lo <= hi
    OBVIOUS
  <2> QED BY <1>4, <2>1, PartIs
<1>6. PICK t : t = SubSeq(d, lo + 1, e)
  OBVIOUS
<1>7. t \in Seq(S) /\ Len(t) = e - lo /\ t = [i \in 1..(e - lo) |-> d[lo + i]]
  <2>1. d \in Seq(S) /\ lo <= e /\ e <= Len(d)
    BY <1>2, <1>3
  <2> QED BY <1>6, <2>1, PartIs
<1>8. PICK a : a = Front(s)
  OBVIOUS
<1>9. PICK n \in Nat : n = Len(s) - 1 /\ n <= Len(s) /\ n + 1 = Len(s)
  BY <1>5
<1>10. a = SubSeq(s, 0 + 1, n)
  BY <1>8, <1>9 DEF Front
<1>11. /\ a \in Seq(S) /\ Len(a) = n /\ a = [i \in 1..(n - 0) |-> s[0 + i]]
  <2>1. 0 \in Nat /\ 0 <= n /\ n <= Len(s) /\ n - 0 = n
    BY <1>9
  <2> QED BY <1>5, <1>10, <2>1, PartIs
<1>12. Len(a) = Len(t)
  BY <1>3, <1>5, <1>7, <1>9, <1>11
<1>13. ASSUME NEW i \in 1..Len(t) PROVE t[i] = a[i]
  <2>1. /\ i \in 1..(e - lo) /\ lo + i \in 1..Len(c) /\ lo + i # hi /\ t[i] = d[lo + i]
        /\ i \in 1..(n - 0) /\ i \in 1..(hi - lo) /\ 0 + i = i
    BY <1>2, <1>3, <1>5, <1>7, <1>9
  <2> QED BY <1>2, <1>5, <1>11, <2>1
<1>14. t = a
  BY <1>7, <1>11, <1>12, <1>13, SameSequence
<1>15. lo + 1 \in Nat /\ SubSeq(d, lo + 1, e) = t
  BY <1>6
<1> QED BY <1>4, <1>8, <1>14, <1>15

(* The first element comes out, and its cell holds none.                   *)
LEMMA PartAdvanced ==
  ASSUME NEW S, NEW c \in Seq(S), NEW lo \in Nat, NEW hi \in Nat, lo < hi, hi <= Len(c), NEW x \in S
  PROVE  /\ [c EXCEPT ![lo + 1] = x] \in Seq(S) /\ Len([c EXCEPT ![lo + 1] = x]) = Len(c)
         /\ SubSeq([c EXCEPT ![lo + 1] = x], (lo + 1) + 1, hi) = Tail(SubSeq(c, lo + 1, hi))
         /\ c[lo + 1] = Head(SubSeq(c, lo + 1, hi))
         /\ SubSeq(c, lo + 1, hi) \in Seq(S) /\ SubSeq(c, lo + 1, hi) # <<>>
<1>1. PICK d : d = [c EXCEPT ![lo + 1] = x]
  OBVIOUS
<1>2. /\ d \in Seq(S) /\ Len(d) = Len(c) /\ lo + 1 \in 1..Len(c)
      /\ \A i \in 1..Len(c) : d[i] = IF i = lo + 1 THEN x ELSE c[i]
  BY <1>1
<1>3. PICK e \in Nat : e = lo + 1 /\ e <= hi /\ hi <= Len(d)
  BY <1>2
<1>4. PICK s : s = SubSeq(c, lo + 1, hi)
  OBVIOUS
<1>5. s \in Seq(S) /\ Len(s) = hi - lo /\ s = [i \in 1..(hi - lo) |-> c[lo + i]]
  <2>1. lo <= hi
    OBVIOUS
  <2> QED BY <1>4, <2>1, PartIs
<1>6. PICK t : t = SubSeq(d, e + 1, hi)
  OBVIOUS
<1>7. t \in Seq(S) /\ Len(t) = hi - e /\ t = [i \in 1..(hi - e) |-> d[e + i]]
  BY <1>2, <1>3, <1>6, PartIs
<1>8. s # <<>> /\ Len(s) # 0
  BY <1>5
<1>9. PICK a : a = Tail(s)
  OBVIOUS
<1>10. /\ a \in Seq(S) /\ Len(a) = Len(s) - 1 /\ Head(s) = s[1]
       /\ \A i \in 1..Len(a) : a[i] = s[i + 1]
  <2>1. /\ Head(s) \in S /\ Tail(s) \in Seq(S) /\ Len(Tail(s)) = Len(s) - 1
        /\ \A i \in 1..Len(Tail(s)) : Tail(s)[i] = s[i + 1]
    BY <1>5, <1>8, HeadTailProperties
  <2>2. Head(s) = s[1]
    BY <1>5, <1>8
  <2> QED BY <1>9, <2>1, <2>2
<1>11. Len(a) = Len(t)
  BY <1>3, <1>5, <1>7, <1>10
<1>12. ASSUME NEW i \in 1..Len(t) PROVE t[i] = a[i]
  <2>1. /\ i \in 1..(hi - e) /\ e + i \in 1..Len(c) /\ e + i # lo + 1
        /\ i + 1 \in 1..(hi - lo) /\ lo + (i + 1) = e + i /\ i \in 1..Len(a)
    BY <1>2, <1>3, <1>5, <1>7, <1>11
  <2>2. t[i] = d[e + i] /\ a[i] = s[i + 1] /\ s[i + 1] = c[lo + (i + 1)]
    BY <1>5, <1>7, <1>10, <2>1
  <2> QED BY <1>2, <2>1, <2>2
<1>13. t = a
  BY <1>7, <1>10, <1>11, <1>12, SameSequence
<1>14. c[lo + 1] = Head(s)
  <2>1. 1 \in 1..(hi - lo)
    OBVIOUS
  <2> QED BY <1>5, <1>10, <2>1
<1> QED BY <1>1, <1>2, <1>3, <1>4, <1>5, <1>6, <1>8, <1>9, <1>13, <1>14

(* The cells a container starts with.                                      *)
LEMMA FilledIs ==
  ASSUME NEW n \in Nat, NEW ts \in Seq(Cell), Len(ts) <= n
  PROVE  /\ Filled(ts, n) \in Seq(Cell) /\ Len(Filled(ts, n)) = n
         /\ SubSeq(Filled(ts, n), 0 + 1, Len(ts)) = ts
<1>1. PICK f : f = Filled(ts, n)
  OBVIOUS
<1>2. f = [i \in 1..n |-> IF i <= Len(ts) THEN ts[i] ELSE Uninit]
  BY <1>1 DEF Filled
<1>3. f \in [1..n -> Cell]
  <2>1. Uninit \in Cell
    BY DEF Cell
  <2>2. \A i \in 1..n : i <= Len(ts) => ts[i] \in Cell
    OBVIOUS
  <2> QED BY <1>2, <2>1, <2>2
<1>4. f \in Seq(Cell) /\ Len(f) = n
  BY <1>3
<1>5. PICK t : t = SubSeq(f, 0 + 1, Len(ts))
  OBVIOUS
<1>6. PICK k \in Nat : k = Len(ts) /\ 0 <= k /\ k <= Len(f) /\ k - 0 = k
  BY <1>4
<1>7. t \in Seq(Cell) /\ Len(t) = k - 0 /\ t = [i \in 1..(k - 0) |-> f[0 + i]]
  <2>1. 0 \in Nat
    OBVIOUS
  <2> QED BY <1>4, <1>5, <1>6, <2>1, PartIs
<1>8. ASSUME NEW i \in 1..Len(t) PROVE t[i] = ts[i]
  <2>1. i \in 1..(k - 0) /\ 0 + i = i /\ i \in 1..n /\ i <= Len(ts)
    BY <1>6, <1>7
  <2> QED BY <1>2, <1>7, <2>1
<1>9. t = ts
  BY <1>6, <1>7, <1>8, SameSequence
<1> QED BY <1>1, <1>4, <1>5, <1>9

(* A new buffer holds no value.                                            *)
LEMMA BlankIs ==
  ASSUME NEW n \in Nat
  PROVE  Blank(n) \in Seq(Cell) /\ Len(Blank(n)) = n
BY DEF Blank, Cell

-----------------------------------------------------------------------------
(* Containers and their blocks *)

(* What ContainersAssumption says of the marks.                            *)
LEMMA Marks ==
  /\ Absent \notin Container /\ Null \notin Blocks /\ Uninit \notin Tokens
  /\ Free \notin Seq(Cell) /\ Absent \notin Seq(Cell) /\ N \in Nat
BY ContainersAssumption DEF Container, Cell

(* The cells of a container fill its buffer.                               *)
LEMMA CellsAre ==
  ASSUME Buffers, NEW s \in Present
  PROVE  /\ s \in Slots /\ slot[s] \in Container /\ Shape(slot[s])
         /\ Cells(slot[s]) \in Seq(Cell) /\ Len(Cells(slot[s])) = slot[s].cap
         /\ slot[s].kind \in Inline => Cells(slot[s]) = slot[s].data
         /\ slot[s].kind \notin Inline =>
              /\ s \in Heaped
              /\ IF slot[s].cap = 0 THEN slot[s].ptr = Null /\ Cells(slot[s]) = <<>>
                 ELSE slot[s].ptr \in Blocks /\ Cells(slot[s]) = heap[slot[s].ptr]
<1>1. s \in Slots /\ slot[s] \in Container /\ Shape(slot[s])
  BY DEF Buffers, Types, Present
<1>2. CASE slot[s].kind \in Inline
  BY <1>1, <1>2 DEF Cells, Shape, Container
<1>3. CASE slot[s].kind \notin Inline
  <2>1. s \in Heaped
    BY <1>3 DEF Heaped
  <2>2. IF slot[s].cap = 0 THEN slot[s].ptr = Null
        ELSE slot[s].ptr \in Blocks /\ heap[slot[s].ptr] # Free /\ Len(heap[slot[s].ptr]) = slot[s].cap
    BY <2>1 DEF Buffers, Backed
  <2>3. CASE slot[s].cap = 0
    <3>1. Cells(slot[s]) = <<>>
      BY <1>3, <2>2, <2>3 DEF Cells
    <3> QED BY <1>1, <1>3, <2>1, <2>2, <2>3, <3>1
  <2>4. CASE slot[s].cap # 0
    <3>1. slot[s].ptr \in Blocks /\ heap[slot[s].ptr] \in Seq(Cell) /\ slot[s].ptr # Null
      BY <2>2, <2>4, Marks DEF Buffers, Types
    <3>2. Cells(slot[s]) = heap[slot[s].ptr]
      BY <1>3, <3>1 DEF Cells
    <3> QED BY <1>1, <1>3, <2>1, <2>2, <2>4, <3>1, <3>2
  <2> QED BY <2>3, <2>4
<1> QED BY <1>2, <1>3

(* Contents, place by place.                                               *)
LEMMA ContentsAre ==
  /\ \A s \in Present : Contents[s] = Elements(slot[s])
  /\ \A s \in Slots \ Present : Contents[s] = Absent
  /\ Contents = [s \in Slots |-> Contents[s]]
  /\ Present \subseteq Slots
BY DEF Contents, Present

(* The elements of a container are a part of its cells, between its indices. *)
LEMMA ElementsAre ==
  ASSUME Buffers, NEW s \in Present
  PROVE  /\ Contents[s] = SubSeq(Cells(slot[s]), slot[s].lo + 1, slot[s].hi)
         /\ Contents[s] \in Seq(Cell) /\ Len(Contents[s]) = slot[s].hi - slot[s].lo
         /\ Contents[s] # Absent
<1>1. /\ slot[s] \in Container /\ Shape(slot[s])
      /\ Cells(slot[s]) \in Seq(Cell) /\ Len(Cells(slot[s])) = slot[s].cap
  BY CellsAre
<1>2. PICK lo \in Nat, hi \in Nat : lo = slot[s].lo /\ hi = slot[s].hi /\ lo <= hi /\ hi <= slot[s].cap
  BY <1>1 DEF Container, Shape
<1> DEFINE c == Cells(slot[s])
<1> HIDE DEF c
<1>3. c \in Seq(Cell) /\ lo <= hi /\ hi <= Len(c)
  BY <1>1, <1>2 DEF c
<1>4. SubSeq(c, lo + 1, hi) \in Seq(Cell) /\ Len(SubSeq(c, lo + 1, hi)) = hi - lo
  BY <1>3, PartIs
<1>5. Contents[s] = SubSeq(c, lo + 1, hi)
  BY <1>2, ContentsAre DEF Elements, c
<1> QED BY <1>2, <1>4, <1>5, Marks DEF c

(* Container s becomes c, or comes into being as c, with these cells.      *)
Holds(s, c, cells) ==
  /\ s \in Slots /\ c \in Container /\ Shape(c) /\ cells \in Seq(Cell) /\ Len(cells) = c.cap
  /\ slot' = [slot EXCEPT ![s] = c]
  /\ heap' = [b \in Blocks |-> IF c.kind \notin Inline /\ b = c.ptr THEN cells ELSE heap[b]]
  /\ c.kind \in Inline => c.data = cells
  /\ IF s \in Heaped
       THEN c.kind \notin Inline /\ c.ptr = slot[s].ptr /\ c.cap = slot[s].cap
       ELSE c.kind \notin Inline => IF c.cap = 0 THEN c.ptr = Null ELSE c.ptr \in Unused

(* Container s is no more, nor is its block.                               *)
Goes(s) ==
  /\ s \in Present
  /\ slot' = [slot EXCEPT ![s] = Absent]
  /\ heap' = [b \in Blocks |-> IF s \in Heaped /\ b = slot[s].ptr THEN Free ELSE heap[b]]

(* A container that changes on its own block, or comes on an unused one,   *)
(* leaves the others alone.                                                *)
LEMMA HoldsKeepsBuffers ==
  ASSUME Buffers, NEW s, NEW c, NEW cells, Holds(s, c, cells)
  PROVE  Buffers' /\ Contents' = [Contents EXCEPT ![s] = SubSeq(cells, c.lo + 1, c.hi)]
<1>1. /\ s \in Slots /\ c \in Container /\ Shape(c) /\ cells \in Seq(Cell) /\ Len(cells) = c.cap
      /\ slot' = [slot EXCEPT ![s] = c] /\ c # Absent
      /\ heap' = [b \in Blocks |-> IF c.kind \notin Inline /\ b = c.ptr THEN cells ELSE heap[b]]
      /\ c.kind \in Inline => c.data = cells
  BY Marks DEF Holds
<1>2. /\ slot \in [Slots -> Container \cup {Absent}] /\ heap \in [Blocks -> Seq(Cell) \cup {Free}]
      /\ \A p \in Present : Shape(slot[p])
  BY DEF Buffers, Types
<1>3. slot'[s] = c /\ \A p \in Slots : p # s => slot'[p] = slot[p]
  BY <1>1, <1>2
<1>4. Present' = Present \cup {s}
  BY <1>1, <1>3 DEF Present
<1>5. /\ c.kind \in Inline => Heaped' = Heaped \ {s}
      /\ c.kind \notin Inline => Heaped' = Heaped \cup {s}
  BY <1>3, <1>4 DEF Heaped, Present
<1>6. Types'
  <2>1. slot' \in [Slots -> Container \cup {Absent}] /\ heap' \in [Blocks -> Seq(Cell) \cup {Free}]
    BY <1>1, <1>2
  <2>2. \A p \in Present' : Shape(slot'[p])
    BY <1>1, <1>2, <1>3, <1>4 DEF Present
  <2> QED BY <2>1, <2>2 DEF Types
<1>7. \A b \in Blocks : heap'[b] = IF c.kind \notin Inline /\ b = c.ptr THEN cells ELSE heap[b]
  BY <1>1
<1>8. ASSUME NEW p \in Heaped, p # s
      PROVE  slot[p].ptr # Null => slot[p].ptr \in Blocks /\ heap'[slot[p].ptr] = heap[slot[p].ptr]
  <2>1. p \in Present /\ p \in Slots /\ slot[p] \in Container
    BY <1>2 DEF Heaped, Present
  <2>2. CASE slot[p].ptr = Null
    BY <2>2
  <2>3. CASE slot[p].ptr # Null
    <3>1. slot[p].ptr \in Blocks /\ heap[slot[p].ptr] # Free
      <4>1. slot[p].ptr \in Blocks
        BY <2>1, <2>3 DEF Container
      <4> QED BY <2>3, <4>1 DEF Buffers, Backed
    <3>2. CASE c.kind \notin Inline /\ slot[p].ptr = c.ptr
      <4>1. CASE s \in Heaped
        BY <1>8, <2>3, <3>2, <4>1 DEF Holds, Buffers, Backed
      <4>2. CASE s \notin Heaped
        BY <2>3, <3>1, <3>2, <4>2 DEF Holds, Unused
      <4> QED BY <4>1, <4>2
    <3>3. CASE ~(c.kind \notin Inline /\ slot[p].ptr = c.ptr)
      BY <1>7, <3>1, <3>3
    <3> QED BY <3>2, <3>3
  <2> QED BY <2>2, <2>3
<1>9. c.kind \notin Inline => IF c.cap = 0 THEN c.ptr = Null
                              ELSE c.ptr \in Blocks /\ heap'[c.ptr] # Free /\ Len(heap'[c.ptr]) = c.cap
  <2> SUFFICES ASSUME c.kind \notin Inline
               PROVE  IF c.cap = 0 THEN c.ptr = Null
                      ELSE c.ptr \in Blocks /\ heap'[c.ptr] # Free /\ Len(heap'[c.ptr]) = c.cap
    OBVIOUS
  <2>1. CASE c.cap = 0
    BY <2>1 DEF Holds, Buffers, Backed
  <2>2. CASE c.cap # 0
    <3>1. c.ptr \in Blocks
      BY <2>2 DEF Holds, Buffers, Backed, Unused
    <3> QED BY <1>1, <1>7, <2>2, <3>1, Marks
  <2> QED BY <2>1, <2>2
<1>10. ASSUME NEW p \in Heaped'
       PROVE  IF slot'[p].cap = 0 THEN slot'[p].ptr = Null
              ELSE slot'[p].ptr \in Blocks /\ heap'[slot'[p].ptr] # Free
                   /\ Len(heap'[slot'[p].ptr]) = slot'[p].cap
  <2>1. CASE p = s
    BY <1>3, <1>5, <1>9, <2>1
  <2>2. CASE p # s
    <3>1. p \in Heaped /\ p \in Slots
      BY <1>5, <2>2 DEF Heaped, Present
    <3>2. IF slot[p].cap = 0 THEN slot[p].ptr = Null
          ELSE slot[p].ptr \in Blocks /\ heap[slot[p].ptr] # Free /\ Len(heap[slot[p].ptr]) = slot[p].cap
      BY <3>1 DEF Buffers, Backed
    <3> QED BY <1>3, <1>8, <2>2, <3>1, <3>2, Marks
  <2> QED BY <2>1, <2>2
<1>11. ASSUME NEW p \in Heaped', NEW q \in Heaped', p # q, slot'[p].ptr # Null
       PROVE  slot'[p].ptr # slot'[q].ptr
  <2>1. \A r \in Heaped' : r # s => r \in Heaped /\ r \in Slots /\ slot'[r] = slot[r]
    BY <1>3, <1>5 DEF Heaped, Present
  <2>2. ASSUME NEW r \in Heaped, r # s, c.kind \notin Inline, c.ptr # Null PROVE slot[r].ptr # c.ptr
    <3>1. CASE s \in Heaped
      BY <2>2, <3>1 DEF Holds, Buffers, Backed
    <3>2. CASE s \notin Heaped
      <4>1. c.ptr \in Blocks /\ heap[c.ptr] = Free
        BY <2>2, <3>2 DEF Holds, Unused
      <4>2. slot[r].ptr = c.ptr => heap[slot[r].ptr] # Free
        BY <4>1, Marks DEF Buffers, Backed
      <4> QED BY <4>1, <4>2
    <3> QED BY <3>1, <3>2
  <2>3. CASE p = s
    BY <1>3, <1>5, <1>11, <2>1, <2>2, <2>3
  <2>4. CASE q = s
    BY <1>3, <1>5, <1>11, <2>1, <2>2, <2>4
  <2>5. CASE p # s /\ q # s
    BY <1>11, <2>1, <2>5 DEF Buffers, Backed
  <2> QED BY <2>3, <2>4, <2>5
<1>12. ASSUME NEW b \in Blocks, heap'[b] # Free PROVE \E p \in Heaped' : slot'[p].ptr = b
  <2>1. CASE c.kind \notin Inline /\ b = c.ptr
    BY <1>3, <1>5, <2>1
  <2>2. CASE ~(c.kind \notin Inline /\ b = c.ptr)
    <3>1. PICK p \in Heaped : slot[p].ptr = b
      BY <1>7, <1>12, <2>2 DEF Buffers, Backed
    <3>2. p # s
      BY <2>2, <3>1 DEF Holds
    <3> QED BY <1>3, <1>5, <3>1, <3>2 DEF Heaped, Present
  <2> QED BY <2>1, <2>2
<1>13. Backed'
  BY <1>10, <1>11, <1>12 DEF Backed
<1>14. ASSUME NEW p \in Present, p # s PROVE (Contents[p])' = Contents[p]
  <2>1. p \in Slots /\ slot'[p] = slot[p] /\ slot[p] \in Container /\ slot[p] # Absent
    BY <1>2, <1>3, <1>14 DEF Present
  <2>2. (Cells(slot[p]))' = Cells(slot[p])
    <3>1. CASE slot[p].kind \in Inline
      BY <2>1, <3>1 DEF Cells
    <3>2. CASE slot[p].kind \notin Inline
      <4>1. p \in Heaped
        BY <3>2 DEF Heaped
      <4>2. slot[p].ptr # Null => heap'[slot[p].ptr] = heap[slot[p].ptr]
        BY <1>8, <1>14, <4>1
      <4> QED BY <2>1, <3>2, <4>2 DEF Cells
    <3> QED BY <3>1, <3>2
  <2> QED BY <2>1, <2>2 DEF Elements, Contents
<1>15. (Contents[s])' = SubSeq(cells, c.lo + 1, c.hi)
  <2>1. (Cells(slot[s]))' = cells
    <3>1. CASE c.kind \in Inline
      BY <1>1, <1>3, <3>1 DEF Cells
    <3>2. CASE c.kind \notin Inline
      <4>1. CASE c.cap = 0
        <5>1. c.ptr = Null /\ cells = <<>>
          BY <1>1, <1>9, <3>2, <4>1
        <5> QED BY <1>3, <3>2, <5>1 DEF Cells
      <4>2. CASE c.cap # 0
        <5>1. c.ptr \in Blocks /\ c.ptr # Null /\ heap'[c.ptr] = cells
          BY <1>7, <1>9, <3>2, <4>2, Marks
        <5> QED BY <1>3, <3>2, <5>1 DEF Cells
      <4> QED BY <4>1, <4>2
    <3> QED BY <3>1, <3>2
  <2> QED BY <1>1, <1>3, <2>1 DEF Elements, Contents
<1>16. \A p \in Slots \ Present : p # s => (Contents[p])' = Contents[p]
  BY <1>3 DEF Contents, Present
<1>17. \A p \in Slots : (Contents[p])' = IF p = s THEN SubSeq(cells, c.lo + 1, c.hi) ELSE Contents[p]
  BY <1>14, <1>15, <1>16
<1>18. Contents' = [p \in Slots |-> (Contents[p])'] /\ Contents = [p \in Slots |-> Contents[p]]
  BY DEF Contents
<1>19. Contents' = [Contents EXCEPT ![s] = SubSeq(cells, c.lo + 1, c.hi)]
  BY <1>17, <1>18
<1> QED BY <1>6, <1>13, <1>19 DEF Buffers

(* A container that goes takes its block, and no other.                    *)
LEMMA GoesKeepsBuffers ==
  ASSUME Buffers, NEW s, Goes(s)
  PROVE  Buffers' /\ Contents' = [Contents EXCEPT ![s] = Absent]
<1>1. /\ s \in Present /\ s \in Slots /\ slot' = [slot EXCEPT ![s] = Absent]
      /\ heap' = [b \in Blocks |-> IF s \in Heaped /\ b = slot[s].ptr THEN Free ELSE heap[b]]
  BY DEF Goes, Present
<1>2. /\ slot \in [Slots -> Container \cup {Absent}] /\ heap \in [Blocks -> Seq(Cell) \cup {Free}]
      /\ \A p \in Present : Shape(slot[p])
  BY DEF Buffers, Types
<1>3. slot'[s] = Absent /\ \A p \in Slots : p # s => slot'[p] = slot[p]
  BY <1>1, <1>2
<1>4. Present' = Present \ {s} /\ Heaped' = Heaped \ {s}
  BY <1>3 DEF Present, Heaped
<1>5. Types'
  <2>1. slot' \in [Slots -> Container \cup {Absent}] /\ heap' \in [Blocks -> Seq(Cell) \cup {Free}]
    BY <1>1, <1>2
  <2>2. \A p \in Present' : Shape(slot'[p])
    BY <1>2, <1>3, <1>4 DEF Present
  <2> QED BY <2>1, <2>2 DEF Types
<1>6. ASSUME NEW p \in Heaped, p # s
      PROVE  slot[p].ptr # Null => slot[p].ptr \in Blocks /\ heap'[slot[p].ptr] = heap[slot[p].ptr]
  <2> SUFFICES ASSUME slot[p].ptr # Null
               PROVE  slot[p].ptr \in Blocks /\ heap'[slot[p].ptr] = heap[slot[p].ptr]
    OBVIOUS
  <2>1. slot[p].ptr \in Blocks
    BY <1>2 DEF Heaped, Present, Container
  <2>2. s \in Heaped => slot[s].ptr # slot[p].ptr
    BY <1>6 DEF Buffers, Backed
  <2> QED BY <1>1, <2>1, <2>2
<1>7. ASSUME NEW p \in Heaped'
      PROVE  IF slot'[p].cap = 0 THEN slot'[p].ptr = Null
             ELSE slot'[p].ptr \in Blocks /\ heap'[slot'[p].ptr] # Free
                  /\ Len(heap'[slot'[p].ptr]) = slot'[p].cap
  <2>1. p \in Heaped /\ p # s /\ slot'[p] = slot[p]
    BY <1>3, <1>4 DEF Heaped, Present
  <2>2. IF slot[p].cap = 0 THEN slot[p].ptr = Null
        ELSE slot[p].ptr \in Blocks /\ heap[slot[p].ptr] # Free /\ Len(heap[slot[p].ptr]) = slot[p].cap
    BY <2>1 DEF Buffers, Backed
  <2> QED BY <1>6, <2>1, <2>2, Marks
<1>8. \A p, q \in Heaped' : p # q /\ slot'[p].ptr # Null => slot'[p].ptr # slot'[q].ptr
  BY <1>3, <1>4 DEF Buffers, Backed, Heaped, Present
<1>9. ASSUME NEW b \in Blocks, heap'[b] # Free PROVE \E p \in Heaped' : slot'[p].ptr = b
  <2>1. heap[b] # Free /\ ~(s \in Heaped /\ b = slot[s].ptr)
    BY <1>1, <1>9
  <2>2. PICK p \in Heaped : slot[p].ptr = b
    BY <2>1 DEF Buffers, Backed
  <2>3. p # s
    BY <2>1, <2>2
  <2> QED BY <1>3, <1>4, <2>2, <2>3 DEF Heaped, Present
<1>10. Backed'
  BY <1>7, <1>8, <1>9 DEF Backed
<1>11. ASSUME NEW p \in Present, p # s PROVE (Contents[p])' = Contents[p]
  <2>1. p \in Slots /\ slot'[p] = slot[p] /\ slot[p] \in Container /\ slot[p] # Absent
    BY <1>2, <1>3, <1>11 DEF Present
  <2>2. (Cells(slot[p]))' = Cells(slot[p])
    <3>1. CASE slot[p].kind \in Inline
      BY <2>1, <3>1 DEF Cells
    <3>2. CASE slot[p].kind \notin Inline
      <4>1. p \in Heaped
        BY <3>2 DEF Heaped
      <4>2. slot[p].ptr # Null => heap'[slot[p].ptr] = heap[slot[p].ptr]
        BY <1>6, <1>11, <4>1
      <4> QED BY <2>1, <3>2, <4>2 DEF Cells
    <3> QED BY <3>1, <3>2
  <2> QED BY <2>1, <2>2 DEF Elements, Contents
<1>12. \A p \in Slots : (Contents[p])' = IF p = s THEN Absent ELSE Contents[p]
  BY <1>3, <1>11 DEF Contents, Present
<1>13. Contents' = [p \in Slots |-> (Contents[p])'] /\ Contents = [p \in Slots |-> Contents[p]]
  BY DEF Contents
<1> QED BY <1>5, <1>10, <1>12, <1>13 DEF Buffers

(* Nothing of a container changes that its user could tell.                *)
LEMMA SameBuffers ==
  ASSUME Buffers, UNCHANGED <<slot, heap>>
  PROVE  Buffers' /\ Contents' = Contents
<1>1. Present' = Present /\ Heaped' = Heaped
  BY DEF Present, Heaped
<1>2. Types'
  BY <1>1 DEF Buffers, Types
<1>3. Backed'
  BY <1>1 DEF Buffers, Backed
<1>4. Contents' = Contents
  BY DEF Contents, Elements, Cells
<1> QED BY <1>2, <1>3, <1>4 DEF Buffers

(* SetCell, with the record whose indices have moved.                      *)
LEMMA SetCellHolds ==
  ASSUME Buffers, NEW s \in Present, NEW c \in Container, Shape(c),
         c.kind = slot[s].kind, c.ptr = slot[s].ptr, c.cap = slot[s].cap, c.data = slot[s].data,
         NEW i \in 1..c.cap, NEW x \in Cell, SetCell(s, c, i, x)
  PROVE  /\ Buffers'
         /\ Contents' = [Contents EXCEPT ![s] = SubSeq([Cells(slot[s]) EXCEPT ![i] = x], c.lo + 1, c.hi)]
<1>1. /\ s \in Slots /\ slot[s] \in Container /\ Cells(slot[s]) \in Seq(Cell)
      /\ Len(Cells(slot[s])) = c.cap
  BY CellsAre
<1>2. PICK cells : cells = [Cells(slot[s]) EXCEPT ![i] = x]
  OBVIOUS
<1>3. cells \in Seq(Cell) /\ Len(cells) = c.cap
  BY <1>1, <1>2
<1>4. heap \in [Blocks -> Seq(Cell) \cup {Free}] /\ c.cap \in Nat
  BY DEF Buffers, Types, Container
<1>5. CASE c.kind \in Inline
  <2>1. PICK e : e = [c EXCEPT !.data[i] = x]
    OBVIOUS
  <2>2. /\ e.kind = c.kind /\ e.ptr = c.ptr /\ e.cap = c.cap /\ e.lo = c.lo /\ e.hi = c.hi
        /\ e.data = [c.data EXCEPT ![i] = x] /\ e = [c EXCEPT !.data = e.data]
    BY <2>1 DEF Container
  <2>3. Cells(slot[s]) = c.data
    BY <1>5, CellsAre
  <2>4. e.data = cells
    BY <1>2, <2>2, <2>3
  <2>5. e \in Container
    BY <1>3, <2>2, <2>4 DEF Container
  <2>6. Shape(e)
    BY <1>3, <1>4, <1>5, <2>2, <2>4 DEF Shape
  <2>7. slot' = [slot EXCEPT ![s] = e] /\ heap' = heap
    BY <1>5, <2>1 DEF SetCell
  <2>8. s \notin Heaped
    BY <1>5 DEF Heaped
  <2>9. heap' = [b \in Blocks |-> IF e.kind \notin Inline /\ b = e.ptr THEN cells ELSE heap[b]]
    BY <1>4, <1>5, <2>2, <2>7
  <2>10. Holds(s, e, cells)
    BY <1>1, <1>3, <1>5, <2>2, <2>4, <2>5, <2>6, <2>7, <2>8, <2>9 DEF Holds
  <2>11. Buffers' /\ Contents' = [Contents EXCEPT ![s] = SubSeq(cells, e.lo + 1, e.hi)]
    BY <2>10, HoldsKeepsBuffers
  <2> QED BY <1>2, <2>2, <2>11
<1>6. CASE c.kind \notin Inline
  <2>1. /\ s \in Heaped /\ c.ptr \in Blocks /\ Cells(slot[s]) = heap[c.ptr]
    BY <1>6, CellsAre
  <2>2. slot' = [slot EXCEPT ![s] = c] /\ heap' = [heap EXCEPT ![c.ptr] = cells]
    BY <1>2, <1>6, <2>1 DEF SetCell
  <2>3. heap' = [b \in Blocks |-> IF c.kind \notin Inline /\ b = c.ptr THEN cells ELSE heap[b]]
    BY <1>4, <1>6, <2>1, <2>2
  <2>4. Holds(s, c, cells)
    BY <1>1, <1>3, <1>6, <2>1, <2>2, <2>3 DEF Holds
  <2> QED BY <1>2, <2>4, HoldsKeepsBuffers
<1> QED BY <1>5, <1>6

(* Only the kind of a container changes, and it is still of its shape.     *)
LEMMA KindChanges ==
  ASSUME Buffers, NEW s \in Present, NEW k \in Kinds, k \in Inline <=> slot[s].kind \in Inline,
         Shape([slot[s] EXCEPT !.kind = k]),
         slot' = [slot EXCEPT ![s].kind = k], UNCHANGED heap
  PROVE  Buffers' /\ Contents' = Contents
<1>1. /\ s \in Slots /\ slot[s] \in Container /\ Cells(slot[s]) \in Seq(Cell)
      /\ Len(Cells(slot[s])) = slot[s].cap
  BY CellsAre
<1>2. PICK c : c = [slot[s] EXCEPT !.kind = k]
  OBVIOUS
<1>3. /\ c.kind = k /\ c.ptr = slot[s].ptr /\ c.cap = slot[s].cap /\ c.lo = slot[s].lo
      /\ c.hi = slot[s].hi /\ c.data = slot[s].data /\ c \in Container
  BY <1>1, <1>2 DEF Container
<1>4. slot' = [slot EXCEPT ![s] = c] /\ Shape(c)
  BY <1>2
<1>5. heap \in [Blocks -> Seq(Cell) \cup {Free}]
  BY DEF Buffers, Types
<1>6. s \in Heaped <=> c.kind \notin Inline
  BY <1>3 DEF Heaped
<1>7. c.kind \notin Inline /\ c.ptr \in Blocks => Cells(slot[s]) = heap[c.ptr]
  BY <1>3, CellsAre, Marks
<1>8. heap' = [b \in Blocks |-> IF c.kind \notin Inline /\ b = c.ptr THEN Cells(slot[s]) ELSE heap[b]]
  BY <1>5, <1>7
<1>9. c.kind \in Inline => c.data = Cells(slot[s])
  BY <1>3, CellsAre
<1>10. Holds(s, c, Cells(slot[s]))
  BY <1>1, <1>3, <1>4, <1>6, <1>8, <1>9 DEF Holds
<1>11. /\ Buffers'
       /\ Contents' = [Contents EXCEPT ![s] = SubSeq(Cells(slot[s]), c.lo + 1, c.hi)]
  BY <1>10, HoldsKeepsBuffers
<1>12. SubSeq(Cells(slot[s]), c.lo + 1, c.hi) = Contents[s]
  BY <1>3, ElementsAre
<1> QED BY <1>1, <1>11, <1>12, ContentsAre

-----------------------------------------------------------------------------
(* What a call does, as its callers see it *)

(* The content of place s becomes new, and no other changes.               *)
Becomes(s, new) == Contents' = [Contents EXCEPT ![s] = new]

(* Nothing a caller sees.                                                  *)
Keeps == Contents' = Contents /\ UNCHANGED <<outside, alive>>

(* A caller has a new value.                                               *)
Makes(t) ==
  /\ t \in Tokens \ alive /\ Contents' = Contents
  /\ outside' = outside \cup {t} /\ alive' = alive \cup {t}

(* Values of callers are destroyed.                                        *)
Destroys(ts) ==
  /\ ts \subseteq outside /\ Contents' = Contents
  /\ outside' = outside \ ts /\ alive' = alive \ ts

(* A container comes into being with the values ts of a caller.            *)
Fills(s, ts) ==
  /\ s \notin Present /\ Becomes(s, ts) /\ ts \in Seq(outside) /\ IsInjective(ts)
  /\ outside' = outside \ ToSet(ts) /\ UNCHANGED alive

(* A container takes one more value of a caller.                           *)
Appends(s, t) ==
  /\ s \in Present /\ Becomes(s, Append(Contents[s], t)) /\ t \in outside
  /\ outside' = outside \ {t} /\ UNCHANGED alive

(* A caller takes the first element.                                       *)
TakesFirst(s) ==
  /\ s \in Present /\ Contents[s] # <<>> /\ Becomes(s, Tail(Contents[s]))
  /\ outside' = outside \cup {Head(Contents[s])} /\ UNCHANGED alive

(* A caller takes the last element.                                        *)
TakesLast(s) ==
  /\ s \in Present /\ Contents[s] # <<>> /\ Becomes(s, Front(Contents[s]))
  /\ outside' = outside \cup {Last(Contents[s])} /\ UNCHANGED alive

(* A caller takes all a container holds, and the container is no more.     *)
Unwraps(s) ==
  /\ s \in Present /\ Becomes(s, Absent)
  /\ outside' = outside \cup ToSet(Contents[s]) /\ UNCHANGED alive

(* All but the first n elements are destroyed.                             *)
Truncates(s, n) ==
  /\ s \in Present /\ n \in 0..Len(Contents[s]) /\ Becomes(s, SubSeq(Contents[s], 1, n))
  /\ alive' = alive \ ToSet(SubSeq(Contents[s], n + 1, Len(Contents[s]))) /\ UNCHANGED outside

(* A new container with new values, equal to those of s.                   *)
Copies(s, d) ==
  /\ s \in Present /\ d \in Slots \ Present
  /\ \E ts \in Clones(Contents[s]) : Becomes(d, ts) /\ alive' = alive \cup ToSet(ts)
  /\ UNCHANGED outside

(* A container is destroyed with its elements.                             *)
Releases(s) ==
  /\ s \in Present /\ Becomes(s, Absent)
  /\ alive' = alive \ ToSet(Contents[s]) /\ UNCHANGED outside

Effect ==
  \/ Keeps
  \/ \E t \in Tokens : Makes(t)
  \/ \E ts \in SUBSET outside : Destroys(ts)
  \/ \E s \in Slots : \E ts \in Seq(outside) : Fills(s, ts)
  \/ \E s \in Slots, t \in Tokens : Appends(s, t)
  \/ \E s \in Slots : TakesFirst(s) \/ TakesLast(s) \/ Unwraps(s) \/ Releases(s)
  \/ \E s \in Slots, n \in Nat : Truncates(s, n)
  \/ \E s, d \in Slots : Copies(s, d)

(* A step that does one of these and keeps the buffers in order.           *)
Sound == Buffers' /\ Effect /\ panicked' \in BOOLEAN

(* What a call finds.                                                      *)
Ready == Buffers /\ outside \subseteq Tokens /\ panicked \in BOOLEAN

(* A call that changes neither containers nor values.                      *)
LEMMA Kept ==
  ASSUME Ready, UNCHANGED <<slot, heap, outside, alive>>, panicked' \in BOOLEAN
  PROVE  Sound
BY SameBuffers DEF Ready, Sound, Effect, Keeps

(* A call that destroys what it was given, and does nothing else.          *)
LEMMA Destroyed ==
  ASSUME Ready, NEW ts \in SUBSET outside, UNCHANGED <<slot, heap>>, panicked' \in BOOLEAN,
         outside' = outside \ ts, alive' = alive \ ts
  PROVE  Sound
BY SameBuffers DEF Ready, Sound, Effect, Destroys

(* A caller makes a value.                                                 *)
LEMMA MakeIs == ASSUME Ready, NEW t \in Tokens, make(t) PROVE Sound
<1>1. Buffers' /\ Contents' = Contents
  BY SameBuffers DEF make, Ready
<1> QED BY <1>1 DEF make, Ready, Sound, Effect, Makes

(* A caller destroys a value of its own.                                   *)
LEMMA DiscardIs == ASSUME Ready, NEW t \in Tokens, discard(t) PROVE Sound
<1>1. {t} \in SUBSET outside /\ ToSet(<<t>>) = {t}
  BY DEF discard, ToSet
<1>2. /\ UNCHANGED <<slot, heap>> /\ panicked' \in BOOLEAN
      /\ outside' = outside \ {t} /\ alive' = alive \ {t}
  BY <1>1 DEF discard, destroyed, Ready
<1> QED BY <1>1, <1>2, Destroyed

(* An empty container, with the buffer it asked for.                       *)
LEMMA NewInIs ==
  ASSUME Ready, NEW s \in Slots, NEW cap \in Nat, new_in(s, cap)
  PROVE  Sound
<1>1. s \notin Present /\ UNCHANGED <<outside, alive, panicked>> /\ s \notin Heaped
  BY DEF new_in, Heaped
<1>2. heap \in [Blocks -> Seq(Cell) \cup {Free}]
  BY DEF Ready, Buffers, Types
<1>3. PICK c, cells : Holds(s, c, cells) /\ c.lo = 0 /\ c.hi = 0
  <2>1. CASE cap = 0 /\ slot' = [slot EXCEPT ![s] = InnerVec(Null, 0, 0)] /\ UNCHANGED heap
    <3>1. PICK c : c = InnerVec(Null, 0, 0)
      OBVIOUS
    <3>2. c \in Container /\ Shape(c) /\ c.lo = 0 /\ c.hi = 0 /\ c.cap = 0 /\ c.ptr = Null /\ c.kind = "vec"
      BY <3>1 DEF InnerVec, Container, Shape, Kinds, Inline, Iterators
    <3>3. heap' = [b \in Blocks |-> IF c.kind \notin Inline /\ b = c.ptr THEN <<>> ELSE heap[b]]
      BY <1>2, <2>1, <3>2, Marks
    <3>4. <<>> \in Seq(Cell) /\ Len(<<>>) = 0
      OBVIOUS
    <3>5. Holds(s, c, <<>>)
      BY <1>1, <2>1, <3>1, <3>2, <3>3, <3>4 DEF Holds, Inline
    <3> QED BY <3>2, <3>5
  <2>2. ASSUME cap > 0, NEW b \in Unused, slot' = [slot EXCEPT ![s] = InnerVec(b, cap, 0)],
               heap' = [heap EXCEPT ![b] = Blank(cap)]
        PROVE  \E c, cells : Holds(s, c, cells) /\ c.lo = 0 /\ c.hi = 0
    <3>1. PICK c : c = InnerVec(b, cap, 0)
      OBVIOUS
    <3>2. b \in Blocks
      BY DEF Unused
    <3>3. c \in Container /\ Shape(c) /\ c.lo = 0 /\ c.hi = 0 /\ c.cap = cap /\ c.ptr = b /\ c.kind = "vec"
      BY <3>1, <3>2 DEF InnerVec, Container, Shape, Kinds, Inline, Iterators
    <3>4. heap' = [k \in Blocks |-> IF c.kind \notin Inline /\ k = c.ptr THEN Blank(cap) ELSE heap[k]]
      BY <1>2, <2>2, <3>2, <3>3 DEF Inline
    <3>5. Blank(cap) \in Seq(Cell) /\ Len(Blank(cap)) = cap
      BY BlankIs
    <3>6. c.kind \notin Inline /\ c.cap # 0 /\ c.ptr \in Unused /\ slot' = [slot EXCEPT ![s] = c]
      BY <2>2, <3>1, <3>3 DEF Inline
    <3>7. Holds(s, c, Blank(cap))
      BY <1>1, <3>3, <3>4, <3>5, <3>6 DEF Holds
    <3> QED BY <3>3, <3>7
  <2> QED BY <2>1, <2>2 DEF new_in
<1>4. Buffers' /\ Contents' = [Contents EXCEPT ![s] = SubSeq(cells, c.lo + 1, c.hi)]
  BY <1>3, HoldsKeepsBuffers DEF Ready
<1>5. SubSeq(cells, 0 + 1, 0) = <<>>
  <2>1. cells \in Seq(Cell)
    BY <1>3 DEF Holds
  <2> QED BY <2>1
<1>6. PICK ts : ts = <<>>
  OBVIOUS
<1>7. ts \in Seq(outside) /\ IsInjective(ts) /\ ToSet(ts) = {}
  BY <1>6 DEF IsInjective, ToSet
<1>8. Fills(s, ts)
  BY <1>1, <1>3, <1>4, <1>5, <1>6, <1>7 DEF Fills, Becomes
<1> QED BY <1>1, <1>4, <1>7, <1>8 DEF Sound, Effect, Ready

(* A container that takes over given values, on a new block.               *)
LEMMA BlockFilled ==
  ASSUME Ready, NEW s \in Slots, s \notin Present, NEW ts \in Seq(outside), IsInjective(ts),
         NEW b \in Unused, NEW c \in Container, Shape(c), c.kind \notin Inline, c.ptr = b,
         c.lo = 0, c.hi = Len(ts), c.cap = Len(ts), c.cap # 0,
         slot' = [slot EXCEPT ![s] = c], heap' = [heap EXCEPT ![b] = ts],
         outside' = outside \ ToSet(ts), UNCHANGED <<alive, panicked>>
  PROVE  Sound
<1>1. heap \in [Blocks -> Seq(Cell) \cup {Free}] /\ b \in Blocks /\ s \notin Heaped
  BY DEF Ready, Buffers, Types, Unused, Heaped
<1>2. ts \in Seq(Cell)
  <2>1. outside \subseteq Cell
    BY DEF Ready, Cell
  <2> QED BY <2>1, SeqMonotonic
<1>3. heap' = [k \in Blocks |-> IF c.kind \notin Inline /\ k = c.ptr THEN ts ELSE heap[k]]
  BY <1>1
<1>4. Holds(s, c, ts)
  BY <1>1, <1>2, <1>3 DEF Holds
<1>5. Buffers' /\ Contents' = [Contents EXCEPT ![s] = SubSeq(ts, c.lo + 1, c.hi)]
  BY <1>4, HoldsKeepsBuffers DEF Ready
<1>6. SubSeq(ts, 0 + 1, Len(ts)) = ts
  BY <1>2
<1>7. Fills(s, ts)
  BY <1>5, <1>6 DEF Fills, Becomes
<1> QED BY <1>5, <1>7 DEF Sound, Effect, Ready

(* Vec::from_exact_iter: the values move into the new buffer, or all die.  *)
LEMMA FromExactIterIs ==
  ASSUME Ready, NEW s \in Slots, NEW ts \in Given, from_exact_iter(s, ts)
  PROVE  Sound
<1>1. ts \in Seq(outside) /\ IsInjective(ts) /\ Len(ts) # 0 /\ ToSet(ts) \subseteq outside
  <2>1. PICK n \in 1..MaxCapacity : ts \in [1..n -> outside]
    BY DEF Given
  <2>2. n \in Nat \ {0}
    BY <2>1, ContainersAssumption
  <2>3. ts \in Seq(outside) /\ Len(ts) = n /\ DOMAIN ts = 1..n
    BY <2>1, <2>2
  <2> QED BY <2>1, <2>2, <2>3 DEF Given, ToSet
<1>2. ASSUME NEW b \in Unused, slot' = [slot EXCEPT ![s] = InnerVec(b, Len(ts), Len(ts))],
             heap' = [heap EXCEPT ![b] = ts], UNCHANGED alive
      PROVE  Sound
  <2>1. PICK c : c = InnerVec(b, Len(ts), Len(ts))
    OBVIOUS
  <2>2. b \in Blocks /\ Len(ts) \in Nat
    BY <1>1 DEF Unused
  <2>3. /\ c \in Container /\ Shape(c) /\ c.kind \notin Inline /\ c.ptr = b /\ c.lo = 0 /\ c.hi = Len(ts)
        /\ c.cap = Len(ts)
    BY <2>1, <2>2 DEF InnerVec, Container, Shape, Kinds, Inline, Iterators
  <2>4. s \notin Present /\ outside' = outside \ ToSet(ts) /\ UNCHANGED panicked
    BY DEF from_exact_iter
  <2> QED BY <1>1, <1>2, <2>1, <2>3, <2>4, BlockFilled
<1>3. CASE destroyed(ts) /\ UNCHANGED <<slot, heap>>
  BY <1>1, <1>3, Destroyed DEF from_exact_iter, destroyed, Ready
<1> QED BY <1>2, <1>3 DEF from_exact_iter

(* Box::new: the value moves into the new block, or dies.                  *)
LEMMA NewBoxIs ==
  ASSUME Ready, NEW s \in Slots, NEW t \in Tokens, new_box(s, t)
  PROVE  Sound
<1>1. PICK ts : ts = <<t>>
  OBVIOUS
<1>2. /\ t \in outside /\ s \notin Present /\ ts \in Seq(outside) /\ IsInjective(ts) /\ Len(ts) = 1
      /\ ToSet(ts) = {t}
  BY <1>1 DEF new_box, IsInjective, ToSet
<1>3. ASSUME NEW b \in Unused, slot' = [slot EXCEPT ![s] = Boxed(b)], heap' = [heap EXCEPT ![b] = ts],
             UNCHANGED alive
      PROVE  Sound
  <2>1. PICK c : c = Boxed(b)
    OBVIOUS
  <2>2. b \in Blocks
    BY DEF Unused
  <2>3. /\ c \in Container /\ Shape(c) /\ c.kind \notin Inline /\ c.ptr = b /\ c.lo = 0 /\ c.hi = 1
        /\ c.cap = 1
    <3>1. PICK v : v = InnerVec(b, 1, 1)
      OBVIOUS
    <3>2. /\ v \in Container /\ v.ptr = b /\ v.lo = 0 /\ v.hi = 1 /\ v.cap = 1
      BY <2>2, <3>1 DEF InnerVec, Container, Kinds
    <3>3. "box" \in Kinds /\ "box" \notin Inline /\ c = [v EXCEPT !.kind = "box"]
      BY <2>1, <3>1 DEF Boxed, Kinds, Inline
    <3>4. /\ c.kind = "box" /\ c.ptr = b /\ c.lo = 0 /\ c.hi = 1 /\ c.cap = 1 /\ c \in Container
      BY <3>2, <3>3 DEF Container
    <3>5. Shape(c)
      BY <3>4 DEF Shape, Inline
    <3> QED BY <3>3, <3>4, <3>5
  <2>4. outside' = outside \ ToSet(ts) /\ UNCHANGED panicked /\ slot' = [slot EXCEPT ![s] = c]
    BY <1>2, <1>3, <2>1 DEF new_box
  <2>5. c.hi = Len(ts) /\ c.cap = Len(ts) /\ c.cap # 0
    BY <1>2, <2>3
  <2> QED BY <1>2, <1>3, <2>3, <2>4, <2>5, BlockFilled
<1>4. CASE destroyed(ts) /\ UNCHANGED <<slot, heap>>
  BY <1>2, <1>4, Destroyed DEF new_box, destroyed, Ready
<1> QED BY <1>1, <1>3, <1>4 DEF new_box

(* The indices of a container are numbers within its cells.                *)
LEMMA IndicesAre ==
  ASSUME Buffers, NEW s \in Present
  PROVE  /\ slot[s].lo \in Nat /\ slot[s].hi \in Nat /\ slot[s].cap \in Nat
         /\ slot[s].lo <= slot[s].hi /\ slot[s].hi <= slot[s].cap
         /\ Cells(slot[s]) \in Seq(Cell) /\ Len(Cells(slot[s])) = slot[s].cap
         /\ Contents[s] = SubSeq(Cells(slot[s]), slot[s].lo + 1, slot[s].hi)
BY CellsAre, ElementsAre DEF Container, Shape

(* An end of a container moves.                                            *)
LEMMA Reindexed ==
  ASSUME NEW r \in Container, Shape(r), r.kind \in {"vec", "static"} \cup Iterators,
         NEW lo \in Nat, NEW hi \in Nat, lo <= hi, hi <= r.cap, r.kind \notin Iterators => lo = 0,
         NEW c, \/ c = [r EXCEPT !.hi = hi] /\ lo = r.lo
                \/ c = [r EXCEPT !.lo = lo] /\ hi = r.hi
  PROVE  /\ c \in Container /\ c.kind = r.kind /\ c.ptr = r.ptr /\ c.cap = r.cap
         /\ c.data = r.data /\ c.lo = lo /\ c.hi = hi /\ Shape(c)
<1>1. /\ c \in Container /\ c.kind = r.kind /\ c.ptr = r.ptr /\ c.cap = r.cap
      /\ c.data = r.data /\ c.lo = lo /\ c.hi = hi
  <2>1. CASE c = [r EXCEPT !.hi = hi] /\ lo = r.lo
    BY <2>1 DEF Container
  <2>2. CASE c = [r EXCEPT !.lo = lo] /\ hi = r.hi
    BY <2>2 DEF Container
  <2> QED BY <2>1, <2>2
<1>2. r.kind \notin {"slice", "box", "raw"}
  BY DEF Iterators
<1>3. Shape(c)
  BY <1>1, <1>2 DEF Shape
<1> QED BY <1>1, <1>3

(* ptr::write of a value after the last: the container grows by it, or the *)
(* value dies because the container is full.                               *)
LEMMA WriteIs ==
  ASSUME Ready, NEW s \in Present, slot[s].kind \in {"vec", "static"}, NEW t \in Tokens, t \in outside,
         write(s, t)
  PROVE  Sound
<1>1. slot[s] \in Container /\ Shape(slot[s]) /\ s \in Slots /\ t \in Cell
  BY CellsAre DEF Ready, Cell
<1>2. PICK lo \in Nat, hi \in Nat, cells \in Seq(Cell) :
        /\ lo = slot[s].lo /\ hi = slot[s].hi /\ cells = Cells(slot[s]) /\ lo <= hi
        /\ slot[s].cap = Len(cells) /\ slot[s].cap \in Nat
  BY IndicesAre DEF Ready
<1>3. Contents[s] = SubSeq(cells, lo + 1, hi)
  BY <1>2, IndicesAre DEF Ready
<1>4. ASSUME hi < Len(cells), NEW c, c = [slot[s] EXCEPT !.hi = hi + 1]
      PROVE  /\ c \in Container /\ c.kind = slot[s].kind /\ c.ptr = slot[s].ptr /\ c.cap = slot[s].cap
             /\ c.data = slot[s].data /\ c.lo = lo /\ c.hi = hi + 1 /\ Shape(c)
  <2>1. slot[s].kind \notin Iterators => lo = 0
    BY <1>1, <1>2 DEF Shape
  <2>2. PICK h \in Nat : h = hi + 1 /\ lo <= h /\ h <= slot[s].cap
    <3>1. hi + 1 \in Nat /\ lo <= hi + 1 /\ hi + 1 <= slot[s].cap
      BY <1>2, <1>4
    <3> QED BY <3>1, Zenon
  <2>3. c = [slot[s] EXCEPT !.hi = h] /\ lo = slot[s].lo /\ slot[s].kind \in {"vec", "static"} \cup Iterators
    BY <1>2, <1>4, <2>2
  <2> QED BY <1>1, <2>1, <2>2, <2>3, Reindexed
<1>5. CASE hi < Len(cells)
  <2>1. PICK c : c = [slot[s] EXCEPT !.hi = hi + 1]
    OBVIOUS
  <2>2. /\ c \in Container /\ c.kind = slot[s].kind /\ c.ptr = slot[s].ptr /\ c.cap = slot[s].cap
        /\ c.data = slot[s].data /\ c.lo = lo /\ c.hi = hi + 1
    BY <1>5, <1>4, <2>1
  <2>3. Shape(c)
    BY <1>5, <1>4, <2>1
  <2>4. SetCell(s, c, hi + 1, t) /\ UNCHANGED alive /\ outside' = outside \ {t} /\ UNCHANGED panicked
    BY <1>2, <1>5, <2>1 DEF write
  <2>5. hi + 1 \in 1..c.cap
    BY <1>2, <1>5, <2>2
  <2>6. /\ Buffers'
        /\ Contents' = [Contents EXCEPT ![s] = SubSeq([Cells(slot[s]) EXCEPT ![hi + 1] = t], c.lo + 1, c.hi)]
    <3>1. Buffers
      BY DEF Ready
    <3>2. PICK i \in 1..c.cap : i = hi + 1
      BY <2>5
    <3>3. SetCell(s, c, i, t)
      BY <2>4, <3>2
    <3>4. /\ Buffers'
          /\ Contents' = [Contents EXCEPT ![s] = SubSeq([Cells(slot[s]) EXCEPT ![i] = t], c.lo + 1, c.hi)]
      <4>1. c \in Container /\ Shape(c) /\ c.kind = slot[s].kind /\ c.ptr = slot[s].ptr
            /\ c.cap = slot[s].cap /\ c.data = slot[s].data /\ t \in Cell
        BY <1>1, <2>2, <2>3
      <4> QED BY <3>1, <3>3, <4>1, SetCellHolds
    <3> QED BY <3>2, <3>4
  <2>7. SubSeq([cells EXCEPT ![hi + 1] = t], lo + 1, hi + 1) = Append(Contents[s], t)
    <3>1. t \in Cell /\ lo <= hi /\ hi < Len(cells)
      BY <1>1, <1>2, <1>5
    <3>2. SubSeq([cells EXCEPT ![hi + 1] = t], lo + 1, hi + 1) = Append(SubSeq(cells, lo + 1, hi), t)
      BY <3>1, PartAppended
    <3> QED BY <1>3, <3>2
  <2>8. Appends(s, t)
    BY <1>2, <2>2, <2>4, <2>6, <2>7 DEF Appends, Becomes
  <2> QED BY <1>1, <2>4, <2>6, <2>8 DEF Sound, Effect, Ready
<1>6. CASE ~(hi < Len(cells))
  <2>1. UNCHANGED <<slot, heap>> /\ destroyed(<<t>>) /\ outside' = outside \ {t} /\ UNCHANGED panicked
    BY <1>2, <1>6 DEF write
  <2>2. ToSet(<<t>>) = {t} /\ {t} \in SUBSET outside
    BY DEF ToSet
  <2> QED BY <2>1, <2>2, Destroyed DEF destroyed, Ready
<1> QED BY <1>5, <1>6

(* ptr::read of the last value: it goes to the caller, and its cell is     *)
(* left outside the indices.                                               *)
LEMMA ReadLastIs ==
  ASSUME Ready, NEW s \in Present, slot[s].kind \in {"vec", "static", "into_iter"},
         slot[s].lo < slot[s].hi, read_last(s)
  PROVE  Sound
<1>1. slot[s] \in Container /\ Shape(slot[s]) /\ s \in Slots /\ Uninit \in Cell
  BY CellsAre DEF Ready, Cell
<1>2. PICK lo \in Nat, hi \in Nat, cells \in Seq(Cell) :
        /\ lo = slot[s].lo /\ hi = slot[s].hi /\ cells = Cells(slot[s]) /\ lo < hi /\ hi <= Len(cells)
        /\ slot[s].cap = Len(cells) /\ slot[s].cap \in Nat
  BY IndicesAre DEF Ready
<1>3. Contents[s] = SubSeq(cells, lo + 1, hi)
  BY <1>2, IndicesAre DEF Ready
<1>4. PICK c : c = [slot[s] EXCEPT !.hi = hi - 1]
  OBVIOUS
<1>5. /\ c \in Container /\ c.kind = slot[s].kind /\ c.ptr = slot[s].ptr /\ c.cap = slot[s].cap
      /\ c.data = slot[s].data /\ c.lo = lo /\ c.hi = hi - 1 /\ Shape(c)
  <2>1. slot[s].kind \notin Iterators => lo = 0
    BY <1>1, <1>2 DEF Shape
  <2>2. PICK h \in Nat : h = hi - 1 /\ lo <= h /\ h <= slot[s].cap
    BY <1>2
  <2>3. c = [slot[s] EXCEPT !.hi = h] /\ lo = slot[s].lo /\ slot[s].kind \in {"vec", "static"} \cup Iterators
    BY <1>2, <1>4, <2>2 DEF Iterators
  <2> QED BY <1>1, <2>1, <2>2, <2>3, Reindexed
<1>6. /\ c \in Container /\ c.kind = slot[s].kind /\ c.ptr = slot[s].ptr /\ c.cap = slot[s].cap
      /\ c.data = slot[s].data /\ c.lo = lo /\ c.hi = hi - 1
  BY <1>5
<1>7. Shape(c)
  BY <1>5
<1>8. /\ SetCell(s, c, hi, Uninit) /\ UNCHANGED <<alive, panicked>>
      /\ outside' = outside \cup {cells[hi]}
  BY <1>2, <1>4 DEF read_last
<1>9. hi \in 1..c.cap
  BY <1>2, <1>6
<1>10. /\ Buffers'
       /\ Contents' = [Contents EXCEPT ![s] = SubSeq([Cells(slot[s]) EXCEPT ![hi] = Uninit], c.lo + 1, c.hi)]
  <2>1. Buffers
    BY DEF Ready
  <2>2. PICK i \in 1..c.cap : i = hi
    BY <1>9
  <2>3. PICK x \in Cell : x = Uninit
    BY <1>1
  <2>4. SetCell(s, c, i, x)
    BY <1>8, <2>2, <2>3
  <2>5. c \in Container /\ c.kind = slot[s].kind /\ c.ptr = slot[s].ptr /\ c.cap = slot[s].cap
        /\ c.data = slot[s].data
    BY <1>6
  <2>6. /\ Buffers'
        /\ Contents' = [Contents EXCEPT ![s] = SubSeq([Cells(slot[s]) EXCEPT ![i] = x], c.lo + 1, c.hi)]
    BY <1>7, <2>1, <2>4, <2>5, SetCellHolds
  <2> QED BY <2>2, <2>3, <2>6
<1>11. /\ SubSeq([cells EXCEPT ![hi] = Uninit], lo + 1, hi - 1) = Front(Contents[s])
       /\ cells[hi] = Last(Contents[s]) /\ Contents[s] # <<>>
  <2>1. Uninit \in Cell /\ lo < hi /\ hi <= Len(cells)
    BY <1>1, <1>2
  <2>2. /\ SubSeq([cells EXCEPT ![hi] = Uninit], lo + 1, hi - 1) = Front(SubSeq(cells, lo + 1, hi))
        /\ cells[hi] = Last(SubSeq(cells, lo + 1, hi)) /\ SubSeq(cells, lo + 1, hi) # <<>>
    <3>1. PICK x \in Cell : x = Uninit
      BY <2>1
    <3>2. lo < hi /\ hi <= Len(cells)
      BY <2>1
    <3>3. PICK d : d = [cells EXCEPT ![hi] = x]
      OBVIOUS
    <3>4. PICK e \in Nat : e + 1 = hi /\ e = hi - 1
      BY <3>2
    <3>5. e + 1 = hi
      BY <3>4
    <3>6. SubSeq(d, lo + 1, e) = Front(SubSeq(cells, lo + 1, hi))
      BY <3>2, <3>3, <3>5, PartShortened
    <3>7. cells[hi] = Last(SubSeq(cells, lo + 1, hi)) /\ SubSeq(cells, lo + 1, hi) # <<>>
      BY <3>2, PartLast
    <3> QED BY <3>1, <3>3, <3>4, <3>6, <3>7
  <2> QED BY <1>3, <2>2
<1>12. TakesLast(s)
  BY <1>2, <1>6, <1>8, <1>10, <1>11 DEF TakesLast, Becomes
<1> QED BY <1>1, <1>8, <1>10, <1>12 DEF Sound, Effect, Ready

(* ptr::read of the first value of an iterator.                            *)
LEMMA ReadFirstIs ==
  ASSUME Ready, NEW s \in Present, slot[s].kind \in Iterators,
         slot[s].lo < slot[s].hi, read_first(s)
  PROVE  Sound
<1>1. slot[s] \in Container /\ Shape(slot[s]) /\ s \in Slots /\ Uninit \in Cell
  BY CellsAre DEF Ready, Cell
<1>2. PICK lo \in Nat, hi \in Nat, cells \in Seq(Cell) :
        /\ lo = slot[s].lo /\ hi = slot[s].hi /\ cells = Cells(slot[s]) /\ lo < hi /\ hi <= Len(cells)
        /\ slot[s].cap = Len(cells) /\ slot[s].cap \in Nat
  BY IndicesAre DEF Ready
<1>3. Contents[s] = SubSeq(cells, lo + 1, hi)
  BY <1>2, IndicesAre DEF Ready
<1>4. PICK c : c = [slot[s] EXCEPT !.lo = lo + 1]
  OBVIOUS
<1>5. /\ c \in Container /\ c.kind = slot[s].kind /\ c.ptr = slot[s].ptr /\ c.cap = slot[s].cap
      /\ c.data = slot[s].data /\ c.lo = lo + 1 /\ c.hi = hi /\ Shape(c)
  <2>1. PICK l \in Nat : l = lo + 1 /\ l <= hi /\ hi <= slot[s].cap
    <3>1. lo + 1 \in Nat /\ lo + 1 <= hi /\ hi <= slot[s].cap
      BY <1>2
    <3> QED BY <3>1, Zenon
  <2>2. c = [slot[s] EXCEPT !.lo = l] /\ hi = slot[s].hi /\ slot[s].kind \in {"vec", "static"} \cup Iterators
    BY <1>2, <1>4, <2>1
  <2> QED BY <1>1, <2>1, <2>2, Reindexed
<1>6. /\ c \in Container /\ c.kind = slot[s].kind /\ c.ptr = slot[s].ptr /\ c.cap = slot[s].cap
      /\ c.data = slot[s].data /\ c.lo = lo + 1 /\ c.hi = hi
  BY <1>5
<1>7. Shape(c)
  BY <1>5
<1>8. /\ SetCell(s, c, lo + 1, Uninit) /\ UNCHANGED <<alive, panicked>>
      /\ outside' = outside \cup {cells[lo + 1]}
  BY <1>2, <1>4 DEF read_first
<1>9. lo + 1 \in 1..c.cap
  BY <1>2, <1>6
<1>10. /\ Buffers'
       /\ Contents' = [Contents EXCEPT ![s] = SubSeq([Cells(slot[s]) EXCEPT ![lo + 1] = Uninit], c.lo + 1, c.hi)]
  <2>1. Buffers
    BY DEF Ready
  <2>2. PICK i \in 1..c.cap : i = lo + 1
    BY <1>9, Zenon
  <2>3. PICK x \in Cell : x = Uninit
    BY <1>1
  <2>4. SetCell(s, c, i, x)
    BY <1>8, <2>2, <2>3
  <2>5. c \in Container /\ c.kind = slot[s].kind /\ c.ptr = slot[s].ptr /\ c.cap = slot[s].cap
        /\ c.data = slot[s].data
    BY <1>6
  <2>6. /\ Buffers'
        /\ Contents' = [Contents EXCEPT ![s] = SubSeq([Cells(slot[s]) EXCEPT ![i] = x], c.lo + 1, c.hi)]
    BY <1>7, <2>1, <2>4, <2>5, SetCellHolds
  <2> QED BY <2>2, <2>3, <2>6
<1>11. /\ SubSeq([cells EXCEPT ![lo + 1] = Uninit], (lo + 1) + 1, hi) = Tail(Contents[s])
       /\ cells[lo + 1] = Head(Contents[s]) /\ Contents[s] # <<>>
  <2>1. Uninit \in Cell /\ lo < hi /\ hi <= Len(cells)
    BY <1>1, <1>2
  <2>2. /\ SubSeq([cells EXCEPT ![lo + 1] = Uninit], (lo + 1) + 1, hi) = Tail(SubSeq(cells, lo + 1, hi))
        /\ cells[lo + 1] = Head(SubSeq(cells, lo + 1, hi)) /\ SubSeq(cells, lo + 1, hi) # <<>>
    <3>1. PICK x \in Cell : x = Uninit
      BY <2>1
    <3>2. SubSeq([cells EXCEPT ![lo + 1] = x], (lo + 1) + 1, hi) = Tail(SubSeq(cells, lo + 1, hi))
      BY <2>1, PartAdvanced
    <3>3. /\ cells[lo + 1] = Head(SubSeq(cells, lo + 1, hi)) /\ SubSeq(cells, lo + 1, hi) # <<>>
      BY <2>1, <3>1, PartAdvanced
    <3> QED BY <3>1, <3>2, <3>3
  <2> QED BY <1>3, <2>2
<1>12. TakesFirst(s)
  BY <1>2, <1>6, <1>8, <1>10, <1>11 DEF TakesFirst, Becomes
<1> QED BY <1>1, <1>8, <1>10, <1>12 DEF Sound, Effect, Ready

(* Vec::try_push.                                                          *)
LEMMA TryPushIs == ASSUME Ready, NEW s \in Slots, NEW t \in Tokens, try_push(s, t) PROVE Sound
BY WriteIs DEF try_push, Is

(* Vec::push: it panics when the vector is full.                           *)
LEMMA PushIs == ASSUME Ready, NEW s \in Slots, NEW t \in Tokens, push(s, t) PROVE Sound
<1>1. CASE write(s, t)
  BY <1>1, WriteIs DEF push, Is
<1>2. CASE panicked' = TRUE /\ UNCHANGED <<slot, heap, outside, alive>>
  BY <1>2, Kept
<1> QED BY <1>1, <1>2 DEF push

(* StaticVec::push.                                                        *)
LEMMA PushStaticIs == ASSUME Ready, NEW s \in Slots, NEW t \in Tokens, push_static(s, t) PROVE Sound
BY WriteIs DEF push_static, Is

(* What is not an iterator has its elements from its first cell on.        *)
LEMMA FromTheFirst ==
  ASSUME Ready, NEW s \in Present, slot[s].kind \notin Iterators
  PROVE  slot[s].lo = 0
BY CellsAre DEF Ready, Shape

(* A container that is not empty.                                          *)
LEMMA SomeIs ==
  ASSUME Ready, NEW s \in Present, slot[s].lo # slot[s].hi
  PROVE  slot[s].lo < slot[s].hi
BY IndicesAre DEF Ready

(* Vec::pop.                                                               *)
LEMMA PopIs == ASSUME Ready, NEW s \in Slots, pop(s) PROVE Sound
<1>1. s \in Present /\ slot[s].kind = "vec" /\ read_last(s) /\ slot[s].lo = 0
  BY FromTheFirst DEF pop, Is, Iterators
<1>2. slot[s].lo < slot[s].hi
  BY <1>1 DEF pop
<1> QED BY <1>1, <1>2, ReadLastIs

(* StaticVec::pop.                                                         *)
LEMMA PopStaticIs == ASSUME Ready, NEW s \in Slots, pop_static(s) PROVE Sound
<1>1. s \in Present /\ slot[s].kind = "static" /\ read_last(s) /\ slot[s].lo = 0
  BY FromTheFirst DEF pop_static, Is, Iterators
<1>2. slot[s].lo < slot[s].hi
  BY <1>1 DEF pop_static
<1> QED BY <1>1, <1>2, ReadLastIs

(* IntoIter::next_back.                                                    *)
LEMMA NextBackIs == ASSUME Ready, NEW s \in Slots, next_back(s) PROVE Sound
BY SomeIs, ReadLastIs DEF next_back, Is, Some

(* IntoIter::next.                                                         *)
LEMMA NextIs == ASSUME Ready, NEW s \in Slots, next(s) PROVE Sound
BY SomeIs, ReadFirstIs DEF next, Is, Some, Iterators

(* The iterator of StaticVec.                                              *)
LEMMA NextStaticIs == ASSUME Ready, NEW s \in Slots, next_static(s) PROVE Sound
BY SomeIs, ReadFirstIs DEF next_static, Is, Some, Iterators

(* The conversions that keep the buffer.                                   *)
LEMMA Converted ==
  ASSUME Ready, NEW s \in Present, NEW k \in Kinds, k \in Inline <=> slot[s].kind \in Inline,
         slot[s].kind \notin Iterators,
         k = "slice" => slot[s].hi = slot[s].cap,
         k \in {"box", "raw"} => slot[s].kind \in {"box", "raw"},
         slot' = [slot EXCEPT ![s].kind = k], UNCHANGED <<heap, outside, alive>>, panicked' \in BOOLEAN
  PROVE  Sound
<1>1. slot[s] \in Container /\ Shape(slot[s])
  BY CellsAre DEF Ready
<1>2. PICK c : c = [slot[s] EXCEPT !.kind = k]
  OBVIOUS
<1>3. /\ c.kind = k /\ c.cap = slot[s].cap /\ c.lo = slot[s].lo /\ c.hi = slot[s].hi
      /\ c.data = slot[s].data
  BY <1>1, <1>2 DEF Container
<1>4. Shape(c)
  BY <1>1, <1>3 DEF Shape
<1>5. Buffers' /\ Contents' = Contents
  BY <1>2, <1>4, KindChanges DEF Ready
<1> QED BY <1>5 DEF Sound, Effect, Keeps

(* Vec::into_boxed_slice: a full vector becomes a slice on its block, any  *)
(* other stops the process.                                                *)
LEMMA IntoBoxedSliceIs == ASSUME Ready, NEW s \in Slots, into_boxed_slice(s) PROVE Sound
<1>1. s \in Present /\ slot[s].kind = "vec" /\ UNCHANGED <<heap, outside, alive>>
  BY DEF into_boxed_slice, Is
<1>2. CASE slot[s].cap = slot[s].hi /\ slot' = [slot EXCEPT ![s].kind = "slice"] /\ UNCHANGED panicked
  BY <1>1, <1>2, Converted DEF Ready, Kinds, Inline, Iterators
<1>3. CASE panicked' = TRUE /\ UNCHANGED slot
  BY <1>1, <1>3, Kept
<1> QED BY <1>2, <1>3 DEF into_boxed_slice

(* Vec::into_iter keeps the buffer.                                        *)
LEMMA IntoIterIs == ASSUME Ready, NEW s \in Slots, into_iter(s) PROVE Sound
BY Converted DEF Ready, into_iter, Is, Kinds, Inline, Iterators

(* StaticVec::into_iter keeps the array.                                   *)
LEMMA IntoIterStaticIs == ASSUME Ready, NEW s \in Slots, into_iter_static(s) PROVE Sound
BY Converted DEF Ready, into_iter_static, Is, Kinds, Inline, Iterators

(* Box::leak keeps the value.                                              *)
LEMMA LeakIs == ASSUME Ready, NEW s \in Slots, leak(s) PROVE Sound
BY Converted DEF Ready, leak, Is, Kinds, Inline, Iterators

(* Box::from_raw takes it back.                                            *)
LEMMA FromRawIs == ASSUME Ready, NEW s \in Slots, from_raw(s) PROVE Sound
BY Converted DEF Ready, from_raw, Is, Kinds, Inline, Iterators

(* What each kind frees its block by is its capacity.                      *)
LEMMA LayoutIs ==
  ASSUME Buffers, NEW s \in Present
  PROVE  Layout(slot[s]) = IF slot[s].kind \in Inline THEN 0 ELSE slot[s].cap
<1>1. slot[s] \in Container /\ Shape(slot[s])
  BY CellsAre
<1>2. CASE slot[s].kind \in {"vec", "into_iter"}
  BY <1>2 DEF Layout, Inline
<1>3. CASE slot[s].kind = "slice"
  BY <1>1, <1>3 DEF Layout, Inline, Shape
<1>4. CASE slot[s].kind \in {"box", "raw"}
  BY <1>1, <1>4 DEF Layout, Inline, Shape
<1>5. CASE slot[s].kind \in Inline
  BY <1>5 DEF Layout, Inline
<1>6. slot[s].kind \in Kinds
  BY <1>1 DEF Container
<1> QED BY <1>2, <1>3, <1>4, <1>5, <1>6 DEF Kinds

(* dealloc frees the block of the container, whatever its kind: the layout *)
(* of a container with a block is never of size 0.                         *)
LEMMA DeallocGoes ==
  ASSUME Buffers, NEW s \in Present, slot' = [slot EXCEPT ![s] = Absent], dealloc(slot[s])
  PROVE  Goes(s)
<1>1. heap \in [Blocks -> Seq(Cell) \cup {Free}]
  BY DEF Buffers, Types
<1>2. CASE slot[s].kind \in Inline
  <2>1. heap' = heap /\ s \notin Heaped
    BY <1>2 DEF dealloc, Heaped
  <2> QED BY <1>1, <2>1 DEF Goes
<1>3. CASE slot[s].kind \notin Inline
  <2>1. s \in Heaped /\ Layout(slot[s]) = slot[s].cap
    BY <1>3, LayoutIs, CellsAre
  <2>2. CASE slot[s].cap = 0
    <3>1. heap' = heap /\ slot[s].ptr \notin Blocks
      BY <1>3, <2>1, <2>2, CellsAre, Marks DEF dealloc
    <3> QED BY <1>1, <3>1 DEF Goes
  <2>3. CASE slot[s].cap # 0
    <3>1. heap' = [heap EXCEPT ![slot[s].ptr] = Free] /\ slot[s].ptr \in Blocks
      BY <1>3, <2>1, <2>3, CellsAre DEF dealloc
    <3>2. heap' = [b \in Blocks |-> IF s \in Heaped /\ b = slot[s].ptr THEN Free ELSE heap[b]]
      BY <1>1, <2>1, <3>1
    <3> QED BY <3>2 DEF Goes
  <2> QED BY <2>2, <2>3
<1> QED BY <1>2, <1>3

(* A container that is dropped destroys what it holds.                     *)
LEMMA ReleasedIs ==
  ASSUME Ready, NEW s \in Present, released(s)
  PROVE  Sound
<1>1. /\ destroyed(Elements(slot[s])) /\ dealloc(slot[s])
      /\ slot' = [slot EXCEPT ![s] = Absent] /\ UNCHANGED <<outside, panicked>>
  BY DEF released
<1>2. Buffers' /\ Contents' = [Contents EXCEPT ![s] = Absent]
  BY <1>1, DeallocGoes, GoesKeepsBuffers DEF Ready
<1>3. alive' = alive \ ToSet(Contents[s]) /\ s \in Slots
  BY <1>1, ContentsAre DEF destroyed
<1>4. Releases(s)
  BY <1>1, <1>2, <1>3 DEF Releases, Becomes
<1> QED BY <1>1, <1>2, <1>3, <1>4 DEF Sound, Effect, Ready

(* Vec::drop.                                                              *)
LEMMA DropVecIs == ASSUME Ready, NEW s \in Slots, drop_vec(s) PROVE Sound
BY ReleasedIs DEF drop_vec, Is

(* IntoIter::drop destroys what was not taken.                             *)
LEMMA DropIntoIterIs == ASSUME Ready, NEW s \in Slots, drop_into_iter(s) PROVE Sound
BY ReleasedIs DEF drop_into_iter, Is

(* Box::drop, of a value or of a slice.                                    *)
LEMMA DropBoxIs == ASSUME Ready, NEW s \in Slots, drop_box(s) PROVE Sound
BY ReleasedIs DEF drop_box, Is

(* StaticVec::drop.                                                        *)
LEMMA DropStaticIs == ASSUME Ready, NEW s \in Slots, drop_static(s) PROVE Sound
BY ReleasedIs DEF drop_static, Is

(* The drop of StaticVec's iterator.                                       *)
LEMMA DropStaticIntoIterIs == ASSUME Ready, NEW s \in Slots, drop_static_into_iter(s) PROVE Sound
BY ReleasedIs DEF drop_static_into_iter, Is

(* String::try_from consumes the vector either way.                        *)
LEMMA StringTryFromIs == ASSUME Ready, NEW s \in Slots, string_try_from(s) PROVE Sound
BY ReleasedIs, IntoBoxedSliceIs DEF string_try_from, Is

(* Box::into_inner gives the value away and frees the block.               *)
LEMMA IntoInnerIs == ASSUME Ready, NEW s \in Slots, into_inner(s) PROVE Sound
<1>1. s \in Present /\ slot[s].kind = "box"
  BY DEF into_inner, Is
<1>2. /\ dealloc(slot[s]) /\ slot' = [slot EXCEPT ![s] = Absent] /\ UNCHANGED <<alive, panicked>>
      /\ outside' = outside \cup {Cells(slot[s])[1]}
  BY DEF into_inner
<1>3. Buffers' /\ Contents' = [Contents EXCEPT ![s] = Absent]
  BY <1>1, <1>2, DeallocGoes, GoesKeepsBuffers DEF Ready
<1>4. slot[s].lo = 0 /\ slot[s].hi = 1 /\ slot[s].cap = 1
  BY <1>1, CellsAre DEF Ready, Shape, Iterators
<1>5. PICK cells \in Seq(Cell) : cells = Cells(slot[s]) /\ Len(cells) = 1
  BY <1>1, <1>4, CellsAre DEF Ready
<1>6. PICK e : e = Contents[s]
  OBVIOUS
<1>7. e = SubSeq(cells, 0 + 1, 1)
  BY <1>1, <1>4, <1>5, <1>6, IndicesAre DEF Ready
<1>8. e = [i \in 1..(1 - 0) |-> cells[0 + i]]
  <2>1. 0 \in Nat /\ 1 \in Nat /\ 0 <= 1 /\ 1 <= Len(cells)
    BY <1>5
  <2> QED BY <1>7, <2>1, PartIs
<1>9. ToSet(e) = {cells[1]}
  BY <1>8 DEF ToSet
<1>10. Unwraps(s)
  BY <1>1, <1>2, <1>3, <1>5, <1>6, <1>9 DEF Unwraps, Becomes
<1> QED BY <1>2, <1>3, <1>10 DEF Sound, Effect, Ready

(* A StaticVec that holds ts.                                              *)
LEMMA StaticFilled ==
  ASSUME Buffers, NEW s \in Slots \ Heaped, NEW ts \in Seq(Cell), Len(ts) <= N,
         slot' = [slot EXCEPT ![s] = StaticVec(ts)], UNCHANGED heap
  PROVE  Buffers' /\ Contents' = [Contents EXCEPT ![s] = ts]
<1>1. PICK f : f = Filled(ts, N)
  OBVIOUS
<1>2. f \in Seq(Cell) /\ Len(f) = N /\ SubSeq(f, 0 + 1, Len(ts)) = ts /\ N \in Nat
  BY <1>1, Marks, FilledIs
<1>3. PICK c : c = StaticVec(ts)
  OBVIOUS
<1>4. /\ c.kind = "static" /\ c.ptr = Null /\ c.cap = N /\ c.lo = 0 /\ c.hi = Len(ts) /\ c.data = f
      /\ c \in Container
  BY <1>1, <1>2, <1>3 DEF StaticVec, Container, Kinds, Inline
<1>5. Shape(c)
  <2>1. 0 <= Len(ts) /\ Len(ts) <= N
    OBVIOUS
  <2> QED BY <1>2, <1>4, <2>1 DEF Shape, Inline
<1>6. heap' = [b \in Blocks |-> IF c.kind \notin Inline /\ b = c.ptr THEN f ELSE heap[b]]
  BY <1>4 DEF Buffers, Types, Inline
<1>7. c.kind \in Inline /\ slot' = [slot EXCEPT ![s] = c]
  BY <1>3, <1>4 DEF Inline
<1>8. Holds(s, c, f)
  BY <1>2, <1>4, <1>5, <1>6, <1>7 DEF Holds
<1>9. Buffers' /\ Contents' = [Contents EXCEPT ![s] = SubSeq(f, c.lo + 1, c.hi)]
  BY <1>8, HoldsKeepsBuffers
<1> QED BY <1>2, <1>4, <1>9

(* A StaticVec starts empty.                                               *)
LEMMA NewStaticIs == ASSUME Ready, NEW s \in Slots, new_static(s) PROVE Sound
<1>1. s \notin Present /\ s \notin Heaped /\ UNCHANGED <<heap, outside, alive, panicked>>
  BY DEF new_static, Heaped
<1>2. PICK ts : ts = <<>>
  OBVIOUS
<1>3. ts \in Seq(Cell) /\ Len(ts) <= N /\ ts \in Seq(outside) /\ IsInjective(ts) /\ ToSet(ts) = {}
  BY <1>2, Marks DEF IsInjective, ToSet
<1>4. slot' = [slot EXCEPT ![s] = StaticVec(ts)]
  BY <1>2 DEF new_static
<1>5. Buffers' /\ Contents' = [Contents EXCEPT ![s] = ts]
  BY <1>1, <1>3, <1>4, StaticFilled DEF Ready
<1>6. Fills(s, ts)
  BY <1>1, <1>3, <1>5 DEF Fills, Becomes
<1> QED BY <1>1, <1>3, <1>5, <1>6 DEF Sound, Effect, Ready

(* Part of a part that starts at the first.                                *)
LEMMA PartOfFirst ==
  ASSUME NEW S, NEW c \in Seq(S), NEW hi \in Nat, hi <= Len(c),
         NEW lo \in Nat, NEW k \in Nat, lo <= k, k <= hi
  PROVE  SubSeq(SubSeq(c, 0 + 1, hi), lo + 1, k) = SubSeq(c, lo + 1, k)
<1>1. PICK s : s = SubSeq(c, 0 + 1, hi)
  OBVIOUS
<1>2. s \in Seq(S) /\ Len(s) = hi - 0 /\ s = [i \in 1..(hi - 0) |-> c[0 + i]]
  <2>1. 0 \in Nat /\ 0 <= hi
    OBVIOUS
  <2> QED BY <1>1, <2>1, PartIs
<1>3. PICK t : t = SubSeq(s, lo + 1, k)
  OBVIOUS
<1>4. t \in Seq(S) /\ Len(t) = k - lo /\ t = [i \in 1..(k - lo) |-> s[lo + i]]
  <2>1. k <= Len(s)
    BY <1>2
  <2> QED BY <1>2, <1>3, <2>1, PartIs
<1>5. PICK u : u = SubSeq(c, lo + 1, k)
  OBVIOUS
<1>6. u \in Seq(S) /\ Len(u) = k - lo /\ u = [i \in 1..(k - lo) |-> c[lo + i]]
  <2>1. k <= Len(c)
    OBVIOUS
  <2> QED BY <1>5, <2>1, PartIs
<1>7. ASSUME NEW i \in 1..Len(t) PROVE t[i] = u[i]
  <2>1. i \in 1..(k - lo) /\ lo + i \in 1..(hi - 0) /\ 0 + (lo + i) = lo + i
    BY <1>4
  <2> QED BY <1>2, <1>4, <1>6, <2>1
<1>8. t = u
  BY <1>4, <1>6, <1>7, SameSequence
<1> QED BY <1>1, <1>3, <1>5, <1>8

(* StaticVec::truncate destroys what is beyond the new length, and panics  *)
(* when it is too long.                                                    *)
LEMMA TruncateIs == ASSUME Ready, NEW s \in Slots, NEW n \in Nat, truncate(s, n) PROVE Sound
<1>1. s \in Present /\ slot[s].kind = "static" /\ UNCHANGED <<heap, outside>> /\ s \notin Heaped
  BY DEF truncate, Is, Heaped, Inline
<1>2. /\ slot[s].lo = 0 /\ slot[s].hi \in Nat /\ slot[s].hi <= N /\ N \in Nat
      /\ slot[s].data \in Seq(Cell) /\ Len(slot[s].data) = N
  BY <1>1, CellsAre, Marks DEF Ready, Shape, Container, Inline, Iterators
<1>3. Cells(slot[s]) = slot[s].data
  BY <1>1, CellsAre DEF Ready, Inline
<1>4. PICK c \in Seq(Cell), hi \in Nat : c = slot[s].data /\ hi = slot[s].hi /\ hi <= Len(c) /\ Len(c) = N
  BY <1>2
<1>5. Contents[s] = SubSeq(c, 0 + 1, hi) /\ Len(Contents[s]) = hi - 0 /\ Contents[s] \in Seq(Cell)
  BY <1>1, <1>2, <1>3, <1>4, IndicesAre, ElementsAre DEF Ready
<1>6. CASE /\ n <= hi /\ slot' = [slot EXCEPT ![s] = StaticVec(SubSeq(c, 1, n))]
           /\ destroyed(SubSeq(c, n + 1, hi)) /\ UNCHANGED panicked
  <2>1. PICK ts : ts = SubSeq(c, 0 + 1, n)
    OBVIOUS
  <2>2. ts \in Seq(Cell) /\ Len(ts) = n - 0
    <3>1. 0 \in Nat /\ 0 <= n /\ n <= Len(c)
      BY <1>4, <1>6
    <3> QED BY <2>1, <3>1, PartIs
  <2>3. Len(ts) <= N /\ slot' = [slot EXCEPT ![s] = StaticVec(ts)]
    BY <1>4, <1>6, <2>1, <2>2
  <2>4. Buffers' /\ Contents' = [Contents EXCEPT ![s] = ts]
    BY <1>1, <2>2, <2>3, StaticFilled DEF Ready
  <2>5. SubSeq(SubSeq(c, 0 + 1, hi), 0 + 1, n) = SubSeq(c, 0 + 1, n)
    <3>1. 0 \in Nat /\ 0 <= n /\ n <= hi
      BY <1>6
    <3> QED BY <1>4, <3>1, PartOfFirst
  <2>6. SubSeq(SubSeq(c, 0 + 1, hi), n + 1, hi) = SubSeq(c, n + 1, hi)
    <3>1. n <= hi /\ hi <= hi
      BY <1>6
    <3> QED BY <1>4, <3>1, PartOfFirst
  <2>7. ts = SubSeq(Contents[s], 1, n)
    <3>1. Contents[s] = SubSeq(c, 0 + 1, hi)
      BY <1>5
    <3>2. ts = SubSeq(Contents[s], 0 + 1, n)
      BY <2>1, <2>5, <3>1, Zenon
    <3> QED BY <3>2
  <2>8. SubSeq(c, n + 1, hi) = SubSeq(Contents[s], n + 1, Len(Contents[s]))
    BY <1>5, <2>6
  <2>9. n \in 0..Len(Contents[s])
    BY <1>5, <1>6
  <2>10. alive' = alive \ ToSet(SubSeq(Contents[s], n + 1, Len(Contents[s])))
    BY <1>6, <2>8 DEF destroyed
  <2>11. Truncates(s, n)
    BY <1>1, <2>4, <2>7, <2>9, <2>10 DEF Truncates, Becomes
  <2> QED BY <1>6, <2>4, <2>11 DEF Sound, Effect, Ready
<1>7. CASE panicked' = TRUE /\ UNCHANGED <<slot, alive>>
  BY <1>1, <1>7, Kept
<1> QED BY <1>4, <1>6, <1>7 DEF truncate

(* The values of a clone.                                                  *)
LEMMA ClonesAre ==
  ASSUME NEW es \in Seq(Cell), NEW ts \in Clones(es)
  PROVE  ts \in Seq(Tokens) /\ ts \in Seq(Cell) /\ Len(ts) = Len(es)
<1>1. ts \in [1..Len(es) -> Tokens \ alive] /\ Len(es) \in Nat
  BY DEF Clones
<1>2. ts \in Seq(Tokens \ alive) /\ Len(ts) = Len(es)
  BY <1>1
<1>3. Tokens \ alive \subseteq Tokens /\ Tokens \ alive \subseteq Cell
  BY DEF Cell
<1> QED BY <1>2, <1>3, SeqMonotonic

(* The record of a clone.                                                  *)
LEMMA ClonedIs ==
  ASSUME NEW c \in Container, Shape(c), c.kind \in {"vec", "slice", "box"}, NEW b \in Blocks \cup {Null}
  PROVE  /\ Cloned(c, b) \in Container /\ Cloned(c, b).kind = c.kind /\ Cloned(c, b).ptr = b
         /\ Cloned(c, b).cap = c.cap /\ Cloned(c, b).lo = 0 /\ Cloned(c, b).hi = c.hi
<1>1. /\ c.cap \in Nat /\ c.hi \in Nat
      /\ c.kind = "slice" => c.hi = c.cap
      /\ c.kind = "box" => c.hi = 1 /\ c.cap = 1
  BY DEF Container, Shape
<1>2. \A cap, len \in Nat : /\ InnerVec(b, cap, len) \in Container /\ InnerVec(b, cap, len).kind = "vec"
                            /\ InnerVec(b, cap, len).ptr = b /\ InnerVec(b, cap, len).cap = cap
                            /\ InnerVec(b, cap, len).lo = 0 /\ InnerVec(b, cap, len).hi = len
  BY DEF InnerVec, Container, Kinds
<1>3. ASSUME NEW v \in Container, NEW k \in Kinds, NEW e, e = [v EXCEPT !.kind = k]
      PROVE  /\ e \in Container /\ e.kind = k /\ e.ptr = v.ptr /\ e.cap = v.cap /\ e.lo = v.lo /\ e.hi = v.hi
  BY <1>3 DEF Container
<1>4. CASE c.kind = "vec"
  BY <1>1, <1>2, <1>4 DEF Cloned
<1>5. CASE c.kind = "slice"
  <2>1. PICK v : v = InnerVec(b, c.hi, c.hi)
    OBVIOUS
  <2>2. Cloned(c, b) = [v EXCEPT !.kind = "slice"]
    BY <1>5, <2>1 DEF Cloned
  <2>3. /\ v \in Container /\ v.ptr = b /\ v.cap = c.hi /\ v.lo = 0 /\ v.hi = c.hi
    BY <1>1, <1>2, <2>1
  <2>4. "slice" \in Kinds
    BY DEF Kinds
  <2> QED BY <1>1, <1>3, <1>5, <2>2, <2>3, <2>4
<1>6. CASE c.kind = "box"
  <2>1. PICK v : v = InnerVec(b, 1, 1)
    OBVIOUS
  <2>2. Cloned(c, b) = [v EXCEPT !.kind = "box"]
    BY <1>6, <2>1 DEF Cloned, Boxed
  <2>3. /\ v \in Container /\ v.ptr = b /\ v.cap = 1 /\ v.lo = 0 /\ v.hi = 1
    BY <1>2, <2>1
  <2>4. "box" \in Kinds
    BY DEF Kinds
  <2> QED BY <1>1, <1>3, <1>6, <2>2, <2>3, <2>4
<1> QED BY <1>4, <1>5, <1>6

(* try_clone of a Vec, a slice or a Box.                                   *)
LEMMA TryCloneIs == ASSUME Ready, NEW s \in Slots, NEW d \in Slots, try_clone(s, d) PROVE Sound
<1>1. /\ s \in Present /\ d \in Slots \ Present /\ slot[s].kind \in {"vec", "slice", "box"}
      /\ UNCHANGED <<outside, panicked>> /\ d \notin Heaped
  BY DEF try_clone, Heaped
<1>2. PICK ts \in Clones(Elements(slot[s])) :
        /\ alive' = alive \cup ToSet(ts)
        /\ IF Layout(slot[s]) = 0 THEN slot' = [slot EXCEPT ![d] = Cloned(slot[s], Null)] /\ UNCHANGED heap
           ELSE \E b \in Unused : /\ slot' = [slot EXCEPT ![d] = Cloned(slot[s], b)]
                                  /\ heap' = [heap EXCEPT ![b] = Filled(ts, Layout(slot[s]))]
  BY DEF try_clone
<1>3. /\ slot[s] \in Container /\ Shape(slot[s]) /\ slot[s].kind \notin Inline /\ slot[s].lo = 0
      /\ Layout(slot[s]) = slot[s].cap
  <2>1. slot[s].kind \notin Inline /\ slot[s].kind \notin Iterators
    BY <1>1 DEF Inline, Iterators
  <2> QED BY <1>1, <2>1, CellsAre, LayoutIs DEF Ready, Shape
<1>4. PICK cap \in Nat, hi \in Nat : cap = slot[s].cap /\ hi = slot[s].hi /\ hi <= cap
  BY <1>3 DEF Container, Shape
<1>5. /\ Elements(slot[s]) = Contents[s] /\ Contents[s] \in Seq(Cell) /\ Len(Contents[s]) = hi
  <2>1. Elements(slot[s]) = Contents[s]
    BY <1>1, ContentsAre
  <2>2. Contents[s] \in Seq(Cell) /\ Len(Contents[s]) = slot[s].hi - slot[s].lo
    BY <1>1, ElementsAre DEF Ready
  <2> QED BY <1>3, <1>4, <2>1, <2>2
<1>6. ts \in Seq(Cell) /\ Len(ts) = hi /\ ts \in Clones(Contents[s])
  BY <1>2, <1>5, ClonesAre
<1>7. heap \in [Blocks -> Seq(Cell) \cup {Free}]
  BY DEF Ready, Buffers, Types
<1>8. PICK c, cells : Holds(d, c, cells) /\ SubSeq(cells, c.lo + 1, c.hi) = ts
  <2>1. CASE cap = 0 /\ slot' = [slot EXCEPT ![d] = Cloned(slot[s], Null)] /\ UNCHANGED heap
    <3>1. PICK c : c = Cloned(slot[s], Null)
      OBVIOUS
    <3>2. c \in Container /\ c.kind = slot[s].kind /\ c.ptr = Null /\ c.cap = cap /\ c.lo = 0 /\ c.hi = hi
      BY <1>1, <1>3, <1>4, <3>1, ClonedIs
    <3>3. Shape(c) /\ c.kind \notin Inline
      BY <1>1, <1>3, <1>4, <3>2 DEF Shape
    <3>4. heap' = [k \in Blocks |-> IF c.kind \notin Inline /\ k = c.ptr THEN ts ELSE heap[k]]
      BY <1>7, <2>1, <3>2, Marks
    <3>5. Len(ts) = c.cap /\ c.cap = 0 /\ slot' = [slot EXCEPT ![d] = c]
      BY <1>4, <1>6, <2>1, <3>1, <3>2
    <3>6. Holds(d, c, ts)
      BY <1>1, <1>6, <3>2, <3>3, <3>4, <3>5 DEF Holds
    <3>7. ts = <<>> /\ c.lo = 0 /\ c.hi = 0
      BY <1>4, <1>6, <2>1, <3>2
    <3>8. SubSeq(ts, 0 + 1, 0) = ts
      BY <3>7
    <3>9. SubSeq(ts, c.lo + 1, c.hi) = ts
      BY <3>7, <3>8
    <3> QED BY <3>6, <3>9
  <2>2. ASSUME cap # 0, NEW b \in Unused, slot' = [slot EXCEPT ![d] = Cloned(slot[s], b)],
               heap' = [heap EXCEPT ![b] = Filled(ts, cap)]
        PROVE  \E c, cells : Holds(d, c, cells) /\ SubSeq(cells, c.lo + 1, c.hi) = ts
    <3>1. PICK c : c = Cloned(slot[s], b)
      OBVIOUS
    <3>2. b \in Blocks
      BY DEF Unused
    <3>3. c \in Container /\ c.kind = slot[s].kind /\ c.ptr = b /\ c.cap = cap /\ c.lo = 0 /\ c.hi = hi
      BY <1>1, <1>3, <1>4, <3>1, <3>2, ClonedIs
    <3>4. Shape(c) /\ c.kind \notin Inline
      BY <1>1, <1>3, <1>4, <3>3 DEF Shape
    <3>5. PICK f : f = Filled(ts, cap)
      OBVIOUS
    <3>6. f \in Seq(Cell) /\ Len(f) = cap /\ SubSeq(f, 0 + 1, Len(ts)) = ts
      BY <1>4, <1>6, <3>5, FilledIs
    <3>7. heap' = [k \in Blocks |-> IF c.kind \notin Inline /\ k = c.ptr THEN f ELSE heap[k]]
      BY <1>7, <2>2, <3>2, <3>3, <3>4, <3>5
    <3>8. c.cap # 0 /\ c.ptr \in Unused /\ slot' = [slot EXCEPT ![d] = c] /\ Len(f) = c.cap
      BY <2>2, <3>1, <3>3, <3>6
    <3>9. Holds(d, c, f)
      BY <1>1, <3>3, <3>4, <3>6, <3>7, <3>8 DEF Holds
    <3>10. SubSeq(f, c.lo + 1, c.hi) = ts
      BY <1>6, <3>3, <3>6
    <3> QED BY <3>9, <3>10
  <2> QED BY <1>2, <1>3, <1>4, <2>1, <2>2
<1>9. Buffers' /\ Contents' = [Contents EXCEPT ![d] = ts]
  BY <1>8, HoldsKeepsBuffers DEF Ready
<1>10. Copies(s, d)
  BY <1>1, <1>2, <1>6, <1>9 DEF Copies, Becomes
<1> QED BY <1>1, <1>9, <1>10 DEF Sound, Effect, Ready

(* StaticVec::clone.                                                       *)
LEMMA CloneStaticIs == ASSUME Ready, NEW s \in Slots, NEW d \in Slots, clone_static(s, d) PROVE Sound
<1>1. /\ s \in Present /\ d \in Slots \ Present /\ slot[s].kind = "static"
      /\ UNCHANGED <<heap, outside, panicked>> /\ d \in Slots \ Heaped
  BY DEF clone_static, Heaped, Is
<1>2. PICK ts \in Clones(Elements(slot[s])) :
        alive' = alive \cup ToSet(ts) /\ slot' = [slot EXCEPT ![d] = StaticVec(ts)]
  BY DEF clone_static
<1>3. slot[s].hi \in Nat /\ slot[s].lo = 0 /\ slot[s].hi <= N
  BY <1>1, CellsAre DEF Ready, Shape, Container, Inline, Iterators
<1>4. Elements(slot[s]) = Contents[s] /\ Contents[s] \in Seq(Cell) /\ Len(Contents[s]) <= N
  <2>1. Elements(slot[s]) = Contents[s]
    BY <1>1, ContentsAre
  <2>2. Contents[s] \in Seq(Cell) /\ Len(Contents[s]) = slot[s].hi - slot[s].lo
    BY <1>1, ElementsAre DEF Ready
  <2> QED BY <1>3, <2>1, <2>2
<1>5. ts \in Seq(Cell) /\ Len(ts) <= N /\ ts \in Clones(Contents[s])
  BY <1>2, <1>4, ClonesAre
<1>6. Buffers' /\ Contents' = [Contents EXCEPT ![d] = ts]
  BY <1>1, <1>2, <1>5, StaticFilled DEF Ready
<1>7. Copies(s, d)
  BY <1>1, <1>2, <1>5, <1>6 DEF Copies, Becomes
<1> QED BY <1>1, <1>6, <1>7 DEF Sound, Effect, Ready

(* Every call keeps the buffers in order and does one of the effects.      *)
LEMMA CallsAreSound ==
  ASSUME Ready, Sized
  PROVE  Sound
<1>1. MaxCapacity \in Nat /\ N \in Nat
  BY ContainersAssumption
<1>2. ASSUME NEW t \in Tokens, make(t) \/ discard(t) PROVE Sound
  BY <1>2, MakeIs, DiscardIs
<1>3. ASSUME NEW s \in Slots, NEW cap \in 0..MaxCapacity, new_in(s, cap) PROVE Sound
  BY <1>1, <1>3, NewInIs
<1>4. ASSUME NEW s \in Slots, NEW ts \in Given, from_exact_iter(s, ts) PROVE Sound
  BY <1>4, FromExactIterIs
<1>5. ASSUME NEW s \in Slots, NEW t \in Tokens,
             try_push(s, t) \/ push(s, t) \/ new_box(s, t) \/ push_static(s, t)
      PROVE  Sound
  BY <1>5, TryPushIs, PushIs, NewBoxIs, PushStaticIs
<1>6. ASSUME NEW s \in Slots,
             \/ pop(s) \/ into_boxed_slice(s) \/ into_iter(s) \/ next(s) \/ next_back(s)
             \/ into_inner(s) \/ leak(s) \/ from_raw(s)
      PROVE  Sound
  BY <1>6, PopIs, IntoBoxedSliceIs, IntoIterIs, NextIs, NextBackIs, IntoInnerIs, LeakIs, FromRawIs
<1>7. ASSUME NEW s \in Slots,
             \/ new_static(s) \/ pop_static(s) \/ into_iter_static(s) \/ next_static(s)
             \/ drop_vec(s) \/ drop_into_iter(s) \/ drop_box(s)
             \/ drop_static(s) \/ drop_static_into_iter(s)
             \/ string_try_from(s)
      PROVE  Sound
  BY <1>7, NewStaticIs, PopStaticIs, IntoIterStaticIs, NextStaticIs, DropVecIs, DropIntoIterIs,
     DropBoxIs, DropStaticIs, DropStaticIntoIterIs, StringTryFromIs
<1>8. ASSUME NEW s \in Slots, NEW n \in 0..N + 1, truncate(s, n) PROVE Sound
  BY <1>1, <1>8, TruncateIs
<1>9. ASSUME NEW s \in Slots, NEW d \in Slots, try_clone(s, d) \/ clone_static(s, d) PROVE Sound
  BY <1>9, TryCloneIs, CloneStaticIs
<1> QED BY <1>2, <1>3, <1>4, <1>5, <1>6, <1>7, <1>8, <1>9, Zenon DEF Sized

-----------------------------------------------------------------------------
(* Values without a size *)

Holding == [holder : {"none", "caller", "box", "raw"}, boxed : BOOLEAN,
            destroyed : {"never", "once", "again"}]

(* Before it is boxed, such a value is its caller's, and destroyed when    *)
(* the caller ends it.                                                     *)
WellHeld(r) ==
  /\ r \in Holding
  /\ ~r.boxed => /\ r.holder \in {"none", "caller"} /\ r.destroyed # "again"
                 /\ r.holder = "caller" => r.destroyed = "never"

UnitsKept == unit \in [Units -> Holding] /\ \A u \in Units : WellHeld(unit[u])

(* One value is in other hands.                                            *)
LEMMA OneUnit ==
  ASSUME UnitsKept, NEW u \in Units, NEW r, WellHeld(r), unit' = [unit EXCEPT ![u] = r]
  PROVE  UnitsKept'
BY DEF UnitsKept, WellHeld

(* Every call on one keeps what is not boxed with its caller.              *)
LEMMA UnitCallsKeep ==
  ASSUME UnitsKept, ZeroSized
  PROVE  UnitsKept'
<1>1. \A u \in Units : WellHeld(unit[u]) /\ DestroyedAgain(u) \in {"once", "again"}
  BY DEF UnitsKept, DestroyedAgain
<1>2. ASSUME NEW u \in Units, make_unit(u) PROVE UnitsKept'
  <2>1. PICK r : r = [holder |-> "caller", boxed |-> FALSE, destroyed |-> "never"]
    OBVIOUS
  <2>2. WellHeld(r) /\ unit' = [unit EXCEPT ![u] = r]
    BY <1>2, <2>1 DEF make_unit, WellHeld, Holding
  <2> QED BY <2>2, OneUnit
<1>3. ASSUME NEW u \in Units, NEW from \in {"caller", "box"}, unit_ends(u, from) PROVE UnitsKept'
  <2>1. PICK r : r = [unit[u] EXCEPT !.holder = "none", !.destroyed = DestroyedAgain(u)]
    OBVIOUS
  <2>2. WellHeld(r)
    BY <1>1, <1>3, <2>1 DEF unit_ends, WellHeld, Holding, DestroyedAgain
  <2>3. unit' = [unit EXCEPT ![u] = r]
    BY <1>3, <2>1 DEF unit_ends
  <2> QED BY <2>2, <2>3, OneUnit
<1>4. ASSUME NEW u \in Units, NEW from \in {"box", "raw"}, NEW to \in {"caller", "box", "raw"},
             unit_moves(u, from, to)
      PROVE  UnitsKept'
  <2>1. PICK r : r = [unit[u] EXCEPT !.holder = to]
    OBVIOUS
  <2>2. WellHeld(r) /\ unit' = [unit EXCEPT ![u] = r]
    BY <1>1, <1>4, <2>1 DEF unit_moves, WellHeld, Holding
  <2> QED BY <2>2, OneUnit
<1>5. ASSUME NEW u \in Units, new_box_unit(u) PROVE UnitsKept'
  <2>1. PICK r : r = [holder |-> "box", boxed |-> TRUE, destroyed |-> DestroyedAgain(u)]
    OBVIOUS
  <2>2. WellHeld(r) /\ unit' = [unit EXCEPT ![u] = r]
    BY <1>1, <1>5, <2>1 DEF new_box_unit, WellHeld, Holding
  <2> QED BY <2>2, OneUnit
<1>6. ASSUME NEW u \in Units, NEW v \in Units, try_clone_unit(u, v) PROVE UnitsKept'
  <2>1. PICK r : r = [holder |-> "box", boxed |-> TRUE, destroyed |-> "once"]
    OBVIOUS
  <2>2. WellHeld(r) /\ unit' = [unit EXCEPT ![v] = r]
    BY <1>6, <2>1 DEF try_clone_unit, WellHeld, Holding
  <2> QED BY <2>2, OneUnit
<1> QED BY <1>2, <1>3, <1>4, <1>5, <1>6, Zenon
        DEF ZeroSized, discard_unit, drop_box_unit, into_inner_unit, leak_unit, from_raw_unit

-----------------------------------------------------------------------------
(* Who owns the values *)

(* The values in a place.                                                  *)
Vals(content) == IF content = Absent THEN {} ELSE ToSet(content)

(* The values not owned by callers are divided among the containers.       *)
Divided ==
  /\ outside \subseteq alive /\ alive \subseteq Tokens
  /\ \A s \in Present : IsInjective(Contents[s])
  /\ \A s \in Slots : Vals(Contents[s]) \subseteq alive \ outside
  /\ \A s, t \in Slots : s # t => Vals(Contents[s]) \cap Vals(Contents[t]) = {}
  /\ \A x \in alive \ outside : \E s \in Slots : x \in Vals(Contents[s])

(* The values of the other containers.                                     *)
Rest(s) == (alive \ outside) \ Vals(Contents[s])

(* Only a place without a container has no content.                        *)
Apart == \A s \in Slots : s \in Present <=> Contents[s] # Absent

(* The content of a container is never the mark of a place without one.    *)
LEMMA AbsentIs == Buffers => Apart
BY ContentsAre, ElementsAre DEF Apart

(* One container exchanges values with its caller, with what is made and   *)
(* with what is destroyed: the others keep theirs.                         *)
LEMMA Exchanged ==
  ASSUME Divided, Buffers', NEW s \in Slots, NEW new, Becomes(s, new),
         new # Absent => IsInjective(new),
         outside' \subseteq alive', alive' \subseteq Tokens,
         alive' \ outside' = Vals(new) \cup Rest(s), Vals(new) \cap Rest(s) = {}
  PROVE  Divided'
<1>1. Contents'[s] = new /\ \A t \in Slots : t # s => Contents'[t] = Contents[t]
  BY ContentsAre DEF Becomes
<1>2. \A t \in Slots : t # s => Vals(Contents[t]) \subseteq Rest(s)
  BY DEF Divided, Rest
<1>3. ASSUME NEW t \in Present' PROVE (IsInjective(Contents[t]))'
  <2>1. t \in Slots
    BY DEF Present
  <2>2. (Buffers => Apart)'
    BY AbsentIs, PTL
  <2>3. Contents'[t] # Absent
    BY <2>1, <2>2 DEF Apart
  <2>4. CASE t = s
    BY <1>1, <2>3, <2>4 DEF IsInjective
  <2>5. CASE t # s
    <3>1. Contents'[t] = Contents[t] /\ Contents[t] # Absent
      BY <1>1, <2>1, <2>3, <2>5
    <3>2. t \in Present
      BY <2>1, <3>1, ContentsAre
    <3> QED BY <3>1, <3>2 DEF Divided, IsInjective
  <2> QED BY <2>4, <2>5
<1>4. ASSUME NEW t \in Slots PROVE Vals(Contents'[t]) \subseteq alive' \ outside'
  BY <1>1, <1>2
<1>5. ASSUME NEW t \in Slots, NEW r \in Slots, t # r
      PROVE  Vals(Contents'[t]) \cap Vals(Contents'[r]) = {}
  <2>1. CASE t = s
    BY <1>1, <1>2, <1>5, <2>1
  <2>2. CASE r = s
    BY <1>1, <1>2, <1>5, <2>2
  <2>3. CASE t # s /\ r # s
    BY <1>1, <1>5, <2>3 DEF Divided
  <2> QED BY <2>1, <2>2, <2>3
<1>6. ASSUME NEW x \in alive' \ outside' PROVE \E t \in Slots : x \in Vals(Contents'[t])
  <2>1. CASE x \in Vals(new)
    BY <1>1, <2>1
  <2>2. CASE x \in Rest(s)
    <3>1. PICK t \in Slots : x \in Vals(Contents[t])
      BY <2>2 DEF Rest, Divided
    <3>2. t # s
      BY <2>2, <3>1 DEF Rest
    <3> QED BY <1>1, <3>1, <3>2
  <2> QED BY <2>1, <2>2
<1> QED BY <1>3, <1>4, <1>5, <1>6 DEF Divided, Vals

(* The values of a sequence that loses or gains one, or is cut in two.     *)
LEMMA AppendedValues ==
  ASSUME NEW es \in Seq(Cell), NEW t \in Cell, IsInjective(es), t \notin ToSet(es)
  PROVE  ToSet(Append(es, t)) = ToSet(es) \cup {t} /\ IsInjective(Append(es, t))
<1>1. PICK a : a = Append(es, t)
  OBVIOUS
<1>2. /\ a \in Seq(Cell) /\ Len(a) = Len(es) + 1 /\ a[Len(es) + 1] = t
      /\ \A i \in 1..Len(es) : a[i] = es[i]
  BY <1>1, AppendProperties
<1>3. DOMAIN a = 1..(Len(es) + 1) /\ DOMAIN es = 1..Len(es) /\ Len(es) \in Nat
  BY <1>2
<1>4. \A i \in 1..(Len(es) + 1) : i = Len(es) + 1 \/ i \in 1..Len(es)
  BY <1>3
<1>5. \A i \in 1..Len(es) : a[i] \in ToSet(es) /\ i \in 1..(Len(es) + 1)
  BY <1>2, <1>3 DEF ToSet
<1>6. Len(es) + 1 \in 1..(Len(es) + 1)
  BY <1>3
<1>7. ToSet(a) = ToSet(es) \cup {t}
  BY <1>2, <1>3, <1>4, <1>5, <1>6, Zenon DEF ToSet
<1>8. IsInjective(a)
  <2> SUFFICES ASSUME NEW i \in 1..(Len(es) + 1), NEW j \in 1..(Len(es) + 1), a[i] = a[j] PROVE i = j
    BY <1>3 DEF IsInjective
  <2> QED BY <1>2, <1>3, <1>4, <1>5 DEF IsInjective
<1> QED BY <1>1, <1>7, <1>8

(* Without the first value.                                                *)
LEMMA TailValues ==
  ASSUME NEW es \in Seq(Cell), IsInjective(es), es # <<>>
  PROVE  /\ ToSet(es) = ToSet(Tail(es)) \cup {Head(es)} /\ Head(es) \notin ToSet(Tail(es))
         /\ IsInjective(Tail(es)) /\ Tail(es) \in Seq(Cell)
<1>1. PICK a : a = Tail(es)
  OBVIOUS
<1>2. /\ a \in Seq(Cell) /\ Len(a) = Len(es) - 1
      /\ \A i \in 1..Len(a) : a[i] = es[i + 1]
  BY <1>1, HeadTailProperties
<1>3. PICK n \in Nat : n = Len(a) /\ Len(es) = n + 1
  BY <1>2
<1>4. DOMAIN a = 1..n /\ DOMAIN es = 1..(n + 1) /\ Head(es) = es[1]
  BY <1>2, <1>3
<1>5. \A i \in 1..n : a[i] = es[i + 1] /\ i + 1 \in 1..(n + 1) /\ i + 1 # 1
  BY <1>2, <1>3
<1>6. \A i \in 1..(n + 1) : i = 1 \/ \E j \in 1..n : i = j + 1
  <2> SUFFICES ASSUME NEW i \in 1..(n + 1), i # 1 PROVE \E j \in 1..n : i = j + 1
    OBVIOUS
  <2>1. i - 1 \in 1..n /\ i = (i - 1) + 1
    OBVIOUS
  <2> QED BY <2>1
<1>7. 1 \in 1..(n + 1)
  OBVIOUS
<1>8. ToSet(es) = ToSet(a) \cup {es[1]}
  <2>1. ASSUME NEW i \in 1..(n + 1) PROVE es[i] \in ToSet(a) \cup {es[1]}
    <3>1. CASE i = 1
      BY <3>1
    <3>2. ASSUME NEW j \in 1..n, i = j + 1 PROVE es[i] \in ToSet(a)
      BY <1>4, <1>5, <3>2 DEF ToSet
    <3> QED BY <1>6, <3>1, <3>2
  <2>2. ASSUME NEW i \in 1..n PROVE a[i] \in ToSet(es)
    BY <1>4, <1>5 DEF ToSet
  <2>3. es[1] \in ToSet(es)
    BY <1>4, <1>7 DEF ToSet
  <2>4. \A x \in ToSet(es) : \E i \in 1..(n + 1) : x = es[i]
    BY <1>4 DEF ToSet
  <2>5. \A x \in ToSet(a) : \E i \in 1..n : x = a[i]
    BY <1>4 DEF ToSet
  <2> QED BY <2>1, <2>2, <2>3, <2>4, <2>5
<1>9. es[1] \notin ToSet(a)
  <2> SUFFICES ASSUME NEW i \in 1..n, a[i] = es[1] PROVE FALSE
    BY <1>4 DEF ToSet
  <2> QED BY <1>4, <1>5, <1>7 DEF IsInjective
<1>10. IsInjective(a)
  <2> SUFFICES ASSUME NEW i \in 1..n, NEW j \in 1..n, a[i] = a[j] PROVE i = j
    BY <1>4 DEF IsInjective
  <2>1. i + 1 = j + 1
    BY <1>4, <1>5 DEF IsInjective
  <2> QED BY <2>1
<1> QED BY <1>1, <1>2, <1>4, <1>8, <1>9, <1>10

(* Cut in two, a sequence of distinct values is two with none in common.   *)
LEMMA CutValues ==
  ASSUME NEW es \in Seq(Cell), IsInjective(es), NEW n \in 0..Len(es)
  PROVE  /\ ToSet(es) = ToSet(SubSeq(es, 1, n)) \cup ToSet(SubSeq(es, n + 1, Len(es)))
         /\ ToSet(SubSeq(es, 1, n)) \cap ToSet(SubSeq(es, n + 1, Len(es))) = {}
         /\ IsInjective(SubSeq(es, 1, n)) /\ SubSeq(es, 1, n) \in Seq(Cell)
<1> DEFINE m == Len(es)
           a == SubSeq(es, 0 + 1, n)
           b == SubSeq(es, n + 1, m)
<1>1. m \in Nat /\ n <= m /\ n \in Nat /\ m = Len(es)
  OBVIOUS
<1>2. a \in Seq(Cell) /\ Len(a) = n - 0 /\ a = [i \in 1..(n - 0) |-> es[0 + i]]
  <2>1. 0 \in Nat /\ n \in Nat /\ 0 <= n /\ n <= Len(es)
    OBVIOUS
  <2> QED BY <2>1, PartIs
<1>3. Len(b) = m - n /\ b = [i \in 1..(m - n) |-> es[n + i]]
  <2>1. n \in Nat /\ n <= m /\ m <= Len(es)
    BY <1>1
  <2> QED BY <1>1, <2>1, PartIs
<1>4. a = SubSeq(es, 1, n) /\ b = SubSeq(es, n + 1, Len(es))
 OBVIOUS
<1> HIDE DEF m, a, b
<1>5. DOMAIN a = 1..n /\ DOMAIN b = 1..(m - n) /\ DOMAIN es = 1..m
  BY <1>1, <1>2, <1>3
<1>6. \A i \in 1..n : a[i] = es[i] /\ i \in 1..m
  BY <1>1, <1>2
<1>7. \A i \in 1..(m - n) : b[i] = es[n + i] /\ n + i \in 1..m /\ n + i \notin 1..n
  BY <1>1, <1>3
<1>8. \A i \in 1..m : i \in 1..n \/ \E j \in 1..(m - n) : i = n + j
  <2> SUFFICES ASSUME NEW i \in 1..m, i \notin 1..n PROVE \E j \in 1..(m - n) : i = n + j
    OBVIOUS
  <2>1. i - n \in 1..(m - n) /\ i = n + (i - n)
    BY <1>1
  <2> QED BY <2>1
<1>9. ToSet(es) = ToSet(a) \cup ToSet(b)
  <2>1. ASSUME NEW i \in 1..m PROVE es[i] \in ToSet(a) \cup ToSet(b)
    <3>1. CASE i \in 1..n
      BY <1>5, <1>6, <3>1 DEF ToSet
    <3>2. ASSUME NEW j \in 1..(m - n), i = n + j PROVE es[i] \in ToSet(b)
      BY <1>5, <1>7, <3>2 DEF ToSet
    <3> QED BY <1>8, <3>1, <3>2
  <2>2. ASSUME NEW i \in 1..n PROVE a[i] \in ToSet(es)
    BY <1>5, <1>6 DEF ToSet
  <2>3. ASSUME NEW i \in 1..(m - n) PROVE b[i] \in ToSet(es)
    BY <1>5, <1>7 DEF ToSet
  <2>4. \A x \in ToSet(es) : \E i \in 1..m : x = es[i]
    BY <1>5 DEF ToSet
  <2>5. \A x \in ToSet(a) : \E i \in 1..n : x = a[i]
    BY <1>5 DEF ToSet
  <2>6. \A x \in ToSet(b) : \E i \in 1..(m - n) : x = b[i]
    BY <1>5 DEF ToSet
  <2> QED BY <2>1, <2>2, <2>3, <2>4, <2>5, <2>6
<1>10. ToSet(a) \cap ToSet(b) = {}
  <2> SUFFICES ASSUME NEW i \in 1..n, NEW j \in 1..(m - n), a[i] = b[j] PROVE FALSE
    BY <1>5 DEF ToSet
  <2>1. es[i] = es[n + j] /\ i \in 1..m /\ n + j \in 1..m /\ i # n + j
    BY <1>6, <1>7
  <2> QED BY <1>5, <2>1 DEF IsInjective
<1>11. IsInjective(a)
  BY <1>5, <1>6 DEF IsInjective
<1> QED BY <1>2, <1>9, <1>10, <1>11, <1>4

(* Without the last value.                                                 *)
LEMMA FrontValues ==
  ASSUME NEW es \in Seq(Cell), IsInjective(es), es # <<>>
  PROVE  /\ ToSet(es) = ToSet(Front(es)) \cup {Last(es)} /\ Last(es) \notin ToSet(Front(es))
         /\ IsInjective(Front(es)) /\ Front(es) \in Seq(Cell)
<1>1. PICK n \in 0..Len(es) : n = Len(es) - 1 /\ n + 1 = Len(es)
  <2>1. Len(es) # 0
    OBVIOUS
  <2>2. Len(es) - 1 \in 0..Len(es) /\ (Len(es) - 1) + 1 = Len(es)
    BY <2>1
  <2> QED BY <2>2, Zenon
<1>2. Front(es) = SubSeq(es, 1, n)
  BY <1>1 DEF Front
<1>3. PICK b : b = SubSeq(es, n + 1, Len(es))
  OBVIOUS
<1>4. b = [i \in 1..(Len(es) - n) |-> es[n + i]]
  <2>1. n \in Nat /\ Len(es) \in Nat /\ n <= Len(es) /\ Len(es) <= Len(es)
    OBVIOUS
  <2> QED BY <1>3, <2>1, PartIs
<1>5. DOMAIN b = 1..1 /\ b[1] = es[Len(es)]
  BY <1>1, <1>4
<1>6. ToSet(b) = {Last(es)}
  BY <1>5 DEF ToSet, Last
<1>7. /\ ToSet(es) = ToSet(SubSeq(es, 1, n)) \cup ToSet(b)
      /\ ToSet(SubSeq(es, 1, n)) \cap ToSet(b) = {}
      /\ IsInjective(SubSeq(es, 1, n)) /\ SubSeq(es, 1, n) \in Seq(Cell)
  BY <1>3, CutValues
<1> QED BY <1>2, <1>6, <1>7

(* The sequence of a container, with the values it has.                    *)
LEMMA ContentOf ==
  ASSUME Buffers, Divided, NEW s \in Present
  PROVE  /\ s \in Slots /\ Contents[s] \in Seq(Cell) /\ IsInjective(Contents[s]) /\ Contents[s] # Absent
         /\ Vals(Contents[s]) = ToSet(Contents[s]) /\ ToSet(Contents[s]) \subseteq alive \ outside
<1>1. s \in Slots /\ Contents[s] \in Seq(Cell) /\ Contents[s] # Absent
  BY ElementsAre DEF Present
<1> QED BY <1>1 DEF Divided, Vals

(* A sequence is not the mark of a place without one.                      *)
LEMMA SequencesAre ==
  ASSUME NEW es \in Seq(Cell)
  PROVE  es # Absent /\ Vals(es) = ToSet(es)
BY Marks DEF Vals

(* The values of callers that fill a container are its own.                *)
LEMMA FillsDivides ==
  ASSUME Buffers, Buffers', Divided, NEW s \in Slots, NEW ts \in Seq(outside), Fills(s, ts)
  PROVE  Divided'
<1>1. Contents[s] = Absent /\ Vals(Contents[s]) = {}
  BY ContentsAre DEF Fills, Vals
<1>2. ToSet(ts) \subseteq outside /\ outside \subseteq Cell
  BY DEF ToSet, Divided, Cell
<1>3. ts \in Seq(Cell)
  BY <1>2, SeqMonotonic
<1>4. Vals(ts) = ToSet(ts) /\ Rest(s) = alive \ outside
  BY <1>1, <1>3, SequencesAre DEF Rest
<1>5. /\ outside' = outside \ ToSet(ts) /\ alive' = alive /\ outside \subseteq alive /\ alive \subseteq Tokens
      /\ Becomes(s, ts) /\ IsInjective(ts)
  BY DEF Fills, Divided
<1>6. alive' \ outside' = Vals(ts) \cup Rest(s) /\ Vals(ts) \cap Rest(s) = {}
  BY <1>2, <1>4, <1>5
<1>7. outside' \subseteq alive' /\ alive' \subseteq Tokens
  BY <1>5
<1> QED BY <1>5, <1>6, <1>7, Exchanged

(* One more value of a caller becomes the container's.                     *)
LEMMA AppendsDivides ==
  ASSUME Buffers, Buffers', Divided, NEW s \in Slots, NEW t \in Tokens, Appends(s, t)
  PROVE  Divided'
<1>1. /\ s \in Present /\ t \in outside /\ outside' = outside \ {t} /\ alive' = alive
      /\ outside \subseteq alive /\ alive \subseteq Tokens /\ t \in Cell
  BY DEF Appends, Divided, Cell
<1>2. PICK es \in Seq(Cell) : /\ es = Contents[s] /\ IsInjective(es) /\ Vals(Contents[s]) = ToSet(es)
                              /\ ToSet(es) \subseteq alive \ outside
  BY <1>1, ContentOf
<1>3. ToSet(Append(es, t)) = ToSet(es) \cup {t} /\ IsInjective(Append(es, t))
  BY <1>1, <1>2, AppendedValues
<1>4. PICK a \in Seq(Cell) : a = Append(es, t)
  BY <1>1, AppendProperties
<1>5. Vals(a) = ToSet(es) \cup {t} /\ Becomes(s, a) /\ IsInjective(a)
  BY <1>2, <1>3, <1>4, SequencesAre DEF Appends
<1>6. alive' \ outside' = Vals(a) \cup Rest(s) /\ Vals(a) \cap Rest(s) = {}
  BY <1>1, <1>2, <1>5 DEF Rest
<1>7. outside' \subseteq alive' /\ alive' \subseteq Tokens
  BY <1>1
<1> QED BY <1>5, <1>6, <1>7, Exchanged

(* A value taken at an end is the caller's.                                *)
LEMMA TakesDivides ==
  ASSUME Buffers, Buffers', Divided, NEW s \in Slots, TakesFirst(s) \/ TakesLast(s)
  PROVE  Divided'
<1>1. /\ s \in Present /\ alive' = alive /\ Contents[s] # <<>>
      /\ outside \subseteq alive /\ alive \subseteq Tokens
  BY DEF TakesFirst, TakesLast, Divided
<1>2. PICK es \in Seq(Cell) : /\ es = Contents[s] /\ IsInjective(es) /\ Vals(Contents[s]) = ToSet(es)
                              /\ ToSet(es) \subseteq alive \ outside /\ es # <<>>
  BY <1>1, ContentOf
<1>3. PICK a, x : /\ a \in Seq(Cell) /\ ToSet(es) = ToSet(a) \cup {x} /\ x \notin ToSet(a)
                   /\ IsInjective(a) /\ Becomes(s, a) /\ outside' = outside \cup {x}
  <2>1. CASE TakesFirst(s)
    <3>1. /\ ToSet(es) = ToSet(Tail(es)) \cup {Head(es)} /\ Head(es) \notin ToSet(Tail(es))
          /\ IsInjective(Tail(es)) /\ Tail(es) \in Seq(Cell)
      BY <1>2, TailValues
    <3>2. Becomes(s, Tail(es)) /\ outside' = outside \cup {Head(es)}
      BY <1>2, <2>1 DEF TakesFirst
    <3> QED BY <3>1, <3>2
  <2>2. CASE TakesLast(s)
    <3>1. /\ ToSet(es) = ToSet(Front(es)) \cup {Last(es)} /\ Last(es) \notin ToSet(Front(es))
          /\ IsInjective(Front(es)) /\ Front(es) \in Seq(Cell)
      BY <1>2, FrontValues
    <3>2. Becomes(s, Front(es)) /\ outside' = outside \cup {Last(es)}
      BY <1>2, <2>2 DEF TakesLast
    <3> QED BY <3>1, <3>2
  <2> QED BY <2>1, <2>2
<1>4. Vals(a) = ToSet(a)
  BY <1>3, SequencesAre
<1>5. alive' \ outside' = Vals(a) \cup Rest(s) /\ Vals(a) \cap Rest(s) = {}
  BY <1>1, <1>2, <1>3, <1>4 DEF Rest
<1>6. outside' \subseteq alive' /\ alive' \subseteq Tokens
  BY <1>1, <1>2, <1>3
<1> QED BY <1>3, <1>5, <1>6, Exchanged

(* The values of a container that goes are its caller's, or destroyed.     *)
LEMMA GoneDivides ==
  ASSUME Buffers, Buffers', Divided, NEW s \in Slots, Unwraps(s) \/ Releases(s)
  PROVE  Divided'
<1>1. s \in Present /\ Becomes(s, Absent) /\ outside \subseteq alive /\ alive \subseteq Tokens
  BY DEF Unwraps, Releases, Divided
<1>2. Vals(Contents[s]) = ToSet(Contents[s]) /\ ToSet(Contents[s]) \subseteq alive \ outside
  BY <1>1, ContentOf
<1>3. Vals(Absent) = {}
  BY DEF Vals
<1>4. \/ outside' = outside \cup ToSet(Contents[s]) /\ alive' = alive
      \/ alive' = alive \ ToSet(Contents[s]) /\ outside' = outside
  BY DEF Unwraps, Releases
<1>5. alive' \ outside' = Vals(Absent) \cup Rest(s) /\ Vals(Absent) \cap Rest(s) = {}
  BY <1>1, <1>2, <1>3, <1>4 DEF Rest
<1>6. outside' \subseteq alive' /\ alive' \subseteq Tokens
  BY <1>1, <1>2, <1>4
<1> QED BY <1>1, <1>5, <1>6, Exchanged

(* What truncate destroys is no other container's.                         *)
LEMMA TruncatesDivides ==
  ASSUME Buffers, Buffers', Divided, NEW s \in Slots, NEW n \in Nat, Truncates(s, n)
  PROVE  Divided'
<1>1. s \in Present /\ outside' = outside /\ outside \subseteq alive /\ alive \subseteq Tokens
  BY DEF Truncates, Divided
<1>2. PICK es \in Seq(Cell) : /\ es = Contents[s] /\ IsInjective(es) /\ Vals(Contents[s]) = ToSet(es)
                              /\ ToSet(es) \subseteq alive \ outside
  BY <1>1, ContentOf
<1>3. PICK a, b : a = SubSeq(es, 1, n) /\ b = SubSeq(es, n + 1, Len(es))
  OBVIOUS
<1>4. n \in 0..Len(es) /\ Becomes(s, a) /\ alive' = alive \ ToSet(b)
  BY <1>2, <1>3 DEF Truncates
<1>5. /\ ToSet(es) = ToSet(a) \cup ToSet(b) /\ ToSet(a) \cap ToSet(b) = {}
      /\ IsInjective(a) /\ a \in Seq(Cell)
  BY <1>2, <1>3, <1>4, CutValues
<1>6. Vals(a) = ToSet(a)
  BY <1>5, SequencesAre
<1>7. alive' \ outside' = Vals(a) \cup Rest(s) /\ Vals(a) \cap Rest(s) = {}
  BY <1>1, <1>2, <1>4, <1>5, <1>6 DEF Rest
<1>8. outside' \subseteq alive' /\ alive' \subseteq Tokens
  BY <1>1, <1>2, <1>4, <1>5
<1> QED BY <1>4, <1>5, <1>7, <1>8, Exchanged

(* A clone holds values that nobody had.                                   *)
LEMMA CopiesDivides ==
  ASSUME Buffers, Buffers', Divided, NEW s \in Slots, NEW d \in Slots, Copies(s, d)
  PROVE  Divided'
<1>1. /\ s \in Present /\ d \in Slots \ Present /\ outside' = outside
      /\ outside \subseteq alive /\ alive \subseteq Tokens
  BY DEF Copies, Divided
<1>2. PICK ts \in Clones(Contents[s]) : Becomes(d, ts) /\ alive' = alive \cup ToSet(ts)
  BY DEF Copies
<1>3. ts \in Seq(Cell) /\ Vals(ts) = ToSet(ts)
  BY <1>1, <1>2, ContentOf, ClonesAre, SequencesAre
<1>4. IsInjective(ts) /\ ToSet(ts) \subseteq Tokens \ alive
  BY <1>2 DEF Clones, ToSet
<1>5. Contents[d] = Absent /\ Vals(Contents[d]) = {}
  BY <1>1, ContentsAre DEF Vals
<1>6. alive' \ outside' = Vals(ts) \cup Rest(d) /\ Vals(ts) \cap Rest(d) = {}
  BY <1>1, <1>2, <1>3, <1>4, <1>5 DEF Rest
<1>7. outside' \subseteq alive' /\ alive' \subseteq Tokens
  BY <1>1, <1>2, <1>4
<1> QED BY <1>2, <1>4, <1>6, <1>7, Exchanged

(* No container changes.                                                   *)
LEMMA ElsewhereDivides ==
  ASSUME Buffers, Buffers', Divided, Contents' = Contents,
         outside' \subseteq alive', alive' \subseteq Tokens, alive' \ outside' = alive \ outside
  PROVE  Divided'
<1>1. (Buffers => Apart)'
  BY AbsentIs, PTL
<1>2. Present' = Present
  <2>1. Present' \subseteq Slots /\ Present \subseteq Slots
    BY DEF Present
  <2>2. Apart /\ Apart'
    BY <1>1, AbsentIs
  <2> QED BY <2>1, <2>2 DEF Apart
<1> QED BY <1>2 DEF Divided, Vals, IsInjective

(* Every effect keeps the values divided.                                  *)
LEMMA EffectDivides ==
  ASSUME Buffers, Buffers', Divided, Effect
  PROVE  Divided'
<1>1. outside \subseteq alive /\ alive \subseteq Tokens
  BY DEF Divided
<1>2. CASE Keeps
  BY <1>1, <1>2, ElsewhereDivides DEF Keeps
<1>3. ASSUME NEW t \in Tokens, Makes(t) PROVE Divided'
  <2>1. outside' \subseteq alive' /\ alive' \subseteq Tokens /\ alive' \ outside' = alive \ outside
    BY <1>1, <1>3 DEF Makes
  <2> QED BY <1>3, <2>1, ElsewhereDivides DEF Makes
<1>4. ASSUME NEW ts \in SUBSET outside, Destroys(ts) PROVE Divided'
  <2>1. outside' \subseteq alive' /\ alive' \subseteq Tokens /\ alive' \ outside' = alive \ outside
    BY <1>1, <1>4 DEF Destroys
  <2> QED BY <1>4, <2>1, ElsewhereDivides DEF Destroys
<1>5. ASSUME NEW s \in Slots, TakesFirst(s) \/ TakesLast(s) \/ Unwraps(s) \/ Releases(s) PROVE Divided'
  BY <1>5, TakesDivides, GoneDivides
<1> QED BY <1>2, <1>3, <1>4, <1>5, FillsDivides, AppendsDivides, TruncatesDivides, CopiesDivides DEF Effect

-----------------------------------------------------------------------------
(* The containers as OwnedSequence has them *)

(* The operators of SequencesExt, seen through OwnedSequence.              *)
LEMMA SameOperators ==
  /\ \A f : Promise!ToSet(f) = ToSet(f)
  /\ \A f : Promise!IsInjective(f) <=> IsInjective(f)
  /\ \A f : Promise!Front(f) = Front(f) /\ Promise!Last(f) = Last(f)
BY DEF Promise!ToSet, ToSet, Promise!IsInjective, IsInjective, Promise!Front, Front, Promise!Last, Last

(* What exists is what somebody owns.                                      *)
LEMMA AliveIsOwned ==
  ASSUME Buffers, Divided
  PROVE  Promise!Owned = alive
<1>1. \A x : x \in Promise!Owned <=> x \in outside \/ \E s \in Slots : x \in Vals(Contents[s])
  BY SameOperators DEF Promise!Owned, Vals
<1>2. \A s \in Slots : Vals(Contents[s]) \subseteq alive
  BY DEF Divided
<1> QED BY <1>1, <1>2 DEF Divided

(* Every effect is one of OwnedSequence.                                   *)
LEMMA EffectKeepsPromise ==
  ASSUME Buffers, Divided, Effect
  PROVE  [Promise!Next]_Promise!vars
<1>1. \A s : \A new : Becomes(s, new) <=> Promise!Becomes(s, new)
  BY DEF Becomes, Promise!Becomes
<1>2. \A s \in Slots : s \in Present <=> Contents[s] # Absent
  BY AbsentIs DEF Apart
<1>3. CASE Keeps
  BY <1>3 DEF Keeps, Promise!vars
<1>4. ASSUME NEW t \in Tokens, Makes(t) PROVE Promise!Next
  <2>1. Promise!Make(t)
    BY <1>4, AliveIsOwned DEF Makes, Promise!Make
  <2> QED BY <2>1 DEF Promise!Next
<1>5. ASSUME NEW ts \in SUBSET outside, Destroys(ts) PROVE Promise!Next
  <2>1. Promise!Discard(ts)
    BY <1>5 DEF Destroys, Promise!Discard
  <2> QED BY <2>1 DEF Promise!Next
<1>6. ASSUME NEW s \in Slots, NEW ts \in Seq(outside), Fills(s, ts) PROVE Promise!Next
  <2>1. Contents[s] = Absent /\ Promise!Becomes(s, ts) /\ Contents'[s] = ts
    BY <1>1, <1>6, ContentsAre DEF Fills, Becomes
  <2>2. ts # Absent
    <3>1. outside \subseteq Cell
      BY DEF Divided, Cell
    <3>2. ts \in Seq(Cell)
      BY <3>1, SeqMonotonic
    <3> QED BY <3>2, Marks
  <2>3. Promise!Create(s, ts)
    BY <1>6, <2>1, SameOperators DEF Fills, Promise!Create
  <2>4. Contents'[s] # Absent /\ Promise!Create(s, Contents'[s])
    BY <2>1, <2>2, <2>3
  <2> QED BY <2>4 DEF Promise!Next
<1>7. ASSUME NEW s \in Slots, NEW t \in Tokens, Appends(s, t) PROVE Promise!Next
  <2>1. Promise!Append1(s, t)
    BY <1>1, <1>2, <1>7 DEF Appends, Promise!Append1
  <2> QED BY <2>1 DEF Promise!Next
<1>8. ASSUME NEW s \in Slots, TakesFirst(s) PROVE Promise!Next
  <2>1. Promise!TakeFirst(s)
    BY <1>1, <1>2, <1>8 DEF TakesFirst, Promise!TakeFirst
  <2> QED BY <2>1 DEF Promise!Next
<1>9. ASSUME NEW s \in Slots, TakesLast(s) PROVE Promise!Next
  <2>1. Promise!TakeLast(s)
    BY <1>1, <1>2, <1>9, SameOperators DEF TakesLast, Promise!TakeLast
  <2> QED BY <2>1 DEF Promise!Next
<1>10. ASSUME NEW s \in Slots, Unwraps(s) PROVE Promise!Next
  <2>1. Promise!Unwrap(s)
    BY <1>1, <1>2, <1>10, SameOperators DEF Unwraps, Promise!Unwrap
  <2> QED BY <2>1 DEF Promise!Next
<1>11. ASSUME NEW s \in Slots, Releases(s) PROVE Promise!Next
  <2>1. Promise!Destroy(s)
    BY <1>1, <1>2, <1>11 DEF Releases, Promise!Destroy
  <2> QED BY <2>1 DEF Promise!Next
<1>12. ASSUME NEW s \in Slots, NEW n \in Nat, Truncates(s, n) PROVE Promise!Next
  <2>1. Contents[s] # Absent /\ Contents[s] \in Seq(Cell) /\ n \in 0..Len(Contents[s])
    BY <1>12, ElementsAre DEF Truncates
  <2>2. Promise!Truncate(s, n)
    BY <1>1, <1>12, <2>1 DEF Truncates, Promise!Truncate
  <2> QED BY <2>1, <2>2 DEF Promise!Next
<1>13. ASSUME NEW s \in Slots, NEW d \in Slots, Copies(s, d) PROVE Promise!Next
  <2>1. Contents[s] # Absent /\ Contents[d] = Absent /\ UNCHANGED outside /\ Contents[s] \in Seq(Cell)
    BY <1>2, <1>13, ElementsAre DEF Copies
  <2>2. PICK ts \in Clones(Contents[s]) : Becomes(d, ts)
    BY <1>13 DEF Copies
  <2>3. /\ ts \in [1..Len(Contents[s]) -> Tokens \ Promise!Owned] /\ Promise!IsInjective(ts)
        /\ Promise!Becomes(d, ts) /\ Len(ts) = Len(Contents[s])
    BY <1>1, <2>1, <2>2, AliveIsOwned, SameOperators, ClonesAre DEF Clones
  <2>4. \A i \in 1..Len(Contents[s]) : ValueOf[ts[i]] = ValueOf[Contents[s][i]]
    <3>1. Values(ts) = Values(Contents[s])
      BY <2>2 DEF Clones
    <3>2. ASSUME NEW f, NEW i \in 1..Len(f) PROVE Values(f)[i] = ValueOf[f[i]]
      BY DEF Values
    <3> QED BY <2>3, <3>1, <3>2
  <2>5. Promise!Clone(s, d)
    BY <2>1, <2>3, <2>4 DEF Promise!Clone
  <2> QED BY <2>5 DEF Promise!Next
<1> QED BY <1>3, <1>4, <1>5, <1>6, <1>7, <1>8, <1>9, <1>10, <1>11, <1>12, <1>13 DEF Effect

-----------------------------------------------------------------------------
(* The invariant *)

(* The invariant: containers on buffers of their own, values divided among *)
(* them.  Neither part mentions the other, but a call is one of the effects *)
(* only while the buffers are in order.                                    *)
IInv == Buffers /\ Divided /\ panicked \in BOOLEAN /\ UnitsKept

(* Nothing exists at first.                                                *)
LEMMA Initially ==
  ASSUME Init
  PROVE  IInv /\ Promise!Init
<1>1. Present = {} /\ Heaped = {}
  BY DEF Init, Present, Heaped
<1>2. Buffers
  BY <1>1 DEF Init, Buffers, Types, Backed
<1>3. Contents = [s \in Slots |-> Absent]
  BY DEF Init, Contents
<1>4. Divided
  BY <1>1, <1>3 DEF Init, Divided, Vals
<1>5. UnitsKept
  BY DEF Init, UnitsKept, WellHeld, Holding
<1> QED BY <1>2, <1>3, <1>4, <1>5 DEF Init, IInv, Promise!Init

(* Every step keeps the invariant, and is one of OwnedSequence or a stutter. *)
LEMMA Preserved ==
  ASSUME IInv, [Next]_vars
  PROVE  IInv' /\ [Promise!Next]_Promise!vars
<1>1. ASSUME UNCHANGED sized
      PROVE  (Buffers /\ Divided /\ panicked \in BOOLEAN)' /\ UNCHANGED Promise!vars
  <2>1. Buffers' /\ Contents' = Contents
    BY <1>1, SameBuffers DEF IInv, sized
  <2>2. Divided'
    BY <1>1, <2>1, ElsewhereDivides DEF IInv, sized, Divided
  <2> QED BY <1>1, <2>1, <2>2 DEF IInv, sized, Promise!vars
<1>2. CASE UNCHANGED vars
  <2>1. UnitsKept'
    BY <1>2 DEF IInv, vars, UnitsKept
  <2> QED BY <1>1, <1>2, <2>1 DEF IInv, vars
<1>3. CASE Sized /\ UNCHANGED unit
  <2>1. Ready
    BY DEF IInv, Ready, Divided
  <2>2. Buffers' /\ Effect /\ panicked' \in BOOLEAN
    BY <1>3, <2>1, CallsAreSound DEF Sound
  <2>3. Divided'
    BY <2>2, EffectDivides DEF IInv
  <2>4. [Promise!Next]_Promise!vars
    BY <2>2, EffectKeepsPromise DEF IInv
  <2>5. UnitsKept'
    BY <1>3 DEF IInv, UnitsKept
  <2> QED BY <2>2, <2>3, <2>4, <2>5 DEF IInv
<1>4. CASE ZeroSized /\ UNCHANGED sized
  <2>1. UnitsKept'
    BY <1>4, UnitCallsKeep DEF IInv
  <2> QED BY <1>1, <1>4, <2>1 DEF IInv
<1> QED BY <1>2, <1>3, <1>4 DEF Next

(* The invariant contains the types.                                       *)
LEMMA WellTyped == ASSUME IInv PROVE TypeOK
<1>1. ASSUME NEW s \in Present
      PROVE  LET c == slot[s] IN
               /\ c.kind \in Kinds /\ c.ptr \in Blocks \cup {Null}
               /\ 0 <= c.lo /\ c.lo <= c.hi /\ c.hi <= c.cap
               /\ c.kind \in Inline => Len(c.data) = N
  BY CellsAre DEF IInv, Container, Shape
<1>2. \A b \in Blocks : heap[b] = Free \/ heap[b] \in Seq(Tokens \cup {Uninit})
  BY DEF IInv, Buffers, Types, Cell
<1>3. unit \in [Units -> Holding]
  BY DEF IInv, UnitsKept
<1> QED BY <1>1, <1>2, <1>3 DEF IInv, Divided, TypeOK, Holding

(* Divided among containers whose elements are distinct, every value is at *)
(* one place.                                                              *)
LEMMA ValuesAreOwned == ASSUME IInv PROVE OwnedOnce
<1> DEFINE places == UNION {{<<s, i>> : i \in 1..Len(Elements(slot[s]))} : s \in Present}
           at(p) == Elements(slot[p[1]])[p[2]]
<1>1. \A p : p \in places <=> \E s \in Present : \E i \in 1..Len(Elements(slot[s])) : p = <<s, i>>
  OBVIOUS
<1>2. \A s \in Present : \A i : at(<<s, i>>) = Elements(slot[s])[i]
  OBVIOUS
<1>3. ASSUME NEW s \in Present
      PROVE  /\ s \in Slots /\ Elements(slot[s]) \in Seq(Cell) /\ IsInjective(Elements(slot[s]))
             /\ Vals(Contents[s]) = {Elements(slot[s])[i] : i \in 1..Len(Elements(slot[s]))}
             /\ Vals(Contents[s]) \subseteq alive \ outside
  <2>1. PICK es \in Seq(Cell) : es = Contents[s] /\ es = Elements(slot[s])
    BY ContentOf, ContentsAre DEF IInv
  <2>2. IsInjective(es) /\ Vals(Contents[s]) = ToSet(es) /\ ToSet(es) \subseteq alive \ outside /\ s \in Slots
    BY <2>1, ContentOf DEF IInv
  <2>3. ToSet(es) = {es[i] : i \in 1..Len(es)}
    BY DEF ToSet
  <2> QED BY <2>1, <2>2, <2>3
<1> HIDE DEF places, at
<1>4. ASSUME NEW p \in places PROVE at(p) \in alive \ outside
  <2>1. PICK s \in Present : \E i \in 1..Len(Elements(slot[s])) : p = <<s, i>>
    BY <1>1
  <2>2. PICK i \in 1..Len(Elements(slot[s])) : p = <<s, i>>
    BY <2>1
  <2>3. at(p) = Elements(slot[s])[i]
    BY <1>2, <2>2
  <2> QED BY <1>3, <2>2, <2>3
<1>5. ASSUME NEW p \in places, NEW q \in places, at(p) = at(q) PROVE p = q
  <2>1. PICK s \in Present : \E i \in 1..Len(Elements(slot[s])) : p = <<s, i>>
    BY <1>1
  <2>2. PICK i \in 1..Len(Elements(slot[s])) : p = <<s, i>>
    BY <2>1
  <2>3. PICK t \in Present : \E j \in 1..Len(Elements(slot[t])) : q = <<t, j>>
    BY <1>1
  <2>4. PICK j \in 1..Len(Elements(slot[t])) : q = <<t, j>>
    BY <2>3
  <2>5. at(p) = Elements(slot[s])[i] /\ at(q) = Elements(slot[t])[j]
    BY <1>2, <2>2, <2>4
  <2>6. at(p) \in Vals(Contents[s]) /\ at(q) \in Vals(Contents[t]) /\ s \in Slots /\ t \in Slots
    BY <1>3, <2>2, <2>4, <2>5
  <2>7. s = t
    BY <1>5, <2>6 DEF IInv, Divided
  <2>8. i = j
    <3>1. i \in DOMAIN Elements(slot[s]) /\ j \in DOMAIN Elements(slot[s])
      BY <1>3, <2>2, <2>4, <2>7
    <3> QED BY <1>3, <1>5, <2>5, <2>7, <3>1 DEF IsInjective
  <2> QED BY <2>2, <2>4, <2>7, <2>8
<1>6. alive = outside \cup {at(p) : p \in places}
  <2>1. ASSUME NEW x \in alive \ outside PROVE \E p \in places : x = at(p)
    <3>1. PICK s \in Slots : x \in Vals(Contents[s])
      BY DEF IInv, Divided
    <3>2. s \in Present
      BY <3>1, ContentsAre DEF Vals
    <3>3. PICK i \in 1..Len(Elements(slot[s])) : x = Elements(slot[s])[i]
      BY <1>3, <3>1, <3>2
    <3>4. <<s, i>> \in places /\ at(<<s, i>>) = x
      BY <1>1, <1>2, <3>2, <3>3
    <3> QED BY <3>4
  <2>2. outside \subseteq alive
    BY DEF IInv, Divided
  <2> QED BY <1>4, <2>1, <2>2
<1>7. TypeOK
  BY WellTyped
<1>8. \A u \in Units : ~unit[u].boxed =>
        /\ unit[u].destroyed # "again"
        /\ unit[u].holder = "caller" => unit[u].destroyed = "never"
  BY DEF IInv, UnitsKept, WellHeld
<1> QED BY <1>4, <1>5, <1>6, <1>7, <1>8 DEF OwnedOnce, places, at

(* The layout a container frees by is its capacity.                        *)
LEMMA BlocksAreOwned == ASSUME IInv PROVE BuffersOwned
<1>1. {s \in Present : slot[s].kind \notin Inline} = Heaped
  BY DEF Heaped
<1>2. \A s \in Heaped : Layout(slot[s]) = slot[s].cap
  BY LayoutIs DEF IInv, Heaped
<1> QED BY <1>1, <1>2 DEF IInv, Buffers, Backed, BuffersOwned

-----------------------------------------------------------------------------
(* Theorems *)

(* Every value of a type with a size is owned exactly once, whatever calls *)
(* are made: no push, pop, conversion, clone, truncation or drop destroys  *)
(* one twice, loses one or takes a cell that holds none for one.  A value  *)
(* of a type without a size is destroyed twice only if it was boxed, and   *)
(* until then is its caller's.                                             *)
THEOREM ContainersOwnedOnce == Spec => []OwnedOnce
<1>1. Init => IInv
  BY Initially
<1>2. IInv /\ [Next]_vars => IInv'
  BY Preserved
<1>3. IInv => OwnedOnce
  BY ValuesAreOwned
<1> QED BY <1>1, <1>2, <1>3, PTL DEF Spec

(* Every block belongs to one container and is freed by the layout it was  *)
(* allocated with: the assertion of into_boxed_slice makes the length the  *)
(* capacity, and no other call separates them where it matters.            *)
THEOREM ContainersBuffersOwned == Spec => []BuffersOwned
<1>1. Init => IInv
  BY Initially
<1>2. IInv /\ [Next]_vars => IInv'
  BY Preserved
<1>3. IInv => BuffersOwned
  BY BlocksAreOwned
<1> QED BY <1>1, <1>2, <1>3, PTL DEF Spec

(* The containers implement OwnedSequence: what comes out at either end,   *)
(* what is destroyed and what a clone holds is in the order it went in.    *)
THEOREM ContainersKeepOrder == Spec => KeepsOrder
<1>1. Init => IInv /\ Promise!Init
  BY Initially
<1>2. IInv /\ [Next]_vars => IInv' /\ [Promise!Next]_Promise!vars
  BY Preserved
<1> QED BY <1>1, <1>2, PTL DEF Spec, KeepsOrder, Promise!Spec
=============================================================================
