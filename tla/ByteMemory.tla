----------------------------- MODULE ByteMemory -----------------------------
(***************************************************************************)
(* What a linear memory promises to the modules that share it: an array of *)
(* bytes that starts as zeros, that only grows, by zeros, and in which a   *)
(* write changes the bytes it addresses and no others.  Allocators, blocks *)
(* of the heap, reference counts and the engine's cached reference are     *)
(* invisible, and so is an access that is refused.                         *)
(***************************************************************************)
EXTENDS Integers, Sequences

CONSTANTS Memories,   \* the linear memories
          PageSize,   \* bytes of a page of each memory
          Radix,      \* a byte is a number below Radix
          Absent      \* the content of a memory that does not exist

VARIABLES bytes,      \* the content of each memory
          last        \* the last access, see Loaded, Stored, Grown and Sized

vars == <<bytes, last>>

Nothing == [op |-> "none"]
Loaded(o, at, n, w, signed, word) ==
  [op |-> "load", memory |-> o, at |-> at, n |-> n, w |-> w, signed |-> signed,
   word |-> word]
Stored(o, at, n, word) ==
  [op |-> "store", memory |-> o, at |-> at, n |-> n, word |-> word]
Grown(o, pages, old) == [op |-> "grow", memory |-> o, pages |-> pages, old |-> old]

Sized(o, pages) == [op |-> "size", memory |-> o, pages |-> pages]

(* Radix^n: as many numbers have n bytes. *)
Power[n \in Nat] == IF n = 0 THEN 1 ELSE Radix * Power[n - 1]

(* The number of the bytes s, the least significant first. *)
Number(s) ==
  LET number[n \in 0..Len(s)] ==
        IF n = 0 THEN 0 ELSE number[n - 1] + s[n] * Power[n - 1]
  IN number[Len(s)]

(* A number of n bytes read as two's complement. *)
Signed(x, n) == IF 2 * x >= Power[n] THEN x - Power[n] ELSE x

Zeros(n) == [i \in 1..n |-> 0]
Exists(o) == bytes[o] # Absent
Part(s, at, n) == SubSeq(s, at + 1, at + n)

(* The word of w bytes that stands for the n bytes at the address. *)
Load ==
  LET s == Part(bytes[last'.memory], last'.at, last'.n)
  IN /\ Exists(last'.memory) /\ Len(s) = last'.n
     /\ IF last'.signed
          THEN Signed(last'.word, last'.w) = Signed(Number(s), last'.n)
          ELSE last'.word = Number(s)
     /\ UNCHANGED bytes

(* Other memories, and the bytes before and after, are as they were. *)
Store ==
  LET o == last'.memory
      Outside == {i \in DOMAIN bytes[o] : i <= last'.at \/ i > last'.at + last'.n}
  IN /\ Exists(o) /\ last'.at + last'.n <= Len(bytes[o])
     /\ \A p \in Memories \ {o} : bytes'[p] = bytes[p]
     /\ Len(bytes'[o]) = Len(bytes[o])
     /\ \A i \in Outside : bytes'[o][i] = bytes[o][i]
     /\ Number(Part(bytes'[o], last'.at, last'.n)) = last'.word % Power[last'.n]

(* Growing answers the old size, in pages. *)
Grow ==
  LET o == last'.memory
  IN /\ Exists(o) /\ last'.old * PageSize[o] = Len(bytes[o])
     /\ bytes' = [bytes EXCEPT ![o] = @ \o Zeros(last'.pages * PageSize[o])]

Size ==
  LET o == last'.memory
  IN Exists(o) /\ last'.pages * PageSize[o] = Len(bytes[o]) /\ UNCHANGED bytes

(* Memories appear with zeros, and disappear with their last user.         *)
Create ==
  /\ last' = Nothing
  /\ \E o \in Memories :
       /\ ~Exists(o) /\ Exists(o)'
       /\ bytes' = [bytes EXCEPT ![o] = Zeros(Len(bytes'[o]))]

Release ==
  /\ last' = Nothing
  /\ \A o \in Memories : bytes'[o] \in {bytes[o], Absent}

Next ==
  \/ last'.op = "load" /\ Load
  \/ last'.op = "store" /\ Store
  \/ last'.op = "grow" /\ Grow
  \/ last'.op = "size" /\ Size
  \/ Create
  \/ Release

Init ==
  /\ \A o \in Memories : Exists(o) => bytes[o] = Zeros(Len(bytes[o]))
  /\ last = Nothing

Spec == Init /\ [][Next]_vars

=============================================================================
