------------------------------- MODULE Reader -------------------------------
(***************************************************************************)
(* `Reader` (src/reader.rs): the bytes of a module, pulled chunk by chunk  *)
(* from a `WasmStream` (src/stream.rs) through a `CircularBuffer`          *)
(* (src/util/circular_buffer.rs), and read one at a time up to a limit.    *)
(*                                                                         *)
(* Byte number n of the binary is the value n.  A chunk is the number of   *)
(* its first byte and its length; it belongs to the stream and must be     *)
(* given back.  Everything else the reader offers (integers, names,        *)
(* vectors, skip) is a sequence of read_u8.                                *)
(*                                                                         *)
(* A definition marked `mutant` is the next definition with one plausible  *)
(* bug; no specification uses it (see README.md).                          *)
(***************************************************************************)
EXTENDS Integers, Sequences

CONSTANTS
  Capacity,     \* N of the CircularBuffer: 64
  UsizeMax,     \* usize::MAX
  MaxChunk,     \* the longest chunk the stream sends (a bound)
  MaxBytes,     \* bytes of the longest binary (a bound)
  MaxNest,      \* nested limits (a bound)
  Junk,         \* what an unwritten slot of the ring holds
  None          \* Option::None

ASSUME ReaderAssumption ==
  /\ Capacity \in Nat \ {0}
  /\ UsizeMax \in Nat /\ MaxChunk \in Nat /\ MaxBytes \in Nat /\ MaxNest \in Nat
  /\ MaxBytes < UsizeMax
  /\ Junk \notin Nat /\ None \notin [first : Nat, len : Nat]

VARIABLES
  ring,         \* CircularBuffer: items, start, size
  next,         \* the chunk being read, or None
  chunk_used,   \* bytes of it already copied into the ring
  full_offset,  \* bytes read so far
  limit,        \* where reads must stop
  outer,        \* the limits with_limit will restore
  last,         \* what the last call returned
  sent,         \* stream: bytes sent so far
  lent,         \* stream: chunks sent and not given back
  dropped       \* the reader has been dropped

source == <<ring, next, chunk_used, sent, lent>>
vars == <<source, full_offset, limit, outer, last, dropped>>

(* What a call returns: a byte, or "ok" or the name of an error. *)
Got(n) == [status |-> "byte", byte |-> n]
Answer(status) == [status |-> status, byte |-> 0]

-----------------------------------------------------------------------------
(* CircularBuffer *)

Slot(i) == (ring.start + i) % Capacity

(* After `push` of the n bytes that follow byte `first`: beyond Capacity   *)
(* a push overwrites the oldest element.                                   *)
Pushed(first, n) ==
  LET end == ring.size + n
      Into(j) == {i \in 0..(n - 1) : Slot(ring.size + i) = j}
      Newest(S) == CHOOSE i \in S : \A k \in S : k <= i
  IN [items |-> [j \in 0..(Capacity - 1) |->
                   IF Into(j) = {} THEN ring.items[j] ELSE first + Newest(Into(j))],
      start |-> IF end <= Capacity THEN ring.start ELSE Slot(end),
      size  |-> IF end <= Capacity THEN end ELSE Capacity]

pop_front(r) ==
  [items |-> r.items, start |-> (r.start + 1) % Capacity, size |-> r.size - 1]

front(r) == r.items[r.start]

-----------------------------------------------------------------------------
(* peek_u8 and fill_buffer, which is called with an empty ring: what they  *)
(* leave behind.  When the ring stays empty the call fails with `error`.   *)

Remaining == IF next = None THEN 0 ELSE next.len - chunk_used

to_copy_everything(n) == n                                          \* mutant
to_copy(n) == IF n <= Capacity THEN n ELSE Capacity

Outcome(r, chunk, used, more, given, error) ==
  [ring |-> r, next |-> chunk, chunk_used |-> used, sent |-> sent + more,
   lent |-> given, error |-> error]

(* Bytes are left in the chunk. *)
FromChunk ==
  Outcome(Pushed(next.first + chunk_used, to_copy(Remaining)), next,
          chunk_used + to_copy(Remaining), 0, lent, "none")

(* The chunk is given back; the stream sends another of n bytes, has no    *)
(* more, or breaks.                                                        *)
Returned_never == lent                                              \* mutant
Returned == IF next = None THEN lent ELSE lent - 1

NewChunk(n) ==
  Outcome(Pushed(sent, to_copy(n)), [first |-> sent, len |-> n],
          to_copy(n), n, Returned + 1, IF n = 0 THEN "Eof" ELSE "none")

NoChunk == Outcome(ring, None, 0, 0, Returned, "Eof")
Broken == Outcome(ring, None, chunk_used, 0, Returned, "ReaderError")

Peek ==
  IF ring.size > 0 THEN {Outcome(ring, next, chunk_used, 0, lent, "none")}
  ELSE IF Remaining > 0 THEN {FromChunk}
  ELSE {NewChunk(n) : n \in {k \in 0..MaxChunk : sent + k <= MaxBytes}}
         \cup {NoChunk, Broken}

(* The source after a call that peeked, and kept the ring r. *)
Take(p, r) ==
  /\ ring' = r
  /\ next' = p.next /\ chunk_used' = p.chunk_used
  /\ sent' = p.sent /\ lent' = p.lent

-----------------------------------------------------------------------------

read_u8 ==
  /\ \/ /\ full_offset >= limit
        /\ last' = Answer("Eof")
        /\ UNCHANGED <<source, full_offset>>
     \/ /\ full_offset < limit
        /\ \E p \in Peek :
             \/ /\ p.ring.size > 0
                /\ Take(p, pop_front(p.ring))
                /\ full_offset' = full_offset + 1
                /\ last' = Got(front(p.ring))
             \/ /\ p.ring.size = 0
                /\ Take(p, p.ring)
                /\ last' = Answer(p.error)
                /\ UNCHANGED full_offset
  /\ UNCHANGED <<limit, outer, dropped>>

(* expect_u8 looks at the next byte first, even past the limit; when it is *)
(* the expected one it is read like any other.                             *)
expect_u8_unlimited ==                                              \* mutant
  /\ \E p \in Peek :
       \/ /\ p.ring.size = 0
          /\ Take(p, p.ring)
          /\ last' = Answer(p.error)
          /\ UNCHANGED full_offset
       \/ /\ p.ring.size > 0
          /\ Take(p, p.ring)
          /\ last' = Answer("ExpectedTerminal")
          /\ UNCHANGED full_offset
       \/ /\ p.ring.size > 0
          /\ Take(p, pop_front(p.ring))
          /\ last' = Got(front(p.ring))
          /\ full_offset' = full_offset + 1
  /\ UNCHANGED <<limit, outer, dropped>>

expect_u8 ==
  /\ \E p \in Peek :
       \/ /\ p.ring.size = 0
          /\ Take(p, p.ring)
          /\ last' = Answer(p.error)
          /\ UNCHANGED full_offset
       \/ /\ p.ring.size > 0
          /\ Take(p, p.ring)
          /\ last' = Answer("ExpectedTerminal")
          /\ UNCHANGED full_offset
       \/ /\ p.ring.size > 0 /\ full_offset >= limit
          /\ Take(p, p.ring)
          /\ last' = Answer("Eof")
          /\ UNCHANGED full_offset
       \/ /\ p.ring.size > 0 /\ full_offset < limit
          /\ Take(p, pop_front(p.ring))
          /\ last' = Got(front(p.ring))
          /\ full_offset' = full_offset + 1
  /\ UNCHANGED <<limit, outer, dropped>>

(* with_limit(len, f), around the calls of f. *)
with_limit(len) ==
  LET new_limit == full_offset + len
  IN /\ Len(outer) < MaxNest
     /\ IF new_limit <= UsizeMax /\ new_limit <= limit
          THEN limit' = new_limit /\ outer' = Append(outer, limit) /\ last' = Answer("ok")
          ELSE last' = Answer("MalformedSectionSize") /\ UNCHANGED <<limit, outer>>
     /\ UNCHANGED <<source, full_offset, dropped>>

(* f returns, with a value or an error.                                    *)
end_limit ==
  /\ outer # <<>>
  /\ limit' = outer[Len(outer)]
  /\ outer' = SubSeq(outer, 1, Len(outer) - 1)
  /\ last' = Answer("ok")
  /\ UNCHANGED <<source, full_offset, dropped>>

drop ==
  /\ outer = <<>>
  /\ next' = None
  /\ lent' = Returned
  /\ dropped' = TRUE
  /\ UNCHANGED <<ring, chunk_used, full_offset, limit, outer, last, sent>>

Init ==
  /\ ring = [items |-> [j \in 0..(Capacity - 1) |-> Junk], start |-> 0, size |-> 0]
  /\ next = None /\ chunk_used = 0
  /\ full_offset = 0 /\ limit = UsizeMax /\ outer = <<>> /\ last = Answer("ok")
  /\ sent = 0 /\ lent = 0 /\ dropped = FALSE

Next ==
  /\ ~dropped
  /\ \/ read_u8
     \/ expect_u8
     \/ \E len \in 0..MaxBytes \cup {UsizeMax} : with_limit(len)
     \/ end_limit
     \/ drop

Spec == Init /\ [][Next]_vars

-----------------------------------------------------------------------------
(* Properties *)

Failure == {"Eof", "ReaderError", "ExpectedTerminal", "MalformedSectionSize"}

TypeOK ==
  /\ ring \in [items : [0..(Capacity - 1) -> Nat \cup {Junk}],
               start : 0..(Capacity - 1), size : 0..Capacity]
  /\ next \in [first : Nat, len : 0..MaxChunk] \cup {None}
  /\ chunk_used \in Nat /\ (next # None => chunk_used <= next.len)
  /\ full_offset \in Nat /\ limit \in 0..UsizeMax
  /\ outer \in Seq(0..UsizeMax)
  /\ last \in [status : Failure \cup {"byte", "ok"}, byte : Nat]
  /\ sent \in 0..MaxBytes /\ lent \in Nat
  /\ dropped \in BOOLEAN

(* The comment of fill_buffer: the ring is refilled only when it is empty,  *)
(* so nothing it holds is overwritten.  The bytes not yet read are, in      *)
(* order, those of the ring and those left in the chunk, and no others.     *)
NothingLost ==
  /\ TypeOK
  /\ \A i \in 0..(ring.size - 1) : ring.items[Slot(i)] = full_offset + i
  /\ ~dropped => full_offset + ring.size + Remaining = sent
  /\ Remaining > 0 => next.first + chunk_used = full_offset + ring.size

(* debug_assert of Chunk::drop: the stream gets every chunk back, once, and *)
(* before it is asked for the next one.                                     *)
ChunksComeBack == lent = (IF next = None THEN 0 ELSE 1) /\ (dropped => lent = 0)

(* The reader is a cursor over the bytes of the binary: a byte is returned  *)
(* in its place, once, and never from behind the end of the section or the  *)
(* function that is being read.                                             *)
AbstractCursor == INSTANCE Cursor WITH Errors <- Failure
IsACursor == AbstractCursor!Spec

=============================================================================
