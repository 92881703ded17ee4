------------------------------- MODULE Cursor -------------------------------
(***************************************************************************)
(* What a reader of a Wasm binary promises to the code that parses it: a   *)
(* position that moves forward by one byte at a time, never past the end   *)
(* of the section or function being parsed.  Chunks, the ring buffer and   *)
(* the stream behind them are invisible.  Byte number n is the value n.    *)
(***************************************************************************)
EXTENDS Integers, Sequences

CONSTANTS UsizeMax,      \* usize::MAX, the limit when there is none
          Errors         \* why a read may fail

VARIABLES full_offset,   \* bytes read so far
          limit,         \* where the innermost section or function ends
          outer,         \* the limits of the enclosing ones, innermost last
          last           \* what the last call returned: see Got and Answer

vars == <<full_offset, limit, outer, last>>

(* What a call returns: a byte, or "ok" or the name of an error. *)
Got(n) == [status |-> "byte", byte |-> n]
Answer(status) == [status |-> status, byte |-> 0]

Init == full_offset = 0 /\ limit = UsizeMax /\ outer = <<>> /\ last = Answer("ok")

Read ==
  /\ full_offset < limit
  /\ full_offset' = full_offset + 1
  /\ last' = Got(full_offset)
  /\ UNCHANGED <<limit, outer>>

Fail == last' \in {Answer(e) : e \in Errors} /\ UNCHANGED <<full_offset, limit, outer>>

Enter ==
  /\ \E end \in full_offset..limit :
        limit' = end /\ outer' = Append(outer, limit)
  /\ last' = Answer("ok")
  /\ UNCHANGED full_offset

Leave ==
  /\ outer # <<>>
  /\ limit' = outer[Len(outer)]
  /\ outer' = SubSeq(outer, 1, Len(outer) - 1)
  /\ last' = Answer("ok")
  /\ UNCHANGED full_offset

Next == Read \/ Fail \/ Enter \/ Leave

Spec == Init /\ [][Next]_vars

=============================================================================
