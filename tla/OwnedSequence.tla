---------------------------- MODULE OwnedSequence ----------------------------
(***************************************************************************)
(* What the containers of src/util promise to their users: each is a       *)
(* sequence that owns its elements.  An element is put in by a caller that *)
(* gives it away, comes out at one of the ends or is destroyed, once, with *)
(* its container; a clone holds new elements of the same values in the     *)
(* same order.  Buffers, capacities and spare cells are invisible.         *)
(***************************************************************************)
EXTENDS Integers, Sequences, SequencesExt

CONSTANTS Slots,      \* places for containers
          Tokens,     \* the elements
          ValueOf,    \* the value of an element, which a clone shares
          Absent      \* the content of a place without a container

VARIABLES contents,   \* the elements of each container, in order
          outside     \* the elements owned by callers

vars == <<contents, outside>>

Owned == outside \cup UNION {ToSet(contents[s]) : s \in {t \in Slots : contents[t] # Absent}}
Becomes(s, new) == contents' = [contents EXCEPT ![s] = new]

Make(t) == t \notin Owned /\ outside' = outside \cup {t} /\ UNCHANGED contents
Discard(ts) == ts \subseteq outside /\ outside' = outside \ ts /\ UNCHANGED contents

Create(s, ts) ==
  /\ contents[s] = Absent /\ Becomes(s, ts)
  /\ ts \in Seq(outside) /\ IsInjective(ts) /\ outside' = outside \ ToSet(ts)

Append1(s, t) ==
  /\ contents[s] # Absent /\ Becomes(s, Append(contents[s], t))
  /\ t \in outside /\ outside' = outside \ {t}

TakeFirst(s) ==
  /\ contents[s] # Absent /\ contents[s] # <<>> /\ Becomes(s, Tail(contents[s]))
  /\ outside' = outside \cup {Head(contents[s])}

TakeLast(s) ==
  /\ contents[s] # Absent /\ contents[s] # <<>> /\ Becomes(s, Front(contents[s]))
  /\ outside' = outside \cup {Last(contents[s])}

Unwrap(s) ==
  /\ contents[s] # Absent /\ Becomes(s, Absent)
  /\ outside' = outside \cup ToSet(contents[s])

Truncate(s, n) ==
  /\ contents[s] # Absent /\ n <= Len(contents[s])
  /\ Becomes(s, SubSeq(contents[s], 1, n)) /\ UNCHANGED outside

Clone(s, d) ==
  /\ contents[s] # Absent /\ contents[d] = Absent
  /\ LET n == Len(contents[s])
     IN \E ts \in [1..n -> Tokens \ Owned] :
          /\ IsInjective(ts)
          /\ \A i \in 1..n : ValueOf[ts[i]] = ValueOf[contents[s][i]]
          /\ Becomes(d, ts)
  /\ UNCHANGED outside

Destroy(s) == contents[s] # Absent /\ Becomes(s, Absent) /\ UNCHANGED outside

Init == contents = [s \in Slots |-> Absent] /\ outside = {}

Next ==
  \/ \E t \in Tokens : Make(t)
  \/ \E ts \in SUBSET outside : Discard(ts)
  \/ \E s \in Slots : contents'[s] # Absent /\ Create(s, contents'[s])
  \/ \E s \in Slots, t \in Tokens : Append1(s, t)
  \/ \E s \in Slots : TakeFirst(s) \/ TakeLast(s) \/ Unwrap(s) \/ Destroy(s)
  \/ \E s \in Slots : contents[s] # Absent /\ \E n \in 0..Len(contents[s]) : Truncate(s, n)
  \/ \E s, d \in Slots : Clone(s, d)

Spec == Init /\ [][Next]_vars
=============================================================================
