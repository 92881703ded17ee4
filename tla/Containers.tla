----------------------------- MODULE Containers -----------------------------
(***************************************************************************)
(* The containers of src/util: Vec and its IntoIter (vec.rs, inner_vec.rs),*)
(* boxed values and boxed slices (box_.rs), String (string.rs) and         *)
(* StaticVec with its iterator (static_vec.rs).                            *)
(*                                                                         *)
(* They move values with ptr::read and ptr::write, so nothing but the      *)
(* indices they keep tells which cells of a buffer hold a value and who    *)
(* must destroy it.  A value is a token; a cell whose value was read out   *)
(* of it is as good as never written (Uninit).  An allocation may always   *)
(* be refused: where the code returns the error before changing anything   *)
(* the step is left out.                                                   *)
(***************************************************************************)
EXTENDS Integers, Sequences, SequencesExt

CONSTANTS
  Slots,        \* places for containers (a bound)
  Tokens,       \* values in existence at a time (a bound)
  ValueOf,      \* what a clone of a token equals
  Utf8,         \* the sequences of values from_utf8 accepts
  Blocks,       \* addresses of blocks the allocator may return (a bound)
  MaxCapacity,  \* capacity asked for (a bound)
  N,            \* StaticVec<T, N>
  Units,        \* values of a type without a size, in existence at a time (a bound)
  Null, Free, Uninit, Absent

Inline == {"static", "static_into_iter"}
Kinds == {"vec", "into_iter", "slice", "box", "raw"} \cup Inline

ASSUME ContainersAssumption ==
  /\ MaxCapacity \in Nat /\ N \in Nat
  /\ Null \notin Blocks /\ Uninit \notin Tokens
  /\ {Free, Absent} \cap Seq(Tokens \cup {Uninit}) = {}
  /\ Absent \notin [kind : Kinds, ptr : Blocks \cup {Null}, cap : Nat, lo : Nat, hi : Nat,
                    data : Seq(Tokens \cup {Uninit})]

VARIABLES
  slot,      \* each container: its record, or Absent
  heap,      \* the cells of each block of the allocator, or Free
  outside,   \* values owned by callers
  alive,     \* values created and not destroyed
  panicked,  \* an assertion of the containers stopped the process
  unit       \* each zero-sized value: who holds it, whether it was ever put in a box, how often destroyed

sized == <<slot, heap, outside, alive, panicked>>
vars == <<sized, unit>>

Present == {s \in Slots : slot[s] # Absent}

Cells(c) == IF c.kind \in Inline THEN c.data ELSE IF c.ptr = Null THEN <<>> ELSE heap[c.ptr]
Elements(c) == SubSeq(Cells(c), c.lo + 1, c.hi)
Values(ts) == [i \in 1..Len(ts) |-> ValueOf[ts[i]]]

(* What each container is to its user. *)
Contents == [s \in Slots |-> IF slot[s] = Absent THEN Absent ELSE Elements(slot[s])]

Promise == INSTANCE OwnedSequence WITH contents <- Contents

Blank(n) == [i \in 1..n |-> Uninit]
Filled(ts, n) == [i \in 1..n |-> IF i <= Len(ts) THEN ts[i] ELSE Uninit]
Unused == {b \in Blocks : heap[b] = Free}

(* The number of cells of the layout a container frees its block with.     *)
Layout(c) == CASE c.kind \in {"vec", "into_iter"} -> c.cap
               [] c.kind = "slice" -> c.hi
               [] c.kind \in {"box", "raw"} -> 1
               [] OTHER -> 0

InnerVec(ptr, cap, len) ==
  [kind |-> "vec", ptr |-> ptr, cap |-> cap, lo |-> 0, hi |-> len, data |-> <<>>]
Boxed(ptr) == [InnerVec(ptr, 1, 1) EXCEPT !.kind = "box"]
StaticVec(ts) ==
  [kind |-> "static", ptr |-> Null, cap |-> N, lo |-> 0, hi |-> Len(ts), data |-> Filled(ts, N)]

(* Cell i of the container in s becomes x; its record becomes c. *)
SetCell(s, c, i, x) ==
  IF c.kind \in Inline
    THEN slot' = [slot EXCEPT ![s] = [c EXCEPT !.data[i] = x]] /\ UNCHANGED heap
    ELSE /\ slot' = [slot EXCEPT ![s] = c]
         /\ heap' = [heap EXCEPT ![c.ptr] = [@ EXCEPT ![i] = x]]

dealloc(c) ==
  IF c.kind \in Inline \/ Layout(c) = 0 THEN UNCHANGED heap
  ELSE heap' = [heap EXCEPT ![c.ptr] = Free]

(* The destructors of the values ts run. *)
destroyed(ts) == alive' = alive \ ToSet(ts)

-----------------------------------------------------------------------------
(* Callers *)

make(t) ==
  /\ t \notin alive /\ alive' = alive \cup {t} /\ outside' = outside \cup {t}
  /\ UNCHANGED <<slot, heap, panicked>>

discard(t) ==
  /\ t \in outside /\ outside' = outside \ {t} /\ destroyed(<<t>>)
  /\ UNCHANGED <<slot, heap, panicked>>

-----------------------------------------------------------------------------
(* Vec *)

(* A capacity of 0 allocates nothing; otherwise the block is one of Unused.*)
new_in(s, cap) ==
  /\ s \notin Present
  /\ \/ /\ cap = 0 /\ slot' = [slot EXCEPT ![s] = InnerVec(Null, 0, 0)]
        /\ UNCHANGED heap
     \/ /\ cap > 0
        /\ \E b \in Unused : /\ slot' = [slot EXCEPT ![s] = InnerVec(b, cap, 0)]
                             /\ heap' = [heap EXCEPT ![b] = Blank(cap)]
  /\ UNCHANGED <<outside, alive, panicked>>

(* Vec::from_exact_iter, from_array, and String::try_from(&str): when the  *)
(* buffer is refused, the iterator is dropped with the values it holds.    *)
from_exact_iter(s, ts) ==
  LET n == Len(ts)
  IN /\ s \notin Present /\ outside' = outside \ ToSet(ts)
     /\ \/ /\ \E b \in Unused : /\ slot' = [slot EXCEPT ![s] = InnerVec(b, n, n)]
                                /\ heap' = [heap EXCEPT ![b] = ts]
           /\ UNCHANGED alive
        \/ destroyed(ts) /\ UNCHANGED <<slot, heap>>
     /\ UNCHANGED panicked

(* The value is owned by the call whatever it returns: a full container    *)
(* destroys it.                                                            *)
write(s, t) ==
  LET c == slot[s]
  IN /\ outside' = outside \ {t} /\ UNCHANGED panicked
     /\ IF c.hi < c.cap
          THEN SetCell(s, [c EXCEPT !.hi = @ + 1], c.hi + 1, t) /\ UNCHANGED alive
          ELSE destroyed(<<t>>) /\ UNCHANGED <<slot, heap>>

read_last(s) ==
  LET c == slot[s]
  IN /\ SetCell(s, [c EXCEPT !.hi = @ - 1], c.hi, Uninit)
     /\ outside' = outside \cup {Cells(c)[c.hi]}
     /\ UNCHANGED <<alive, panicked>>

read_first(s) ==
  LET c == slot[s]
  IN /\ SetCell(s, [c EXCEPT !.lo = @ + 1], c.lo + 1, Uninit)
     /\ outside' = outside \cup {Cells(c)[c.lo + 1]}
     /\ UNCHANGED <<alive, panicked>>

Is(s, kind) == s \in Present /\ slot[s].kind = kind
Some(s) == slot[s].lo # slot[s].hi

try_push(s, t) == Is(s, "vec") /\ t \in outside /\ write(s, t)

(* Vec::push panics where try_push returns an error. *)
push(s, t) ==
  /\ Is(s, "vec") /\ t \in outside
  /\ IF slot[s].hi < slot[s].cap THEN write(s, t)
     ELSE panicked' = TRUE /\ UNCHANGED <<slot, heap, outside, alive>>

pop(s) == Is(s, "vec") /\ slot[s].hi > 0 /\ read_last(s)

into_boxed_slice_of_any(s) ==                                       \* mutant
  LET c == slot[s]
  IN /\ Is(s, "vec")
     /\ slot' = [slot EXCEPT ![s].kind = "slice"]
     /\ UNCHANGED <<heap, outside, alive, panicked>>

(* The slice frees its block by its length: the length must be the         *)
(* capacity, which the code asserts.                                       *)
into_boxed_slice(s) ==
  LET c == slot[s]
  IN /\ Is(s, "vec")
     /\ IF c.cap = c.hi
          THEN slot' = [slot EXCEPT ![s].kind = "slice"] /\ UNCHANGED panicked
          ELSE panicked' = TRUE /\ UNCHANGED slot
     /\ UNCHANGED <<heap, outside, alive>>

(* The iterator keeps the buffer. *)
into_iter(s) ==
  /\ Is(s, "vec") /\ slot' = [slot EXCEPT ![s].kind = "into_iter"]
  /\ UNCHANGED <<heap, outside, alive, panicked>>

next(s) == Is(s, "into_iter") /\ Some(s) /\ read_first(s)

next_back(s) == Is(s, "into_iter") /\ Some(s) /\ read_last(s)

-----------------------------------------------------------------------------
(* Box *)

(* A value with a size.  A refused allocation drops the value. *)
new_box(s, t) ==
  /\ s \notin Present /\ t \in outside /\ outside' = outside \ {t}
  /\ \/ /\ \E b \in Unused : /\ slot' = [slot EXCEPT ![s] = Boxed(b)]
                             /\ heap' = [heap EXCEPT ![b] = <<t>>]
        /\ UNCHANGED alive
     \/ destroyed(<<t>>) /\ UNCHANGED <<slot, heap>>
  /\ UNCHANGED panicked

into_inner(s) ==
  LET c == slot[s]
  IN /\ Is(s, "box")
     /\ outside' = outside \cup {Cells(c)[1]} /\ dealloc(c)
     /\ slot' = [slot EXCEPT ![s] = Absent]
     /\ UNCHANGED <<alive, panicked>>

(* Box::leak gives a pointer that owns the value until from_raw. *)
leak(s) ==
  /\ Is(s, "box")
  /\ slot' = [slot EXCEPT ![s].kind = "raw"]
  /\ UNCHANGED <<heap, outside, alive, panicked>>

from_raw(s) ==
  /\ Is(s, "raw")
  /\ slot' = [slot EXCEPT ![s].kind = "box"]
  /\ UNCHANGED <<heap, outside, alive, panicked>>

-----------------------------------------------------------------------------
(* A value of a type without a size, in a Box.  The box needs no block,    *)
(* and Box::new_in, which moves a value with a size into its block, leaves *)
(* this one where it is: the value is destroyed when the call returns, and *)
(* the box holds it all the same.  Vec refuses such types.                 *)

DestroyedAgain(u) == IF unit[u].destroyed = "never" THEN "once" ELSE "again"

unit_ends(u, from) ==
  /\ unit[u].holder = from
  /\ unit' = [unit EXCEPT ![u] = [@ EXCEPT !.holder = "none", !.destroyed = DestroyedAgain(u)]]

unit_moves(u, from, to) == unit[u].holder = from /\ unit' = [unit EXCEPT ![u].holder = to]

make_unit(u) ==
  /\ unit[u].holder = "none"
  /\ unit' = [unit EXCEPT ![u] = [holder |-> "caller", boxed |-> FALSE, destroyed |-> "never"]]

discard_unit(u) == unit_ends(u, "caller")

new_box_unit(u) ==
  /\ unit[u].holder = "caller"
  /\ unit' = [unit EXCEPT ![u] =
                [holder |-> "box", boxed |-> TRUE, destroyed |-> DestroyedAgain(u)]]

(* ptr::read of the pointer, which was never written: the caller has the   *)
(* value back.                                                             *)
into_inner_unit(u) == unit_moves(u, "box", "caller")

leak_unit(u) == unit_moves(u, "box", "raw")

from_raw_unit(u) == unit_moves(u, "raw", "box")

drop_box_unit(u) == unit_ends(u, "box")

(* The clone v is a value of its own, which Box::new_in is given. *)
try_clone_unit(u, v) ==
  /\ unit[u].holder = "box" /\ unit[v].holder = "none"
  /\ unit' = [unit EXCEPT ![v] = [holder |-> "box", boxed |-> TRUE, destroyed |-> "once"]]

-----------------------------------------------------------------------------
(* Clones: T::clone makes new values, in order.                            *)

Clones(ts) ==
  {f \in [1..Len(ts) -> Tokens \ alive] : IsInjective(f) /\ Values(f) = Values(ts)}

(* The record of the clone, on block b. *)
Cloned(c, b) ==
  CASE c.kind = "vec" -> InnerVec(b, c.cap, c.hi)
    [] c.kind = "slice" -> [InnerVec(b, c.hi, c.hi) EXCEPT !.kind = "slice"]
    [] c.kind = "box" -> Boxed(b)

try_clone_backwards(s, d) ==                                        \* mutant
  LET c == slot[s]
  IN /\ s \in Present /\ d \notin Present /\ c.kind \in {"vec", "slice", "box"}
     /\ \E ts \in Clones(Reverse(Elements(c))) :
          /\ alive' = alive \cup ToSet(ts)
          /\ IF Layout(c) = 0 THEN slot' = [slot EXCEPT ![d] = Cloned(c, Null)] /\ UNCHANGED heap
             ELSE \E b \in Unused : /\ slot' = [slot EXCEPT ![d] = Cloned(c, b)]
                                    /\ heap' = [heap EXCEPT ![b] = Filled(ts, Layout(c))]
     /\ UNCHANGED <<outside, panicked>>

(* Vec, boxed slice and Box: a Vec keeps its capacity.  Without a block    *)
(* the Box drops the clone it made, and nothing has changed.               *)
try_clone(s, d) ==
  LET c == slot[s]
  IN /\ s \in Present /\ d \notin Present /\ c.kind \in {"vec", "slice", "box"}
     /\ \E ts \in Clones(Elements(c)) :
          /\ alive' = alive \cup ToSet(ts)
          /\ IF Layout(c) = 0 THEN slot' = [slot EXCEPT ![d] = Cloned(c, Null)] /\ UNCHANGED heap
             ELSE \E b \in Unused : /\ slot' = [slot EXCEPT ![d] = Cloned(c, b)]
                                    /\ heap' = [heap EXCEPT ![b] = Filled(ts, Layout(c))]
     /\ UNCHANGED <<outside, panicked>>

-----------------------------------------------------------------------------
(* StaticVec *)

new_static(s) ==
  /\ s \notin Present /\ slot' = [slot EXCEPT ![s] = StaticVec(<<>>)]
  /\ UNCHANGED <<heap, outside, alive, panicked>>

push_static(s, t) == Is(s, "static") /\ t \in outside /\ write(s, t)

pop_static(s) == Is(s, "static") /\ slot[s].hi > 0 /\ read_last(s)

into_iter_static(s) ==
  /\ Is(s, "static") /\ slot' = [slot EXCEPT ![s].kind = "static_into_iter"]
  /\ UNCHANGED <<heap, outside, alive, panicked>>

next_static(s) == Is(s, "static_into_iter") /\ Some(s) /\ read_first(s)

clone_static(s, d) ==
  /\ Is(s, "static") /\ d \notin Present
  /\ \E ts \in Clones(Elements(slot[s])) :
       alive' = alive \cup ToSet(ts) /\ slot' = [slot EXCEPT ![d] = StaticVec(ts)]
  /\ UNCHANGED <<heap, outside, panicked>>

truncate_leaking(s, n) ==                                           \* mutant
  /\ Is(s, "static") /\ n <= slot[s].hi
  /\ slot' = [slot EXCEPT ![s] = StaticVec(SubSeq(@.data, 1, n))]
  /\ UNCHANGED <<heap, outside, alive, panicked>>

truncate(s, n) ==
  LET c == slot[s]
  IN /\ Is(s, "static")
     /\ IF n <= c.hi
          THEN /\ slot' = [slot EXCEPT ![s] = StaticVec(SubSeq(c.data, 1, n))]
               /\ destroyed(SubSeq(c.data, n + 1, c.hi)) /\ UNCHANGED panicked
          ELSE panicked' = TRUE /\ UNCHANGED <<slot, alive>>
     /\ UNCHANGED <<heap, outside>>

-----------------------------------------------------------------------------
(* Drop: the remaining elements, and then the block.  A leaked pointer is  *)
(* no container and is not dropped.                                        *)
released(s) ==
  /\ destroyed(Elements(slot[s])) /\ dealloc(slot[s])
  /\ slot' = [slot EXCEPT ![s] = Absent]
  /\ UNCHANGED <<outside, panicked>>

drop_vec(s) == Is(s, "vec") /\ released(s)

drop_into_iter(s) == Is(s, "into_iter") /\ released(s)

drop_box(s) == (Is(s, "box") \/ Is(s, "slice")) /\ released(s)

drop_static(s) == Is(s, "static") /\ released(s)

drop_static_into_iter(s) == Is(s, "static_into_iter") /\ released(s)

(* String::try_from(Vec<u8>) consumes the vector either way. *)
string_try_from(s) ==
  /\ Is(s, "vec")
  /\ IF Values(Elements(slot[s])) \in Utf8 THEN into_boxed_slice(s) ELSE released(s)

-----------------------------------------------------------------------------
Init ==
  /\ slot = [s \in Slots |-> Absent] /\ heap = [b \in Blocks |-> Free]
  /\ outside = {} /\ alive = {} /\ panicked = FALSE
  /\ unit = [u \in Units |-> [holder |-> "none", boxed |-> FALSE, destroyed |-> "never"]]

(* Sequences of values a caller may hand over at once. *)
Given == {ts \in UNION {[1..n -> outside] : n \in 1..MaxCapacity} : IsInjective(ts)}

Sized ==
  \/ \E t \in Tokens : make(t) \/ discard(t)
  \/ \E s \in Slots, cap \in 0..MaxCapacity : new_in(s, cap)
  \/ \E s \in Slots, ts \in Given : from_exact_iter(s, ts)
  \/ \E s \in Slots, t \in Tokens :
       try_push(s, t) \/ push(s, t) \/ new_box(s, t) \/ push_static(s, t)
  \/ \E s \in Slots :
       \/ pop(s) \/ into_boxed_slice(s) \/ into_iter(s) \/ next(s) \/ next_back(s)
       \/ into_inner(s) \/ leak(s) \/ from_raw(s)
       \/ new_static(s) \/ pop_static(s) \/ into_iter_static(s) \/ next_static(s)
       \/ drop_vec(s) \/ drop_into_iter(s) \/ drop_box(s)
       \/ drop_static(s) \/ drop_static_into_iter(s)
       \/ string_try_from(s)
  \/ \E s \in Slots, n \in 0..N + 1 : truncate(s, n)
  \/ \E s, d \in Slots : try_clone(s, d) \/ clone_static(s, d)

ZeroSized ==
  \/ \E u \in Units :
       \/ make_unit(u) \/ discard_unit(u) \/ new_box_unit(u) \/ into_inner_unit(u)
       \/ leak_unit(u) \/ from_raw_unit(u) \/ drop_box_unit(u)
  \/ \E u, v \in Units : try_clone_unit(u, v)

Next ==
  /\ ~panicked
  /\ \/ Sized /\ UNCHANGED unit
     \/ ZeroSized /\ UNCHANGED sized

Spec == Init /\ [][Next]_vars

-----------------------------------------------------------------------------
(* Properties *)

(* The state has its type: indices stay inside the capacity, which is that *)
(* of the buffer the container points to.                                  *)
TypeOK ==
  /\ \A s \in Present : LET c == slot[s] IN
       /\ c.kind \in Kinds /\ c.ptr \in Blocks \cup {Null}
       /\ 0 <= c.lo /\ c.lo <= c.hi /\ c.hi <= c.cap
       /\ c.kind \in Inline => Len(c.data) = N
  /\ \A b \in Blocks : heap[b] = Free \/ heap[b] \in Seq(Tokens \cup {Uninit})
  /\ outside \subseteq Tokens /\ alive \subseteq Tokens /\ panicked \in BOOLEAN
  /\ unit \in [Units -> [holder : {"none", "caller", "box", "raw"}, boxed : BOOLEAN,
                         destroyed : {"never", "once", "again"}]]

(* Every value with a size that exists is owned exactly once, by a caller  *)
(* or by one container at one index: none is destroyed twice or lost, and  *)
(* no cell that holds no value is ever taken for one (ptr::read and        *)
(* drop_in_place in vec.rs, box_.rs and static_vec.rs).  A value without a *)
(* size is destroyed twice only if it was put in a box, which              *)
(* Box::new_in makes possible (box_.rs 82); until then its caller owns it. *)
OwnedOnce ==
  LET places == UNION {{<<s, i>> : i \in 1..Len(Elements(slot[s]))} : s \in Present}
      at(p) == Elements(slot[p[1]])[p[2]]
  IN /\ TypeOK
     /\ \A p \in places : at(p) \in alive \ outside
     /\ \A p, q \in places : at(p) = at(q) => p = q
     /\ alive = outside \cup {at(p) : p \in places}
     /\ \A u \in Units : ~unit[u].boxed =>
          /\ unit[u].destroyed # "again"
          /\ unit[u].holder = "caller" => unit[u].destroyed = "never"

(* Every allocated block belongs to one container, which will free it with *)
(* the layout it was allocated with; a container without one frees none.   *)
(* This is what the conversions between Vec, IntoIter and Box<[T]> must    *)
(* keep, each of which frees by another field (vec.rs 290, 326 and 427,    *)
(* box_.rs 179).                                                           *)
BuffersOwned ==
  LET heaped == {s \in Present : slot[s].kind \notin Inline}
  IN /\ \A s \in heaped : LET c == slot[s] IN
          IF Layout(c) = 0 THEN c.ptr = Null
          ELSE c.ptr \in Blocks /\ heap[c.ptr] # Free /\ Len(heap[c.ptr]) = Layout(c)
     /\ \A s, t \in heaped : s # t /\ slot[s].ptr # Null => slot[s].ptr # slot[t].ptr
     /\ \A b \in Blocks : heap[b] # Free => \E s \in heaped : slot[s].ptr = b

(* The containers implement sequences that own their elements: what comes  *)
(* out of pop, next and next_back, what truncate and drop destroy and what *)
(* a clone holds is what OwnedSequence says, in its order.                 *)
KeepsOrder == Promise!Spec
=============================================================================
