---------------------------- MODULE MCContainers ----------------------------
EXTENDS Containers, TLC

CONSTANTS a1, a2, b1, b2, u1, u2

Letters == [t \in Tokens |-> IF t \in {a1, a2} THEN "a" ELSE "b"]
(* "b" continues a character: it may not come first. *)
ValidText == {<<>>, <<"a">>, <<"a", "a">>, <<"a", "b">>}

Symmetric == Permutations(Slots) \cup Permutations(Blocks)
             \cup Permutations({a1, a2}) \cup Permutations({b1, b2})
             \cup Permutations(Units)

(* A bound: zero-sized values come and go while no other value exists.     *)
(* The two kinds share no state and no guard but ~panicked.                *)
UnitsApart ==
  \/ \A u \in Units : unit[u].destroyed = "never" /\ unit[u].holder = "none"
  \/ Present = {} /\ alive = {}
=============================================================================
