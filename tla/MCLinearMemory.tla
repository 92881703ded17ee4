--------------------------- MODULE MCLinearMemory ---------------------------
(* m1 defines memory A, m2 imports it, m3 imports the memory H of a host   *)
(* module, m4 has none.  m5 asks for more than A starts with.              *)
EXTENDS LinearMemory, TLC

CONSTANTS m1, m2, m3, m4, m5, A, H

MemoryOfModules == [m \in {m1, m2, m3, m4, m5} |->
  CASE m \in {m1, m2, m5} -> A [] m = m3 -> H [] m = m4 -> NoMemory]
Owners == [o \in {A, H} |-> IF o = A THEN m1 ELSE Embedder]

MemType(min, max, page) == [min |-> min, max |-> max, page |-> page]
Types == [o \in {A, H} |-> IF o = A THEN MemType(1, 2, 2) ELSE MemType(0, Unbounded, 1)]
ImportTypes == [m \in {m1, m2, m3, m4, m5} |->
  CASE m \in {m1, m2} -> MemType(1, 2, 2)
    [] m = m5 -> MemType(2, 2, 2)
    [] m \in {m3, m4} -> MemType(0, Unbounded, 1)]

AccessWidths == {<<1, 2>>, <<2, 2>>}

(* The last access is read by no action: states that differ only in it are *)
(* one, while the properties still see every step with its access.         *)
StateView == <<mem, block, count, store, loaded, load, engine, module, held, panicked>>
BlockSymmetry == Permutations(Blocks)
=============================================================================
