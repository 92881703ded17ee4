-------------------------- MODULE MCPageAllocator ---------------------------
(* Two buckets of 6-byte pages, at bases of different alignments; one request
   that no page can hold. *)
EXTENDS PageAllocator
MCLayouts == {[size |-> 1, align |-> 1], [size |-> 2, align |-> 2],
              [size |-> 3, align |-> 4], [size |-> 7, align |-> 1]}
=============================================================================
