---------------------------- MODULE PageAllocator ----------------------------
(***************************************************************************)
(* The paged heap: `PageAllocator` (src/util/paging.rs).  Blocks are cut   *)
(* one after another from the tail of fixed-size pages, in the first page  *)
(* with room; a page goes back to the backing allocator when its last      *)
(* block is freed.  The first free poisons the heap: nothing more is       *)
(* allocated until every block is gone.                                    *)
(*                                                                         *)
(* A call that fails (HeapPoisoned, PageTooSmall, OutOfMemory, a zero size,*)
(* an error of the backing allocator) changes nothing and is not a step.   *)
(* The callers free each live block at most once, with its own address.    *)
(***************************************************************************)
EXTENDS Integers, FiniteSets, FiniteSetsExt

CONSTANTS
  MAX_PAGES,   \* buckets of the heap
  page_size,
  Bases,       \* the addresses the backing allocator hands out for a page
  Layouts,     \* the requests: [size, align : Nat \ {0}]
  None         \* Option::None

Buckets == 1..MAX_PAGES
Page == [ptr : Bases, allocated : 0..page_size, n_allocations : Nat, wasted : Nat]

ASSUME HeapAssumption ==
  /\ MAX_PAGES \in Nat /\ page_size \in Nat \ {0}
  /\ Layouts \subseteq [size : Nat \ {0}, align : Nat \ {0}]
  /\ Bases \subseteq Nat
  /\ \A b, c \in Bases : b # c => b + page_size <= c \/ c + page_size <= b
  /\ None \notin Page

VARIABLES
  pages,      \* the page in each bucket, or None
  poisoned,
  blocks      \* the live blocks, as their owners see them: [ptr, size]

vars == <<pages, poisoned, blocks>>

-----------------------------------------------------------------------------
Block == [ptr : Nat, size : Nat \ {0}]
NewPage(base) == [ptr |-> base, allocated |-> 0, n_allocations |-> 0, wasted |-> 0]

(* Page::alloc: the first aligned address of the free tail. *)
AlignUp(start, align) ==
  IF start % align = 0 THEN start ELSE start + (align - (start % align))
Start(page, layout) == AlignUp(page.ptr + page.allocated, layout.align)

Fits(page, layout) == Start(page, layout) - page.ptr + layout.size <= page_size

Filled_unpadded(page, layout) ==                                    \* mutant
  [page EXCEPT !.allocated = @ + layout.size,
               !.n_allocations = @ + 1,
               !.wasted = @ + (Start(page, layout) - (page.ptr + page.allocated))]

Filled(page, layout) ==
  [page EXCEPT !.allocated = Start(page, layout) - page.ptr + layout.size,
               !.n_allocations = @ + 1,
               !.wasted = @ + (Start(page, layout) - (page.ptr + page.allocated))]

(* The first bucket that is empty, or whose page has room. *)
Chosen(i, layout) ==
  /\ pages[i] # None => Fits(pages[i], layout)
  /\ \A j \in 1..(i - 1) : pages[j] # None /\ ~Fits(pages[j], layout)

Owns(page, ptr) == page.ptr <= ptr /\ ptr < page.ptr + page_size

-----------------------------------------------------------------------------
AllocFrom(i, page, layout) ==
  /\ Fits(page, layout)
  /\ pages' = [pages EXCEPT ![i] = Filled(page, layout)]
  /\ blocks' = blocks \cup {[ptr |-> Start(page, layout), size |-> layout.size]}
  /\ UNCHANGED poisoned

alloc_in_page(i, layout) ==
  /\ ~poisoned
  /\ Chosen(i, layout) /\ pages[i] # None
  /\ AllocFrom(i, pages[i], layout)

alloc_new_page(i, base, layout) ==
  /\ ~poisoned
  /\ Chosen(i, layout) /\ pages[i] = None
  /\ \A j \in Buckets : pages[j] # None => pages[j].ptr # base
  /\ AllocFrom(i, NewPage(base), layout)

(* Page::dealloc: the bucket is emptied with its last block. *)
Freed(page) ==
  IF page.n_allocations = 1 THEN None ELSE [page EXCEPT !.n_allocations = @ - 1]

dealloc_first_free_drops(i, b) ==                                   \* mutant
  /\ pages[i] # None /\ Owns(pages[i], b.ptr)
  /\ pages' = [pages EXCEPT ![i] = None]
  /\ poisoned' = (\E j \in Buckets : pages'[j] # None)
  /\ blocks' = blocks \ {b}

dealloc_staying_poisoned(i, b) ==                                   \* mutant
  /\ pages[i] # None /\ Owns(pages[i], b.ptr)
  /\ pages' = [pages EXCEPT ![i] = Freed(pages[i])]
  /\ poisoned' = TRUE
  /\ blocks' = blocks \ {b}

dealloc_without_poison(i, b) ==                                     \* mutant
  /\ pages[i] # None /\ Owns(pages[i], b.ptr)
  /\ pages' = [pages EXCEPT ![i] = Freed(pages[i])]
  /\ blocks' = blocks \ {b}
  /\ UNCHANGED poisoned

dealloc(i, b) ==
  /\ pages[i] # None /\ Owns(pages[i], b.ptr)
  /\ pages' = [pages EXCEPT ![i] = Freed(pages[i])]
  /\ poisoned' = (\E j \in Buckets : pages'[j] # None)
  /\ blocks' = blocks \ {b}

Init == pages = [i \in Buckets |-> None] /\ poisoned = FALSE /\ blocks = {}

Next ==
  \/ \E i \in Buckets, layout \in Layouts :
        \/ alloc_in_page(i, layout)
        \/ \E base \in Bases : alloc_new_page(i, base, layout)
  \/ \E i \in Buckets, b \in blocks : dealloc(i, b)

Spec == Init /\ [][Next]_vars

-----------------------------------------------------------------------------
(* Properties *)

Held == {i \in Buckets : pages[i] # None}
BlocksOf(page) == {b \in blocks : Owns(page, b.ptr)}

TypeOK ==
  /\ pages \in [Buckets -> Page \cup {None}]
  /\ poisoned \in BOOLEAN
  /\ blocks \subseteq Block

(* No two live blocks share a byte, whatever was padded, freed or given    *)
(* back in between.                                                        *)
BlocksDisjoint ==
  \A b, c \in blocks : b # c => b.ptr + b.size <= c.ptr \/ c.ptr + c.size <= b.ptr

(* Every live block lies in a page the heap still holds: a page is never   *)
(* returned to the backing allocator under a live block.                   *)
BlocksBacked ==
  \A b \in blocks : \E i \in Held :
    pages[i].ptr <= b.ptr /\ b.ptr + b.size <= pages[i].ptr + pages[i].allocated

(* When the last block is freed the heap is as new: all pages are back and *)
(* the poison is gone; and while it is poisoned some block is still live.  *)
EmptyHeapIsFresh == blocks = {} => Held = {} /\ ~poisoned

(* "will only call to this allocator once it can no longer fit the next     *)
(* allocation in any of it's currently allocated pages": the search stops  *)
(* at the first empty bucket, so a bucket emptied before a held one would   *)
(* break this; the poison is what excludes it.                              *)
PagesFullBeforeNew ==
  [][\A i \in Buckets, base \in Bases, layout \in Layouts :
       alloc_new_page(i, base, layout) => \A j \in Held : ~Fits(pages[j], layout)]_vars
=============================================================================
