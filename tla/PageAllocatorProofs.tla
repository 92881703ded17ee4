------------------------- MODULE PageAllocatorProofs -------------------------
(***************************************************************************)
(* The heap of PageAllocator, for any number and size of pages, any        *)
(* requests and any backing allocator: live blocks never overlap and never *)
(* outlive their page, and an empty heap is as new.                        *)
(***************************************************************************)
EXTENDS PageAllocator, FiniteSetTheorems, TLAPS

(* The inductive invariant: a page is held under one address by one bucket, *)
(* exactly as long as its count of live blocks is not zero.                 *)
PagesDistinct ==
  \A i, j \in Held : i # j => pages[i].ptr # pages[j].ptr

CountsExact ==
  \A i \in Held : /\ IsFiniteSet(BlocksOf(pages[i]))
                  /\ pages[i].n_allocations = Cardinality(BlocksOf(pages[i]))
                  /\ pages[i].n_allocations > 0

PoisonHasPage == poisoned => Held # {}

(* Without poison the held pages are in the first buckets. *)
NoHoles == ~poisoned => \A j \in Held : \A k \in 1..(j - 1) : k \in Held

IInv == TypeOK /\ PagesDistinct /\ BlocksBacked /\ BlocksDisjoint
          /\ CountsExact /\ PoisonHasPage /\ NoHoles

-----------------------------------------------------------------------------
(* Rounding up never goes down. *)
LEMMA AlignUpBounds ==
  ASSUME NEW start \in Nat, NEW align \in Nat \ {0}
  PROVE  AlignUp(start, align) \in Nat /\ AlignUp(start, align) >= start
<1>1. start % align \in 0..(align - 1)
  OBVIOUS
<1>2. QED
  BY <1>1 DEF AlignUp

(* What the assumptions say of one page and of one request. *)
LEMMA PageFields ==
  ASSUME NEW page \in Page
  PROVE  /\ page.ptr \in Bases /\ page.ptr \in Nat
         /\ page.allocated \in Nat /\ page.allocated <= page_size
         /\ page.n_allocations \in Nat /\ page.wasted \in Nat
<1>1. Bases \subseteq Nat /\ page_size \in Nat
  BY HeapAssumption
<1>2. page.ptr \in Bases /\ page.allocated \in 0..page_size
        /\ page.n_allocations \in Nat /\ page.wasted \in Nat
  BY DEF Page
<1>3. page.allocated \in Nat /\ page.allocated <= page_size
  BY <1>1, <1>2
<1>4. page.ptr \in Nat
  BY <1>1, <1>2
<1>5. QED
  BY <1>2, <1>3, <1>4

LEMMA LayoutFields ==
  ASSUME NEW layout \in Layouts
  PROVE  layout.size \in Nat \ {0} /\ layout.align \in Nat \ {0}
<1>1. Layouts \subseteq [size : Nat \ {0}, align : Nat \ {0}]
  BY HeapAssumption
<1>2. layout \in [size : Nat \ {0}, align : Nat \ {0}]
  BY <1>1
<1>3. QED
  BY <1>2

(* A request starts at or above the used part of its page and, if it fits,  *)
(* ends within the page.                                                    *)
LEMMA StartBounds ==
  ASSUME NEW page \in Page, NEW layout \in Layouts
  PROVE  /\ Start(page, layout) \in Nat
         /\ Start(page, layout) >= page.ptr + page.allocated
<1>1. page.ptr + page.allocated \in Nat /\ layout.align \in Nat \ {0}
  BY PageFields, LayoutFields
<1>2. QED
  BY <1>1, AlignUpBounds DEF Start

(* Pages at different addresses own no address in common. *)
LEMMA PagesApart ==
  ASSUME NEW p \in Page, NEW q \in Page, NEW a \in Nat, Owns(p, a), Owns(q, a)
  PROVE  p.ptr = q.ptr
<1>1. p.ptr \in Bases /\ q.ptr \in Bases
  BY DEF Page
<1>2. p.ptr \in Nat /\ q.ptr \in Nat /\ page_size \in Nat
  BY <1>1, HeapAssumption
<1>3. p.ptr # q.ptr =>
        p.ptr + page_size <= q.ptr \/ q.ptr + page_size <= p.ptr
  BY <1>1, HeapAssumption
<1>4. QED
  BY <1>2, <1>3 DEF Owns

(* The page as AllocFrom leaves it. *)
LEMMA FilledIsPage ==
  ASSUME NEW page \in Page, NEW layout \in Layouts, Fits(page, layout)
  PROVE  LET new == Filled(page, layout)
         IN /\ new \in Page
            /\ new.ptr = page.ptr
            /\ new.n_allocations = page.n_allocations + 1
            /\ new.ptr + new.allocated = Start(page, layout) + layout.size
            /\ page.ptr + page.allocated <= new.ptr + new.allocated
            /\ new.ptr + new.allocated <= new.ptr + page_size
<1>1. /\ page.ptr \in Nat /\ page.ptr \in Bases /\ page.allocated \in Nat
      /\ page.n_allocations \in Nat /\ page.wasted \in Nat
      /\ layout.size \in Nat \ {0} /\ page_size \in Nat
  BY PageFields, LayoutFields, HeapAssumption
<1>2. /\ Start(page, layout) \in Nat
      /\ Start(page, layout) >= page.ptr + page.allocated
  BY StartBounds
<1>3. Start(page, layout) - page.ptr + layout.size <= page_size
  BY DEF Fits
<1>4. PICK s \in Nat : s = Start(page, layout)
  BY <1>2
<1>5. /\ s - page.ptr + layout.size \in 0..page_size
      /\ page.wasted + (s - (page.ptr + page.allocated)) \in Nat
  BY <1>1, <1>2, <1>3, <1>4
<1>6. Filled(page, layout) =
        [page EXCEPT !.allocated = s - page.ptr + layout.size,
                     !.n_allocations = @ + 1,
                     !.wasted = @ + (s - (page.ptr + page.allocated))]
  BY <1>4 DEF Filled
<1>7. Filled(page, layout) =
        [ptr |-> page.ptr, allocated |-> s - page.ptr + layout.size,
         n_allocations |-> page.n_allocations + 1,
         wasted |-> page.wasted + (s - (page.ptr + page.allocated))]
  BY <1>6 DEF Page
<1>8. Filled(page, layout) \in Page
  BY <1>1, <1>5, <1>7 DEF Page
<1>9. QED
  BY <1>1, <1>2, <1>3, <1>4, <1>7, <1>8

(* The page that backs a block owns it. *)
LEMMA BackedIsOwned ==
  ASSUME TypeOK, NEW b \in blocks, NEW j \in Held,
         pages[j].ptr <= b.ptr, b.ptr + b.size <= pages[j].ptr + pages[j].allocated
  PROVE  Owns(pages[j], b.ptr)
<1>1. b.ptr \in Nat /\ b.size \in Nat \ {0}
  BY DEF TypeOK, Block
<1>2. pages[j] \in Page
  BY DEF TypeOK, Held
<1>3. pages[j].ptr \in Nat /\ pages[j].allocated \in Nat
        /\ pages[j].allocated <= page_size /\ page_size \in Nat
  BY <1>2, PageFields, HeapAssumption
<1>4. QED
  BY <1>1, <1>3 DEF Owns

(* A block that a held page owns ends within the used part of that page. *)
LEMMA OwnedIsBacked ==
  ASSUME TypeOK, PagesDistinct, BlocksBacked, NEW b \in blocks, NEW i \in Held,
         Owns(pages[i], b.ptr)
  PROVE  b.ptr + b.size <= pages[i].ptr + pages[i].allocated
<1>1. PICK j \in Held : /\ pages[j].ptr <= b.ptr
                        /\ b.ptr + b.size <= pages[j].ptr + pages[j].allocated
  BY DEF BlocksBacked
<1>2. Owns(pages[j], b.ptr)
  BY <1>1, BackedIsOwned
<1>3. pages[i] \in Page /\ pages[j] \in Page /\ b.ptr \in Nat
  BY DEF TypeOK, Held, Block
<1>4. pages[i].ptr = pages[j].ptr
  BY <1>2, <1>3, PagesApart
<1>5. i = j
  BY <1>4 DEF PagesDistinct
<1>6. QED
  BY <1>1, <1>5

-----------------------------------------------------------------------------
(* Cutting a block from the tail of a page, old or new, keeps IInv.  page   *)
(* is the page before the cut: the last four assumptions say that no other  *)
(* bucket holds it and that its counter and its used part are exact.        *)
LEMMA AllocKeeps ==
  ASSUME IInv, NEW i \in Buckets, NEW page \in Page, NEW layout \in Layouts,
         AllocFrom(i, page, layout), ~poisoned,
         \A j \in 1..(i - 1) : j \in Held,
         i \in Held => page = pages[i],
         \A j \in Held \ {i} : pages[j].ptr # page.ptr,
         IsFiniteSet(BlocksOf(page)) /\ page.n_allocations = Cardinality(BlocksOf(page)),
         \A b \in BlocksOf(page) : b.ptr + b.size <= page.ptr + page.allocated
  PROVE  IInv'
<1> USE DEF IInv
<1>1. PICK new : new = Filled(page, layout)
  OBVIOUS
<1>2. PICK nb : nb = [ptr |-> Start(page, layout), size |-> layout.size]
  OBVIOUS
<1>3. /\ new \in Page
      /\ new.ptr = page.ptr
      /\ new.n_allocations = page.n_allocations + 1
      /\ new.ptr + new.allocated = nb.ptr + nb.size
      /\ page.ptr + page.allocated <= new.ptr + new.allocated
      /\ new.ptr + new.allocated <= new.ptr + page_size
  <2>1. Fits(page, layout)
    BY DEF AllocFrom
  <2>2. QED
    BY <2>1, <1>1, <1>2, FilledIsPage
<1>4. /\ nb.ptr \in Nat /\ nb.size \in Nat \ {0} /\ nb \in Block
      /\ nb.ptr >= page.ptr + page.allocated
  BY <1>2, StartBounds, LayoutFields DEF Block
<1>5. /\ pages' = [pages EXCEPT ![i] = new]
      /\ blocks' = blocks \cup {nb}
      /\ poisoned' = poisoned
  BY <1>1, <1>2 DEF AllocFrom
<1>6. /\ pages \in [Buckets -> Page \cup {None}] /\ blocks \subseteq Block
      /\ poisoned \in BOOLEAN
  BY DEF TypeOK
<1>7. /\ pages'[i] = new
      /\ \A j \in Buckets \ {i} : pages'[j] = pages[j]
  BY <1>5, <1>6
<1>8. new # None
  BY <1>3, HeapAssumption
<1>9. Held' = Held \cup {i}
  BY <1>7, <1>8 DEF Held
<1>10. /\ page.ptr \in Nat /\ page.ptr \in Bases /\ page.allocated \in Nat
       /\ page.allocated <= page_size /\ page_size \in Nat
       /\ new.allocated \in Nat
  BY <1>3, PageFields, HeapAssumption
<1>11. \A j \in Held : pages[j] \in Page
  BY <1>6 DEF Held
<1>12. TypeOK'
  BY <1>3, <1>4, <1>5, <1>6 DEF TypeOK
<1>13. PagesDistinct'
  <2>1. \A j \in Held \ {i} : j \in Buckets \ {i}
    BY DEF Held
  <2>2. QED
    BY <1>3, <1>7, <1>9, <2>1 DEF PagesDistinct
<1>14. BlocksBacked'
  <2>1. SUFFICES ASSUME NEW b \in blocks'
                 PROVE  \E j \in Held' : /\ pages'[j].ptr <= b.ptr
                           /\ b.ptr + b.size <= pages'[j].ptr + pages'[j].allocated
    BY DEF BlocksBacked
  <2>2. CASE b = nb
    BY <2>2, <1>3, <1>4, <1>7, <1>9, <1>10
  <2>3. CASE b \in blocks
    <3>1. PICK j \in Held : /\ pages[j].ptr <= b.ptr
                            /\ b.ptr + b.size <= pages[j].ptr + pages[j].allocated
      BY <2>3 DEF BlocksBacked
    <3>2. CASE j # i
      BY <3>1, <3>2, <1>7, <1>9 DEF Held
    <3>3. CASE j = i
      <4>1. page = pages[i] /\ b.ptr \in Nat /\ b.size \in Nat
        BY <3>3, <2>3, <1>6 DEF Block
      <4>2. page.ptr <= b.ptr /\ b.ptr + b.size <= page.ptr + page.allocated
        BY <4>1, <3>1, <3>3
      <4>3. new.ptr <= b.ptr /\ b.ptr + b.size <= new.ptr + new.allocated
        BY <4>1, <4>2, <1>3, <1>10
      <4>4. QED
        BY <4>3, <1>7, <1>9
    <3>4. QED
      BY <3>2, <3>3
  <2>4. QED
    BY <2>2, <2>3, <1>5
<1>15. \A b \in blocks : b.ptr + b.size <= nb.ptr \/ nb.ptr + nb.size <= b.ptr
  <2>1. SUFFICES ASSUME NEW b \in blocks
                 PROVE  b.ptr + b.size <= nb.ptr \/ nb.ptr + nb.size <= b.ptr
    OBVIOUS
  <2>2. b.ptr \in Nat /\ b.size \in Nat \ {0}
    BY <1>6 DEF Block
  <2>3. CASE Owns(page, b.ptr)
    <3>1. b.ptr + b.size <= page.ptr + page.allocated
      BY <2>3 DEF BlocksOf
    <3>2. QED
      BY <3>1, <2>2, <1>4, <1>10
  <2>4. CASE ~Owns(page, b.ptr)
    <3>1. PICK j \in Held : /\ pages[j].ptr <= b.ptr
                            /\ b.ptr + b.size <= pages[j].ptr + pages[j].allocated
      BY DEF BlocksBacked
    <3>2. Owns(pages[j], b.ptr)
      BY <3>1, BackedIsOwned
    <3>3. j # i
      BY <3>2, <2>4
    <3>4. /\ pages[j].ptr # page.ptr /\ pages[j].ptr \in Bases
          /\ pages[j].ptr \in Nat /\ pages[j].allocated \in Nat
          /\ pages[j].allocated <= page_size
      BY <3>3, <1>11, PageFields
    <3>5. \/ pages[j].ptr + page_size <= page.ptr
          \/ page.ptr + page_size <= pages[j].ptr
      BY <3>4, <1>10, HeapAssumption
    <3>6. page.ptr <= nb.ptr /\ nb.ptr + nb.size <= page.ptr + page_size
      BY <1>3, <1>4, <1>10
    <3>7. QED
      BY <3>1, <3>4, <3>5, <3>6, <2>2, <1>4, <1>10
  <2>5. QED
    BY <2>3, <2>4
<1>16. nb \notin blocks
  BY <1>15, <1>4
<1>17. BlocksDisjoint'
  BY <1>15, <1>5 DEF BlocksDisjoint
<1>18. CountsExact'
  <2>1. SUFFICES ASSUME NEW j \in Held'
                 PROVE  /\ IsFiniteSet({b \in blocks' : Owns(pages'[j], b.ptr)})
                        /\ pages'[j].n_allocations = Cardinality({b \in blocks' : Owns(pages'[j], b.ptr)})
                        /\ pages'[j].n_allocations > 0
    BY DEF CountsExact, BlocksOf
  <2>2. CASE j # i
    <3>1. j \in Held /\ pages'[j] = pages[j] /\ pages[j] \in Page
      BY <2>2, <1>7, <1>9, <1>11 DEF Held
    <3>2. ~Owns(pages[j], nb.ptr)
      <4>1. Owns(page, nb.ptr)
        BY <1>3, <1>4, <1>10 DEF Owns
      <4>2. QED
        BY <4>1, <3>1, <2>2, <1>4, PagesApart
    <3>3. {b \in blocks' : Owns(pages'[j], b.ptr)} = BlocksOf(pages[j])
      BY <3>1, <3>2, <1>5 DEF BlocksOf
    <3>4. QED
      BY <3>1, <3>3 DEF CountsExact
  <2>3. CASE j = i
    <3>1. Owns(new, nb.ptr)
      BY <1>3, <1>4, <1>10 DEF Owns
    <3>2. \A a : Owns(new, a) = Owns(page, a)
      BY <1>3 DEF Owns
    <3>3. {b \in blocks' : Owns(new, b.ptr)} = BlocksOf(page) \cup {nb}
      BY <3>1, <3>2, <1>5 DEF BlocksOf
    <3>4. nb \notin BlocksOf(page)
      BY <1>16 DEF BlocksOf
    <3>5. /\ IsFiniteSet(BlocksOf(page) \cup {nb})
          /\ Cardinality(BlocksOf(page) \cup {nb}) = Cardinality(BlocksOf(page)) + 1
      BY <3>4, FS_AddElement
    <3>6. page.n_allocations \in Nat
      BY PageFields
    <3>7. new.n_allocations > 0
      BY <3>6, <1>3
    <3>8. new.n_allocations = Cardinality(BlocksOf(page) \cup {nb})
      BY <3>5, <1>3
    <3>9. QED
      BY <2>3, <3>3, <3>5, <3>7, <3>8, <1>7
  <2>4. QED
    BY <2>2, <2>3
<1>19. PoisonHasPage'
  BY <1>5 DEF PoisonHasPage
<1>20. NoHoles'
  BY <1>5, <1>9 DEF NoHoles
<1>21. QED
  BY <1>12, <1>13, <1>14, <1>17, <1>18, <1>19, <1>20

(* Freeing a block keeps IInv: the page goes with its last block. *)
LEMMA DeallocKeeps ==
  ASSUME IInv, NEW i \in Buckets, NEW b \in blocks, dealloc(i, b)
  PROVE  IInv'
<1> USE DEF IInv
<1>1. PICK new : new = Freed(pages[i])
  OBVIOUS
<1>2. /\ pages[i] # None /\ Owns(pages[i], b.ptr)
      /\ pages' = [pages EXCEPT ![i] = new]
      /\ poisoned' = (\E j \in Buckets : pages'[j] # None)
      /\ blocks' = blocks \ {b}
  BY <1>1 DEF dealloc
<1>3. /\ pages \in [Buckets -> Page \cup {None}] /\ blocks \subseteq Block
  BY DEF TypeOK
<1>4. /\ pages'[i] = new
      /\ \A j \in Buckets \ {i} : pages'[j] = pages[j]
  BY <1>2, <1>3
<1>5. i \in Held /\ pages[i] \in Page
  BY <1>2, <1>3 DEF Held
<1>6. /\ IsFiniteSet(BlocksOf(pages[i]))
      /\ pages[i].n_allocations = Cardinality(BlocksOf(pages[i]))
      /\ pages[i].n_allocations > 0 /\ pages[i].n_allocations \in Nat
  BY <1>5, PageFields DEF CountsExact
<1>7. b \in BlocksOf(pages[i])
  BY <1>2 DEF BlocksOf
<1>8. new # None =>
        /\ new \in Page /\ new.ptr = pages[i].ptr /\ new.allocated = pages[i].allocated
        /\ new.n_allocations = pages[i].n_allocations - 1
        /\ new.n_allocations > 0
  <2>1. SUFFICES ASSUME new # None, pages[i].n_allocations # 1
                 PROVE  /\ new \in Page /\ new.ptr = pages[i].ptr
                        /\ new.allocated = pages[i].allocated
                        /\ new.n_allocations = pages[i].n_allocations - 1
                        /\ new.n_allocations > 0
    BY <1>1 DEF Freed
  <2>2. pages[i].n_allocations - 1 \in Nat /\ pages[i].n_allocations - 1 > 0
    BY <2>1, <1>6
  <2>3. new = [ptr |-> pages[i].ptr, allocated |-> pages[i].allocated,
               n_allocations |-> pages[i].n_allocations - 1,
               wasted |-> pages[i].wasted]
    BY <2>1, <1>1, <1>5 DEF Page, Freed
  <2>4. QED
    BY <2>2, <2>3, <1>5 DEF Page
<1>9. new = None => BlocksOf(pages[i]) = {b}
  <2>1. SUFFICES ASSUME new = None PROVE BlocksOf(pages[i]) = {b}
    OBVIOUS
  <2>2. pages[i].n_allocations = 1
    <3>1. SUFFICES ASSUME pages[i].n_allocations # 1 PROVE FALSE
      OBVIOUS
    <3>2. new = [ptr |-> pages[i].ptr, allocated |-> pages[i].allocated,
                 n_allocations |-> pages[i].n_allocations - 1,
                 wasted |-> pages[i].wasted]
      BY <3>1, <1>1, <1>5 DEF Page, Freed
    <3>3. pages[i].n_allocations - 1 \in Nat
      BY <3>1, <1>6
    <3>4. new \in Page
      BY <3>2, <3>3, <1>5 DEF Page
    <3>5. QED
      BY <3>4, <2>1, HeapAssumption
  <2>3. PICK x : BlocksOf(pages[i]) = {x}
    BY <2>2, <1>6, FS_Singleton
  <2>4. QED
    BY <2>3, <1>7
<1>10. /\ Held' \subseteq Held
       /\ \A j \in Held : j # i => j \in Held'
       /\ i \in Held' <=> new # None
  BY <1>4, <1>5 DEF Held
<1>11. \A j \in Held' : /\ pages'[j].ptr = pages[j].ptr
                        /\ pages'[j].allocated = pages[j].allocated
  BY <1>4, <1>8, <1>10 DEF Held
<1>12. TypeOK'
  <2>1. pages' \in [Buckets -> Page \cup {None}]
    BY <1>2, <1>3, <1>8
  <2>2. poisoned' \in BOOLEAN
    BY <1>2
  <2>3. QED
    BY <2>1, <2>2, <1>2, <1>3 DEF TypeOK
<1>13. PagesDistinct'
  BY <1>10, <1>11 DEF PagesDistinct
<1>14. BlocksBacked'
  <2>1. SUFFICES ASSUME NEW c \in blocks, c # b
                 PROVE  \E j \in Held' : /\ pages'[j].ptr <= c.ptr
                           /\ c.ptr + c.size <= pages'[j].ptr + pages'[j].allocated
    BY <1>2 DEF BlocksBacked
  <2>2. PICK j \in Held : /\ pages[j].ptr <= c.ptr
                          /\ c.ptr + c.size <= pages[j].ptr + pages[j].allocated
    BY DEF BlocksBacked
  <2>3. c \in BlocksOf(pages[j])
    BY <2>2, BackedIsOwned DEF BlocksOf
  <2>4. j \in Held'
    BY <2>3, <2>1, <1>9, <1>10
  <2>5. QED
    BY <2>2, <2>4, <1>11
<1>15. BlocksDisjoint'
  BY <1>2 DEF BlocksDisjoint
<1>16. CountsExact'
  <2>1. SUFFICES ASSUME NEW j \in Held'
                 PROVE  /\ IsFiniteSet({c \in blocks' : Owns(pages'[j], c.ptr)})
                        /\ pages'[j].n_allocations = Cardinality({c \in blocks' : Owns(pages'[j], c.ptr)})
                        /\ pages'[j].n_allocations > 0
    BY DEF CountsExact, BlocksOf
  <2>2. j \in Held /\ pages[j] \in Page /\ b.ptr \in Nat
    BY <1>3, <1>10 DEF Held, Block
  <2>3. \A a : Owns(pages'[j], a) = Owns(pages[j], a)
    BY <1>11 DEF Owns
  <2>4. {c \in blocks' : Owns(pages'[j], c.ptr)} = BlocksOf(pages[j]) \ {b}
    BY <2>3, <1>2 DEF BlocksOf
  <2>5. /\ IsFiniteSet(BlocksOf(pages[j]))
        /\ pages[j].n_allocations = Cardinality(BlocksOf(pages[j]))
        /\ pages[j].n_allocations > 0
    BY <2>2 DEF CountsExact
  <2>6. CASE j = i
    <3>1. /\ IsFiniteSet(BlocksOf(pages[i]) \ {b})
          /\ Cardinality(BlocksOf(pages[i]) \ {b}) = Cardinality(BlocksOf(pages[i])) - 1
      BY <1>6, <1>7, FS_RemoveElement
    <3>2. new # None
      BY <2>6, <1>10
    <3>3. QED
      BY <3>1, <3>2, <2>4, <2>6, <1>4, <1>6, <1>8
  <2>7. CASE j # i
    <3>1. b \notin BlocksOf(pages[j])
      <4>1. SUFFICES ASSUME Owns(pages[j], b.ptr) PROVE FALSE
        BY DEF BlocksOf
      <4>2. pages[j].ptr = pages[i].ptr
        BY <4>1, <1>2, <1>5, <2>2, PagesApart
      <4>3. QED
        BY <4>2, <2>2, <2>7, <1>5 DEF PagesDistinct
    <3>2. BlocksOf(pages[j]) \ {b} = BlocksOf(pages[j])
      BY <3>1
    <3>3. pages'[j] = pages[j]
      BY <2>2, <2>7, <1>4 DEF Held
    <3>4. QED
      BY <3>2, <3>3, <2>4, <2>5
  <2>8. QED
    BY <2>6, <2>7
<1>17. PoisonHasPage'
  BY <1>2 DEF PoisonHasPage, Held
<1>18. NoHoles'
  BY <1>2 DEF NoHoles, Held
<1>19. QED
  BY <1>12, <1>13, <1>14, <1>15, <1>16, <1>17, <1>18

-----------------------------------------------------------------------------
LEMMA InitEstablishes == Init => IInv
<1> SUFFICES ASSUME Init PROVE IInv
  OBVIOUS
<1>1. Held = {}
  BY DEF Init, Held
<1>2. TypeOK
  BY DEF Init, TypeOK
<1>3. QED
  BY <1>1, <1>2 DEF Init, IInv, PagesDistinct, BlocksBacked, BlocksDisjoint,
                    CountsExact, PoisonHasPage, NoHoles

(* A new page backs no block yet: every live block lies in another page. *)
LEMMA NewPageIsEmpty ==
  ASSUME IInv, NEW base \in Bases,
         \A j \in Buckets : pages[j] # None => pages[j].ptr # base
  PROVE  NewPage(base) \in Page /\ BlocksOf(NewPage(base)) = {}
<1>1. NewPage(base) \in Page
  BY HeapAssumption DEF NewPage, Page
<1>2. SUFFICES ASSUME NEW b \in blocks, Owns(NewPage(base), b.ptr) PROVE FALSE
  BY <1>1 DEF BlocksOf
<1>3. PICK j \in Held : /\ pages[j].ptr <= b.ptr
                        /\ b.ptr + b.size <= pages[j].ptr + pages[j].allocated
  BY DEF IInv, BlocksBacked
<1>4. Owns(pages[j], b.ptr)
  BY <1>3, BackedIsOwned DEF IInv
<1>5. pages[j] \in Page /\ b.ptr \in Nat /\ pages[j].ptr # base
  BY DEF IInv, TypeOK, Held, Block
<1>6. NewPage(base).ptr = pages[j].ptr
  BY <1>1, <1>2, <1>4, <1>5, PagesApart
<1>7. QED
  BY <1>5, <1>6 DEF NewPage

LEMMA NextKeeps == IInv /\ [Next]_vars => IInv'
<1> SUFFICES ASSUME IInv, [Next]_vars PROVE IInv'
  OBVIOUS
<1>1. CASE UNCHANGED vars
  BY <1>1 DEF vars, IInv, TypeOK, PagesDistinct, BlocksBacked, BlocksDisjoint,
              CountsExact, PoisonHasPage, NoHoles, Held, BlocksOf
<1>2. ASSUME NEW i \in Buckets, NEW layout \in Layouts, alloc_in_page(i, layout)
      PROVE  IInv'
  <2>1. /\ AllocFrom(i, pages[i], layout) /\ ~poisoned /\ i \in Held
    BY <1>2 DEF alloc_in_page, Held
  <2>2. pages[i] \in Page
    BY <2>1 DEF IInv, TypeOK, Held
  <2>3. \A j \in Held \ {i} : pages[j].ptr # pages[i].ptr
    BY <2>1 DEF IInv, PagesDistinct
  <2>4. /\ IsFiniteSet(BlocksOf(pages[i]))
        /\ pages[i].n_allocations = Cardinality(BlocksOf(pages[i]))
    BY <2>1 DEF IInv, CountsExact
  <2>5. \A b \in BlocksOf(pages[i]) : b.ptr + b.size <= pages[i].ptr + pages[i].allocated
    BY <2>1, OwnedIsBacked DEF IInv, BlocksOf
  <2>6. \A j \in 1..(i - 1) : j \in Held
    BY <2>1 DEF IInv, NoHoles
  <2>7. QED
    BY <2>1, <2>2, <2>3, <2>4, <2>5, <2>6, AllocKeeps
<1>3. ASSUME NEW i \in Buckets, NEW base \in Bases, NEW layout \in Layouts,
             alloc_new_page(i, base, layout)
      PROVE  IInv'
  <2>1. /\ AllocFrom(i, NewPage(base), layout) /\ ~poisoned /\ i \notin Held
        /\ \A j \in Buckets : pages[j] # None => pages[j].ptr # base
    BY <1>3 DEF alloc_new_page, Held
  <2>2. NewPage(base) \in Page /\ BlocksOf(NewPage(base)) = {}
    BY <2>1, NewPageIsEmpty
  <2>3. \A j \in Held \ {i} : pages[j].ptr # NewPage(base).ptr
    BY <2>1 DEF Held, NewPage
  <2>4. /\ IsFiniteSet(BlocksOf(NewPage(base)))
        /\ NewPage(base).n_allocations = Cardinality(BlocksOf(NewPage(base)))
    BY <2>2, FS_EmptySet DEF NewPage
  <2>5. \A j \in 1..(i - 1) : j \in Held
    BY <1>3, HeapAssumption DEF alloc_new_page, Chosen, Held, Buckets
  <2>6. QED
    BY <2>1, <2>2, <2>3, <2>4, <2>5, AllocKeeps
<1>4. ASSUME NEW i \in Buckets, NEW b \in blocks, dealloc(i, b)
      PROVE  IInv'
  BY <1>4, DeallocKeeps
<1>5. QED
  BY <1>1, <1>2, <1>3, <1>4 DEF Next

LEMMA Invariance == Spec => []IInv
<1>1. Init => IInv
  BY InitEstablishes
<1>2. IInv /\ [Next]_vars => IInv'
  BY NextKeeps
<1>3. QED
  BY <1>1, <1>2, PTL DEF Spec

-----------------------------------------------------------------------------
(* Every reachable heap is well typed, whatever is requested and freed. *)
THEOREM HeapTypes == Spec => []TypeOK
<1>1. IInv => TypeOK
  BY DEF IInv
<1>2. QED
  BY <1>1, Invariance, PTL

(* PageAllocator::alloc never returns a byte of a live block. *)
THEOREM HeapBlocksDisjoint == Spec => []BlocksDisjoint
<1>1. IInv => BlocksDisjoint
  BY DEF IInv
<1>2. QED
  BY <1>1, Invariance, PTL

(* PageAllocator::dealloc never returns a page under a live block. *)
THEOREM HeapBlocksBacked == Spec => []BlocksBacked
<1>1. IInv => BlocksBacked
  BY DEF IInv
<1>2. QED
  BY <1>1, Invariance, PTL

(* Freeing the last block returns every page and lifts the poison. *)
THEOREM HeapFreshWhenEmpty == Spec => []EmptyHeapIsFresh
<1>1. IInv => EmptyHeapIsFresh
  <2> SUFFICES ASSUME IInv, blocks = {} PROVE Held = {} /\ ~poisoned
    BY DEF EmptyHeapIsFresh
  <2>1. \A i \in Held : BlocksOf(pages[i]) = {}
    BY DEF BlocksOf
  <2>2. \A i \in Held : FALSE
    BY <2>1, FS_EmptySet DEF IInv, CountsExact
  <2>3. QED
    BY <2>2 DEF IInv, PoisonHasPage
<1>2. QED
  BY <1>1, Invariance, PTL

(* The backing allocator is asked for a page only when no page has room. *)
THEOREM HeapPagesFullBeforeNew == Spec => PagesFullBeforeNew
<1>1. ASSUME IInv, NEW i \in Buckets, NEW base \in Bases, NEW layout \in Layouts,
             alloc_new_page(i, base, layout), NEW j \in Held
      PROVE  ~Fits(pages[j], layout)
  <2>1. /\ ~poisoned /\ pages[i] = None /\ pages[j] # None
        /\ \A k \in 1..(i - 1) : ~Fits(pages[k], layout)
    BY <1>1 DEF alloc_new_page, Chosen, Held
  <2>2. i \in Nat /\ j \in Nat /\ i >= 1 /\ j >= 1
    BY <1>1, HeapAssumption DEF Held, Buckets
  <2>3. j # i /\ ~(i \in 1..(j - 1))
    BY <2>1, <1>1 DEF IInv, NoHoles, Held
  <2>4. j \in 1..(i - 1)
    BY <2>2, <2>3
  <2>5. QED
    BY <2>1, <2>4
<1>2. IInv /\ [Next]_vars =>
        [\A i \in Buckets, base \in Bases, layout \in Layouts :
           alloc_new_page(i, base, layout) => \A j \in Held : ~Fits(pages[j], layout)]_vars
  BY <1>1
<1>3. QED
  BY <1>2, Invariance, PTL DEF Spec, PagesFullBeforeNew
=============================================================================
