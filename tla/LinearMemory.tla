---------------------------- MODULE LinearMemory ----------------------------
(***************************************************************************)
(* Linear memories (src/memory.rs), the reference counts that share them   *)
(* between modules, the engine and host functions (src/util/rc.rs), the    *)
(* instructions and the host calls that use them (src/interpreter.rs,      *)
(* spacewasm_c_api/src/host.rs) and the loads that create and fill them    *)
(* (Data::read and DataSection::read in src/module.rs).                    *)
(*                                                                         *)
(* A Memory is a pointer to a block of the embedder's allocator and a size *)
(* in bytes.  Code reaches it through Engine::memory, a counted reference  *)
(* the engine caches when it enters a module.  The operand stack and the   *)
(* code are in Engine.tla: here a module may execute any access.           *)
(*                                                                         *)
(* Bytes are numbers below Radix, and every width is counted in bytes, so  *)
(* that an instance can be scaled down: WordLimit stands for 2^32.         *)
(*                                                                         *)
(* A definition marked `mutant` is the next definition with one plausible  *)
(* bug; no specification uses it (see README.md).                          *)
(***************************************************************************)
EXTENDS Integers, Sequences, FiniteSets

CONSTANTS
  Modules,      \* the modules that may be loaded
  Memories,     \* the memories they own, and those of host modules
  NoMemory,     \* Store::zero_memory
  MemoryOf,     \* Store::get_memory: [Modules -> Memories or NoMemory]
  Owner,        \* the module that defines a memory, or Embedder
  Embedder,     \* the owner of the memories of host modules
  TypeOf,       \* MemType of each memory: [min, max, page]
  ImportType,   \* MemType a module that imports a memory declares for it
  Unbounded,    \* a max_pages of None
  WordLimit,    \* 2^32: the values of an address, of a number of pages
  CountLimit,   \* 2^32: the values of RcInner::count
  Radix,        \* 2^8: the values of a byte
  Accesses,     \* <<bytes moved, bytes of the register>> of the instructions
  Blocks,       \* addresses of blocks the allocator may return (a bound)
  MaxHeld,      \* references a host function may keep to one memory (a bound)
  Null, Free, Dropped, Gone, None    \* no block, no content, no memory, ...

AllMemories == Memories \cup {NoMemory}

ASSUME MemoryAssumption ==
  /\ MemoryOf \in [Modules -> AllMemories] /\ NoMemory \notin Memories
  /\ Owner \in [Memories -> Modules \cup {Embedder}] /\ Embedder \notin Modules
  /\ \A o \in Memories : Owner[o] # Embedder => MemoryOf[Owner[o]] = o
  /\ WordLimit \in Nat \ {0} /\ CountLimit \in Nat \ 0..2 /\ Radix \in Nat \ {0, 1}
  /\ MaxHeld \in Nat
  /\ Accesses \subseteq (Nat \ {0}) \X (Nat \ {0})
  /\ \A access \in Accesses : access[1] <= access[2]
  /\ \A t \in {TypeOf[o] : o \in Memories} \cup {ImportType[m] : m \in Modules} :
       /\ t.min \in 0..(WordLimit - 1) /\ t.page \in Nat \ {0}
       /\ t.max = Unbounded \/ (t.max \in Nat /\ t.min <= t.max)
       /\ t.min * t.page <= WordLimit
       /\ t.max # Unbounded => t.max * t.page <= WordLimit
  /\ Unbounded \notin Nat /\ Null \notin Blocks
  /\ {Dropped, Gone, None} \cap (AllMemories \cup Modules) = {}
  /\ {Dropped, Free} \cap Seq(Nat) = {}
  /\ Dropped \notin [ptr : Blocks \cup {Null}, size : Nat]

VARIABLES
  mem,       \* each memory: [ptr, size], or Dropped
  block,     \* each block of the allocator: its bytes, or Free
  count,     \* RcInner::count of each memory
  store,     \* memories referenced by a module, a host module or a load
  loaded,    \* modules of the store
  load,      \* the module being read, or None
  engine,    \* the memory Engine::memory references, or Gone
  module,    \* Engine::module while it executes, or None
  held,      \* references kept by host functions, by memory
  last,      \* the last access, for ByteMemory
  panicked   \* an assertion aborted the process

vars == <<mem, block, count, store, loaded, load, engine, module, held,
          last, panicked>>

(* What is in each memory, as a module that uses it can tell. *)
Contents ==
  [o \in Memories |-> IF mem[o] = Dropped THEN Dropped
                      ELSE IF mem[o].ptr = Null THEN <<>>
                      ELSE SubSeq(block[mem[o].ptr], 1, mem[o].size)]

PageSizes == [o \in Memories |-> TypeOf[o].page]

Promise == INSTANCE ByteMemory WITH
  bytes <- Contents, PageSize <- PageSizes, Absent <- Dropped

Nothing == [op |-> "none"]
Garbage == Radix                 \* what a block holds before it is written
Zeros(n) == [i \in 1..n |-> 0]
Live == {o \in Memories : mem[o] # Dropped}

-----------------------------------------------------------------------------
(* MemType *)

matches(actual, expected) ==
  /\ actual.min >= expected.min
  /\ expected.max = Unbounded \/ (actual.max # Unbounded /\ actual.max <= expected.max)
  /\ actual.page = expected.page

can_hold(t, pages) ==
  /\ IF t.max # Unbounded THEN pages <= t.max ELSE pages * t.page <= WordLimit
  /\ t.min <= pages

-----------------------------------------------------------------------------
(* The allocator.  A block that grows may move; a request may be refused.  *)
(* The outcome of a request is a set of [ptr, block]; refused is its ptr   *)
(* Null.                                                                   *)

Unused == {b \in Blocks : block[b] = Free}
Refused == [ptr |-> Null, block |-> block]

allocate(size) ==
  {Refused} \cup
  {[ptr |-> b, block |-> [block EXCEPT ![b] = [i \in 1..size |-> Garbage]]] : b \in Unused}

Resized(s, size) == [i \in 1..size |-> IF i <= Len(s) THEN s[i] ELSE Garbage]

reallocate(ptr, size) ==
  {Refused} \cup
  {[ptr |-> b, block |-> [block EXCEPT ![ptr] = Free, ![b] = Resized(block[ptr], size)]] :
     b \in Unused \cup {ptr}}

-----------------------------------------------------------------------------
(* Reference counts.  The assertion of RcInner::inc stops the process when *)
(* the count wraps.                                                        *)

inc(c, o) == [c EXCEPT ![o] = (@ + 1) % CountLimit]

dec(c, o) == [c EXCEPT ![o] = @ - 1]

(* Counts become c and the heap b; a memory that lost its last reference   *)
(* returns its block.                                                      *)
Dying(c) == {o \in Live : c[o] = 0}

Returned_nothing(b, gone) == b                                      \* mutant
Returned(b, gone) ==
  [p \in Blocks |-> IF \E o \in gone : mem[o].ptr = p THEN Free ELSE b[p]]

drop(c, b) ==
  /\ count' = c
  /\ mem' = [o \in Memories |-> IF o \in Dying(c) THEN Dropped ELSE mem[o]]
  /\ block' = Returned(b, Dying(c))

is_unique_any(c, o) == TRUE                                         \* mutant
is_unique(c, o) == c[o] = 1

take_memory_leaking(o) ==                                           \* mutant
  /\ engine' = o /\ UNCHANGED panicked
  /\ drop(inc(count, o), block)

(* self.memory = reference.clone(): the clone is counted before the old    *)
(* reference is dropped.                                                   *)
take_memory(o) ==
  LET c == inc(count, o)
  IN IF c[o] = 0
       THEN panicked' = TRUE /\ count' = c /\ UNCHANGED <<mem, block, engine>>
       ELSE /\ engine' = o /\ UNCHANGED panicked
            /\ drop(dec(c, engine), block)

-----------------------------------------------------------------------------
(* Memory::check_in_bounds, and the address of an access.                  *)

effective_address(base, offset) == base + offset

SizeOf(o) == IF o = NoMemory THEN 0 ELSE mem[o].size
size_pages(o) == IF o = NoMemory THEN 0 ELSE (SizeOf(o) \div TypeOf[o].page) % WordLimit

in_bounds(o, addr, size) == size <= SizeOf(o) /\ addr <= SizeOf(o) - size

Bytes(word, n) == [i \in 1..n |-> (word \div Promise!Power[i - 1]) % Radix]

(* The block of o with the bytes s written at the address. *)
Written(o, addr, s) ==
  IF s = <<>> THEN block
  ELSE [block EXCEPT ![mem[o].ptr] =
          [i \in 1..Len(@) |-> IF addr < i /\ i <= addr + Len(s) THEN s[i - addr] ELSE @[i]]]

ReadBytes(o, addr, n) == [i \in 1..n |-> block[mem[o].ptr][addr + i]]

(* as i8 as i32, as u16 as u32, ...: from n bytes to a register of w.      *)
Extend(x, n, w, signed) ==
  IF signed /\ 2 * x >= Promise!Power[n]
    THEN (x - Promise!Power[n]) % Promise!Power[w] ELSE x

-----------------------------------------------------------------------------
(* Instructions of the executing module *)

Executing == module # None

(* i32.load, i64.load8_s, ...; out of bounds it traps, see stop.           *)
load_n(n, w, signed, base, offset) ==
  LET addr == effective_address(base, offset)
  IN /\ Executing /\ in_bounds(engine, addr, n)
     /\ last' = Promise!Loaded(engine, base + offset, n, w, signed,
                  Extend(Promise!Number(ReadBytes(engine, addr, n)), n, w, signed))
     /\ UNCHANGED <<mem, block, count, store, loaded, load, engine, module, held,
                    panicked>>

(* i32.store, i64.store8, ...: the low n bytes of a register.              *)
store_n(n, word, base, offset) ==
  LET addr == effective_address(base, offset)
  IN /\ Executing /\ in_bounds(engine, addr, n)
     /\ block' = Written(engine, addr, Bytes(word, n))
     /\ last' = Promise!Stored(engine, base + offset, n, word)
     /\ UNCHANGED <<mem, count, store, loaded, load, engine, module, held,
                    panicked>>

(* Memory::grow, once the engine's own reference is dropped.  The new      *)
(* pages are cleared before the larger size is committed.                  *)
Cleared_nothing(b, ptr, old) == b                                   \* mutant
Cleared(b, ptr, old) ==
  [b EXCEPT ![ptr] = [i \in 1..Len(@) |-> IF i > old THEN 0 ELSE @[i]]]

grow_refused(o, n) ==
  \/ o = NoMemory
  \/ size_pages(o) + n >= WordLimit
  \/ ~can_hold(TypeOf[o], size_pages(o) + n)

grow(o, n) ==
  LET total == (size_pages(o) + n) * TypeOf[o].page
      outcomes == IF mem[o].ptr = Null THEN allocate(total) ELSE reallocate(mem[o].ptr, total)
  IN IF grow_refused(o, n) THEN UNCHANGED <<mem, block>> /\ last' = Nothing
     ELSE IF n = 0
       THEN UNCHANGED <<mem, block>> /\ last' = Promise!Grown(o, 0, size_pages(o))
     ELSE \E outcome \in outcomes :
       IF outcome.ptr = Null THEN UNCHANGED <<mem, block>> /\ last' = Nothing
       ELSE /\ block' = Cleared(outcome.block, outcome.ptr, mem[o].size)
            /\ mem' = [mem EXCEPT ![o] = [ptr |-> outcome.ptr, size |-> total]]
            /\ last' = Promise!Grown(o, n, size_pages(o))

(* memory.size *)
memory_size ==
  /\ Executing
  /\ last' = IF engine = NoMemory THEN Nothing ELSE Promise!Sized(engine, size_pages(engine))
  /\ UNCHANGED <<mem, block, count, store, loaded, load, engine, module, held, panicked>>

(* A refused growth answers -1 and keeps everything.  A memory that a host *)
(* function still references cannot be grown: the instruction traps, and   *)
(* the engine is left with NoMemory.                                       *)
memory_grow(n) ==
  LET o == MemoryOf[module]
      cleared == inc(count, NoMemory)
      others == dec(cleared, engine)
  IN /\ Executing
     /\ IF cleared[NoMemory] = 0
          THEN panicked' = TRUE /\ count' = cleared /\ UNCHANGED <<mem, block, engine, module, last>>
        ELSE IF o = NoMemory \/ is_unique(others, o)
          THEN /\ grow(o, n)
               /\ engine' = o
               /\ count' = dec(inc(others, o), NoMemory)
               /\ UNCHANGED <<module, panicked>>
        ELSE /\ engine' = NoMemory /\ count' = others
             /\ module' = None                       \* MemoryRefNotUnique
             /\ last' = Nothing
             /\ UNCHANGED <<mem, block, panicked>>
     /\ UNCHANGED <<store, loaded, load, held>>

(* An invocation, or a call or a return into another module.               *)
enter_module(m) ==
  /\ load = None /\ engine # Gone /\ m \in loaded /\ m # module
  /\ module' = m
  /\ last' = Nothing
  /\ take_memory(MemoryOf[m])
  /\ UNCHANGED <<store, loaded, load, held>>

(* The run finishes or traps.  The engine keeps its reference. *)
stop ==
  /\ Executing
  /\ module' = None
  /\ last' = Nothing
  /\ UNCHANGED <<mem, block, count, store, loaded, load, engine, held, panicked>>

reset ==
  /\ load = None /\ engine # Gone
  /\ module' = None
  /\ last' = Nothing
  /\ take_memory(NoMemory)
  /\ UNCHANGED <<store, loaded, load, held>>

-----------------------------------------------------------------------------
(* Host functions, and the embedder between two runs *)

(* spacewasm_mem_read and mem_write copy any number of bytes, 0 included.  *)
Seen(access) == IF access.n = 0 THEN Nothing ELSE access

mem_read(addr, n) ==
  /\ engine # Gone /\ in_bounds(engine, addr, n)
  /\ last' = Seen(Promise!Loaded(engine, addr, n, n, FALSE,
                    IF n = 0 THEN 0 ELSE Promise!Number(ReadBytes(engine, addr, n))))
  /\ UNCHANGED <<mem, block, count, store, loaded, load, engine, module, held, panicked>>

mem_write(addr, n, word) ==
  /\ engine # Gone /\ in_bounds(engine, addr, n)
  /\ block' = Written(engine, addr, Bytes(word, n))
  /\ last' = Seen(Promise!Stored(engine, addr, n, word))
  /\ UNCHANGED <<mem, count, store, loaded, load, engine, module, held, panicked>>

mem_size ==
  /\ engine # Gone
  /\ last' = IF engine = NoMemory THEN Nothing ELSE Promise!Sized(engine, size_pages(engine))
  /\ UNCHANGED <<mem, block, count, store, loaded, load, engine, module, held, panicked>>

(* Engine::memory is public: a host function may clone it and keep it.     *)
hold ==
  LET c == inc(count, engine)
  IN /\ engine # Gone /\ held[engine] < MaxHeld
     /\ last' = Nothing
     /\ count' = c
     /\ IF c[engine] = 0 THEN panicked' = TRUE /\ UNCHANGED held
        ELSE held' = [held EXCEPT ![engine] = @ + 1] /\ UNCHANGED panicked
     /\ UNCHANGED <<mem, block, store, loaded, load, engine, module>>

release(o) ==
  /\ held[o] > 0
  /\ held' = [held EXCEPT ![o] = @ - 1]
  /\ drop(dec(count, o), block)
  /\ last' = Nothing
  /\ UNCHANGED <<store, loaded, load, engine, module, panicked>>

-----------------------------------------------------------------------------
(* Loads.  The embedder may load while a host function has paused the      *)
(* engine; the bytes of data segments are written one by one into the      *)
(* memory of the module, which may be the memory of another one.           *)

(* Memory::new for the module's own memory; or an import whose declared    *)
(* type the memory's TYPE matches, whatever the memory has grown to.       *)
link_any_memory(m) == MemoryOf[m] \in store                         \* mutant

link_memory(m) ==
  /\ MemoryOf[m] \in store
  /\ MemoryOf[m] # NoMemory => matches(TypeOf[MemoryOf[m]], ImportType[m])

Create(o, outcome) ==
  /\ mem' = [mem EXCEPT ![o] = [ptr |-> outcome.ptr, size |-> TypeOf[o].min * TypeOf[o].page]]
  /\ block' = IF outcome.ptr = Null THEN block ELSE Cleared(outcome.block, outcome.ptr, 0)
  /\ count' = [count EXCEPT ![o] = 1]
  /\ store' = store \cup {o}

begin_load(m) ==
  LET o == MemoryOf[m]
      owns == o # NoMemory /\ Owner[o] = m
  IN /\ load = None /\ engine # Gone /\ m \notin loaded
     /\ load' = m /\ last' = Nothing
     /\ IF owns
          THEN /\ o \notin Live                   \* this model names a memory once
               /\ IF TypeOf[o].min = 0 THEN Create(o, Refused)
                  ELSE \E outcome \in allocate(TypeOf[o].min * TypeOf[o].page) :
                         outcome.ptr # Null /\ Create(o, outcome)
          ELSE /\ link_memory(m)
               /\ UNCHANGED <<mem, block, count, store>>
     /\ UNCHANGED <<loaded, engine, module, held, panicked>>

data_byte(offset, i, byte) ==
  LET o == MemoryOf[load]
      addr == effective_address(offset, i)
  IN /\ load # None /\ o # NoMemory /\ in_bounds(o, addr, 1)
     /\ block' = Written(o, addr, <<byte>>)
     /\ last' = Promise!Stored(o, offset + i, 1, byte)
     /\ UNCHANGED <<mem, count, store, loaded, load, engine, module, held, panicked>>

finish_load ==
  /\ load # None
  /\ loaded' = loaded \cup {load}
  /\ load' = None /\ last' = Nothing
  /\ UNCHANGED <<mem, block, count, store, engine, module, held, panicked>>

(* Any later byte may be refused: the module is dropped, with its own      *)
(* memory.  What it wrote into another module's memory stays.              *)
fail_load ==
  LET own == {o \in store \cap Memories : Owner[o] = load}
  IN /\ load # None
     /\ store' = store \ own
     /\ drop([o \in AllMemories |-> IF o \in own THEN count[o] - 1 ELSE count[o]], block)
     /\ load' = None /\ last' = Nothing
     /\ UNCHANGED <<loaded, engine, module, held, panicked>>

(* Engine::drop: the store and the engine's own reference.                 *)
destroy ==
  /\ load = None /\ module = None /\ engine # Gone
  /\ drop([o \in AllMemories |->
             count[o] - (IF o \in store THEN 1 ELSE 0) - (IF o = engine THEN 1 ELSE 0)],
          block)
  /\ store' = {} /\ loaded' = {} /\ engine' = Gone
  /\ last' = Nothing
  /\ UNCHANGED <<load, module, held, panicked>>

-----------------------------------------------------------------------------

HostMemories == {o \in Memories : Owner[o] = Embedder}

(* An engine with the memories of its host modules, before any load. *)
Init ==
  /\ \E ptr \in [HostMemories -> Blocks \cup {Null}] :
       LET size(o) == TypeOf[o].min * TypeOf[o].page
       IN /\ \A o, p \in HostMemories : o # p => ptr[o] # ptr[p] \/ ptr[o] = Null
          /\ \A o \in HostMemories : (ptr[o] = Null) <=> (size(o) = 0)
          /\ mem = [o \in Memories |-> IF o \in HostMemories
                     THEN [ptr |-> ptr[o], size |-> size(o)] ELSE Dropped]
          /\ block = [b \in Blocks |->
               IF \E o \in HostMemories : ptr[o] = b
                 THEN Zeros(size(CHOOSE o \in HostMemories : ptr[o] = b)) ELSE Free]
  /\ store = HostMemories \cup {NoMemory}
  /\ engine = NoMemory
  /\ count = [o \in AllMemories |->
       (IF o \in store THEN 1 ELSE 0) + (IF o = engine THEN 1 ELSE 0)]
  /\ loaded = {} /\ load = None /\ module = None
  /\ held = [o \in AllMemories |-> 0]
  /\ last = Nothing /\ panicked = FALSE

Word32 == 0..(WordLimit - 1)
Words(n) == 0..(Promise!Power[n] - 1)

Access ==
  \E access \in Accesses, base \in Word32, offset \in Word32 :
    \/ \E signed \in BOOLEAN : load_n(access[1], access[2], signed, base, offset)
    \/ \E word \in Words(access[2]) : store_n(access[1], word, base, offset)

HostAccess ==
  \E addr \in Word32, n \in {0} \cup {access[1] : access \in Accesses} :
    mem_read(addr, n) \/ \E word \in Words(n) : mem_write(addr, n, word)

Loading ==
  \/ \E m \in Modules : begin_load(m)
  \/ \E offset \in Word32, i \in Word32, byte \in Words(1) : data_byte(offset, i, byte)
  \/ finish_load
  \/ fail_load

Next ==
  /\ ~panicked
  /\ \/ load = None /\ (Access \/ memory_size \/ \E n \in Word32 : memory_grow(n))
     \/ \E m \in Modules : enter_module(m)
     \/ load = None /\ (stop \/ HostAccess \/ mem_size \/ hold)
     \/ reset
     \/ \E o \in AllMemories : release(o)
     \/ Loading
     \/ destroy

Spec == Init /\ [][Next]_vars

-----------------------------------------------------------------------------
(* Properties *)

Cell == 0..Radix

TypeOK ==
  /\ \A o \in Memories :
       mem[o] = Dropped \/ (mem[o].ptr \in Blocks \cup {Null} /\ mem[o].size \in 0..WordLimit)
  /\ \A b \in Blocks : block[b] = Free \/ block[b] \in Seq(Cell)
  /\ count \in [AllMemories -> 0..(CountLimit - 1)]
  /\ store \subseteq AllMemories
  /\ loaded \subseteq Modules /\ load \in Modules \cup {None}
  /\ engine \in AllMemories \cup {Gone}
  /\ module \in Modules \cup {None}
  /\ held \in [AllMemories -> 0..MaxHeld]
  /\ panicked \in BOOLEAN

(* Whatever grew, failed to grow, moved or was dropped, each block of the  *)
(* allocator has exactly one memory, which will return it with the layout  *)
(* it was allocated with: size is what Memory::drop and the next           *)
(* reallocate pass.                                                        *)
BlocksOwned ==
  /\ TypeOK
  /\ \A b \in Blocks : block[b] # Free <=> \E o \in Live : mem[o].ptr = b
  /\ \A o \in Live : IF mem[o].ptr = Null THEN mem[o].size = 0
                     ELSE Len(block[mem[o].ptr]) = mem[o].size
  /\ \A o, p \in Live : o # p /\ mem[o].ptr = mem[p].ptr => mem[o].ptr = Null

(* A count is the number of references there are, whichever operation made *)
(* or dropped them: the store's, the engine's, those of host functions.    *)
References(o) ==
  held[o] + (IF o \in store THEN 1 ELSE 0) + (IF o = engine THEN 1 ELSE 0)

CountsExact == ~panicked => \A o \in AllMemories : count[o] = References(o)

(* No reference outlives its memory.  In particular the engine's stays     *)
(* valid after the run that cached it, through failed loads, until reset.  *)
ReferencesValid ==
  \A o \in Memories : mem[o] = Dropped => References(o) = 0

(* A guest executes with the memory of its module: grow, which drops the   *)
(* engine's reference first, gives it back or stops the guest.             *)
EngineHasMemoryOfModule ==
  Executing /\ ~panicked => engine = MemoryOf[module]

(* Rc's counts keep every memory alive exactly as long as it is referenced, *)
(* and the engine's reference is to the memory of the code it executes.    *)
ReferencesCounted == CountsExact /\ ReferencesValid /\ EngineHasMemoryOfModule

(* A module that imports a memory declared how large it is at least and at *)
(* most.  The linker compares that with the type of the memory and not     *)
(* with its size; the size still satisfies it, for as long as it is used.  *)
ImportsStaySatisfied ==
  \A m \in loaded :
    LET o == MemoryOf[m]
    IN o # NoMemory /\ Owner[o] # m =>
         /\ size_pages(o) >= ImportType[m].min
         /\ ImportType[m].max # Unbounded => size_pages(o) <= ImportType[m].max

(* Host code that keeps a counted reference may keep a slice with it       *)
(* (Memory::get_slice): the memory does not move or grow meanwhile.        *)
NoGrowthWhileHeld ==
  [][\A o \in Memories : held[o] > 0 /\ held'[o] > 0 => mem'[o] = mem[o]]_vars

(* The bytes of every memory evolve as ByteMemory says. *)
KeepsPromise == Promise!Spec

=============================================================================
