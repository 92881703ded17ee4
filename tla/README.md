# TLA+ models of spacewasm

spacewasm is an embedded WebAssembly runtime: it streams a module in through a
small ring buffer, validates it and compiles it in one pass to a compact 16-bit
IR held in pages, and runs the IR with an interpreter whose operands, locals
and call frames share one fixed array of words. Nothing is preempted and nothing
is shared between threads; what makes the system hard is that every part runs in
fixed memory with unchecked accesses (bounds are argued, not tested), that
execution is cut into `run` calls with pauses and traps in between, and that
loading a module can fail half way.

Paths below are relative to the repository root.

## 1. Inventory

| Component | Source | State | Operations | Hard part | Correct when |
|---|---|---|---|---|---|
| Engine and interpreter | `src/interpreter.rs`, `src/engine.rs`, `src/store.rs` (Engine) , `src/stack.rs` | pc, sp, fp, stack, module context, result, pending pause | invoke, run, resume, reset; calls, returns, branches, locals, host calls, memory.grow | one unchecked array; frames that encode the caller in 32 bits; runs interleaved with pauses, traps, resets | every access is in bounds, every return finds its caller, code sees its own module, the life cycle never sticks or panics |
| Code builder | `src/text.rs` (CodeBuilder, TextBuilder), `src/compiler.rs`, `src/code.rs` | pages, control frames, forward-branch chains threaded through the emitted words, operand types, high-water mark | emit, branch, block/loop/if/else/end | links live in the words they will be overwritten in; an `else` cuts the tail off a chain | every branch ends at its label; no placeholder survives; height and high water are right |
| Page allocator | `src/util/paging.rs`, `src/util/alloc.rs` | buckets (bump pointers, counts), poison flag | alloc, dealloc, drop | bump allocation with counting frees; poisoned after failure until empty | live blocks never overlap; an empty allocator is like new |
| Reader | `src/reader.rs`, `src/stream.rs`, `src/util/circular_buffer.rs` | ring of 64 bytes, outstanding chunk, offset, nested limits | next, skip, read_vec_in, with_limit, LEB128 | chunks borrowed from the embedder; reads that cross chunk, ring and limit | bytes are delivered in order, once; every chunk goes back once; a limit is never crossed |
| Module loader | `src/module.rs`, `src/imports.rs`, `src/constant.rs`, `src/types.rs`, `src/visitor.rs` | sections, imports, exports | one pass over the sections, link imports, fill elements and data | side effects on other modules before the load has succeeded | a failed load leaves the store as it was; a table entry names a loaded function of its type |
| Store | `src/store.rs`, `src/host.rs` | modules, host modules, zero memory and table | push/pop module, get_memory, get_table, host calls | 8-bit module references; imports resolved to owners; a host function is taken out while it runs | references stay valid, owners own |
| Linear memory | `src/memory.rs` | bytes, pages, maximum | load, store, grow | reallocation; overflow of addresses | access iff in bounds; grow keeps contents, zeroes the rest, respects the maximum |
| Reference counts | `src/util/rc.rs` | count, value | clone, drop, get_mut | uniqueness decides whether memory may grow | freed exactly at zero; get_mut only when unique |
| Containers | `src/util/{vec,static_vec,box_,inner_vec,string}.rs` | buffer, length | push, pop, truncate, drop | partially initialised buffers | each element dropped once |
| Numeric instructions, IR reader, opcodes | `src/interpreter.rs`, `src/ir_reader.rs`, `src/opcode.rs`, `src/constant.rs` | none | read, validate, encode, decode and execute one instruction; evaluate a constant expression | ends of the number ranges, extended immediates, sp counted by hand, two evaluators | a body computes what WebAssembly says, or traps for the reason it says |
| C API | `crates/spacewasm_c_api` | handles of allocators, host vector and engine; result; closures taken out by callbacks | create, load, look up, invoke, run, resume, reset, destroy; callbacks | who owns a handle after an error; calls from within a callback | misuse is answered with a status and changes nothing |
| WASI host, tools | `crates/spacewasi`, `crates/spacewasm_{util,std,bench,c_example}`, `crates/fuzzing` | - | - | - | - |

How they interact. The embedder (C API or Rust) owns the engine and is the only
caller: it loads modules into the store (reader → loader → code builder, memory
from the page allocator), then alternates `invoke`, `run`, `resume` and `reset`.
`run` executes compiled words on the engine's stack, reaching the store for
another module's memory and table, and host functions for calls out. Nothing
runs between two calls of the embedder. What couples the parts:

- the *high-water mark* of the builder is the only bound on the unchecked stack
  accesses of the interpreter (`Compiler.stack_highwater`, `Engine.StackUsage`);
- the *label words* written by the builder are all the interpreter knows of the
  control structure (`CompiledRun`);
- the *module references* written by the loader into tables are indexed without
  a test by indirect calls (`Loader.call_indirect`);
- the reference the engine keeps to a table makes a load fail
  (`Loader.TableIsUnique`);
- the *reference count* of a memory decides whether it may grow
  (`LinearMemory.is_unique`), and the engine's cached reference outlives the run;
- the *closure* of a host function is out of its place while it runs, which is all
  that stops a callback from reaching itself (`CApi.taken`);
- the *pc* that `run` keeps while a host function runs is the only thing of a call
  that a reset from within a callback does not clear (`CApi.callback`).

## 2. Plan

In place:

1. `Engine`, with its abstract specification `Activations` and the refinement
   `EngineRefinement`; proofs in `EngineProofs`.
2. `Compiler`, composed with the interpreter's branches in `CompiledRun`; proofs in
   `CompiledRunProofs`.
3. `PageAllocator`; proofs in `PageAllocatorProofs`.
4. `Loader` (modules, imports, store, the loading side of the C API); proofs in
   `LoaderProofs`.
5. `Reader`, with its abstract specification `Cursor`; proofs in `ReaderProofs`.
6. `LinearMemory`, composed with reference counts, loads and the engine's cached
   reference, with its abstract specification `ByteMemory`; proofs in
   `LinearMemoryProofs`.
7. `Numbers`, `Numerics`, `FunctionBody`: from the bytes of a body through LEB128,
   validation, the IR and the interpreter to its result, against `WasmNumerics`,
   a definition of what WebAssembly says it computes.
8. `Containers`, with its abstract specification `OwnedSequence`; proofs in
   `ContainersProofs`.
9. `CApi`: the handles, statuses and callbacks of the C interface; proofs in
   `CApiProofs`.

Left, in this order:

10. The memory argument of loads and stores and the split of a number at a page
    boundary, in `FunctionBody`.
11. A code builder shared by several loads, page by page, and `pop_module`, in
    `Loader`; the two-step read and push of the Rust interface, where two modules
    read before either is pushed get one index.
12. A proof of `ExecutionMatchesValidation`, from the invariant of
    `CompiledRunProofs`: what is missing is that the operands noted at an
    instruction and those noted at each of its successors fit.

## 3. Modules and the code

| Module | Models | Correspondence |
|---|---|---|
| `Engine` | `interpreter.rs`, `engine.rs`, the engine part of `store.rs`, `stack.rs` | One action per group of instructions that treats stack, frames and context alike (`Operate`, `local_get`, `local_set`, `br_impl`, `Return`, `Call`, `call_host`, `memory_grow`, `InstructionTraps`) and one per entry point (`invoke`, `invoke_type_mismatch`, `run`, `resume`, `reset`). Frame words, the 8-bit module delta and the 16-bit frame length are computed as in the code. |
| `Activations` | what Wasm execution promises | A stack of activations with locals and operands of their own; no layout, no frame words, no stack limit. |
| `EngineRefinement` | - | The mapping: walk the frame words down from `fp`, one at a time as `return_` does, and read off each activation. |
| `EngineProofs` | - | Proofs about `Engine`, with the refinement of `Activations`. |
| `Compiler` | `compiler.rs`, `text.rs`, the labels of `code.rs` | One action per handler of `Compiler`; the state is that of `TextBuilder` and `CodeBuilder`. A call that returns `Err` ends the load, so an action is enabled exactly when the code accepts the call. |
| `CompiledRun` | the interpreter on the words `Compiler` wrote | `br_impl`, `if`, `br_table`, `return`, `select`, `drop` as they follow labels; conditions and table indices are arbitrary. |
| `CompiledRunProofs` | - | Proofs about `Compiler`, as part of `CompiledRun`. |
| `PageAllocator` | `util/paging.rs` | `alloc_in_page`, `alloc_new_page`, `dealloc`; failing calls change nothing. |
| `PageAllocatorProofs` | - | Proofs about `PageAllocator`. |
| `Loader` | `module.rs`, `imports.rs`, modules and tables of `store.rs`, `spacewasm_load_module` and `spacewasm_invoke` | One action per section, per element segment and per element entry, `fail` anywhere, `finish` with `push_module`; and the execution between loads, as far as it chooses the module that runs and the table it references. |
| `LoaderProofs` | - | Proofs about `Loader`. |
| `Reader` | `reader.rs`, `stream.rs`, `util/circular_buffer.rs` | `read_u8`, `expect_u8`, `with_limit` (entry and exit), `drop`; `Peek` is `peek_u8` with `fill_buffer`, over every answer of the stream. |
| `Cursor` | what a reader promises | A position, a limit, and the byte at the position. |
| `ReaderProofs` | - | Proofs about `Reader`, with the refinement of `Cursor`. |
| `LinearMemory` | `memory.rs`, `util/rc.rs`, the memory of `store.rs` and `interpreter.rs`, the data section of `module.rs`, `spacewasm_mem_*` | One action per kind of access (`load_n`, `store_n`, `mem_read`, `mem_write`), `memory_grow`, `enter_module`, `reset`, `hold` and `release` of host code, and the steps of a load: `begin_load`, each `data_byte`, `finish_load`, `fail_load`. Blocks of the allocator are explicit: a growth may move, and what it uncovers is garbage until it is cleared. |
| `ByteMemory` | what a linear memory promises | An array of bytes that starts as zeros and only grows, by zeros; a write changes the bytes it addresses. |
| `LinearMemoryProofs` | - | Proofs about `LinearMemory`, with the refinement of `ByteMemory`. |
| `Numbers` | the LEB128 decoders of `reader.rs`; Rust's integer and float primitives | Integers of a given width as the number of their bits; floats as a class, a sign and a magnitude. |
| `Numerics` | `opcode.rs`, the numeric instructions of `compiler.rs` and `interpreter.rs` | One case of `Execute` per macro or function of the interpreter, on the words of the stack and `sp`. |
| `WasmNumerics` | what WebAssembly says they compute | Written from the mathematics of the values, with no words, no `sp`, no rounding of intermediate results. |
| `FunctionBody` | `read_code`, `compiler.rs`, the immediates and locals of `text.rs` and `code.rs`, `ir_reader.rs`, `constant.rs` | Byte by byte: `Reading` an immediate, the handler of the visitor (function or constant expression), the words written, `Step` of the interpreter on them. |
| `Containers` | `util/{vec,inner_vec,box_,string,static_vec}.rs` | One action per method that moves, clones or destroys a value or owns a block; a panicking or failing path is part of the action. A `Box` of a zero-sized value has actions of its own (`new_box_unit`, ...), for it has no block and is not moved into. |
| `OwnedSequence` | what a container promises | A sequence that owns its elements. |
| `ContainersProofs` | - | Proofs about `Containers`, with the refinement of `OwnedSequence`. |
| `CApi` | `crates/spacewasm_c_api`, `host.rs`, `Engine::call_host_fn` | One action per exported function, with its checks in order; `run_begins`, the callbacks and the ways a run ends as steps of their own, so that a callback may call back in. What a run does after a callback reset the engine and did not trap is marked (`discarded`, `panicked`) and not followed. |
| `CApiProofs` | - | Proofs about `CApi`. |
| `MC*` | - | Instances for TLC: no new behaviour. |

What is abstracted, and why that loses nothing the properties speak about:

- *Engine.* A body is any instruction sequence that keeps the operand height
  between 0 and `StackUsage`. That is what validation establishes and
  `CompiledRun` checks of the builder; so `Engine` covers every program a
  validated module may contain, over small numbers of words. Operand types are
  dropped (a two-word value is two words), a capacity failure of `call_impl` is
  kept apart from the other traps because it comes after the context was swapped.
  A host function is one step and answers or traps: one that calls back into the
  engine it was called from is modelled for C (`CApi`), not for a Rust closure,
  which is given the engine itself.
- *Compiler.* Numeric instructions differ only in what they pop, push and how
  many words they take (`Ops`). Addresses are linear: a page boundary only splits
  a number. `goal`, `typing` and the `branches` of a frame are history variables:
  they record what a branch was meant to reach and are read only by properties.
- *Loader.* Function bodies, global values and memory bytes are left out; `code`
  may be refused like any section. `orphans` and `serial` are history. The C API
  loads only while no call is in progress (`spacewasm_load_module` answers
  `ERR_WRONG_STATE` otherwise) and reads and pushes in one call, so no two loads
  overlap. References keep their width, to modules and to hosts: a reference to a
  host is cut to `RefLimit` values where the code does it, after the item was found
  and its type compared, and what is indexed by it afterwards may not be there
  (`link_panics`, `import_panics`, `body_panics`, `call_indirect`). The position of
  an item in its host module, which the code cuts to 16 bits, is not cut.
- A reset ends the run in `Loader` and `LinearMemory`: one made from within a callback
  is followed by a trap there, as `Orderly` says in `CApi`.
- *Reader.* Byte number n has the value n, so the order of delivery is visible.
  All other operations are sequences of `read_u8`.
- *LinearMemory.* A module may execute any access at any address: which accesses a
  program makes is the matter of `Engine`. Widths are counted in bytes of `Radix`
  values. A module name is loaded at most once at a time and its memory has a name,
  so that sharing is visible in the state.
- *Numbers.* All widths are constants (8-bit words, 4-bit halves, ... in the run) in
  the proportions that the code relies on, stated in `NumbersAssumption`. Floats are
  exact magnitudes with a limited significand and an unlimited exponent: every
  comparison, conversion, rounding, min, max, copysign and reinterpretation is
  modelled, NaN payloads are not, and `+`, `-`, `*`, `/` and `sqrt` are left to Rust
  and libm.
- *Containers.* A value is a token. An allocation that is refused before anything
  changed is a step that does nothing and is left out. Values without a size are
  followed through boxes, by who holds them and how often they were destroyed:
  `Vec::new_in` refuses such types at compile time (`src/src/util/vec.rs:148`).
- *CApi.* Strings are kept as far as calls tell them apart (null, not UTF-8, too
  long, a name). What a guest computes is any outcome its type allows; the IR a
  load emits is a number of words.

A definition marked `mutant` is the next definition with one plausible bug (a
dropped guard, a missing reset, an off-by-one). No specification uses it; it is
there to show that the property named with it in `PROJECT.json` would notice.

## 4. Runs

Every passing run explores its instance completely. All constants that bound an
instance, and why the bound still shows the behaviour:

| Run | Question | Bounds |
|---|---|---|
| `engine` | Do stack discipline, context and life cycle survive every interleaving of runs, pauses, resumes, traps and resets? Do packed frames behave as separate activations? Does a run return? | Two functions and a host function over two modules with references 0 and 200, so that the 8-bit delta wraps; two values, so that a stale or misplaced word is visible; `StackLen` = 8, where two nested calls fit and a third traps; `CodeWords` = 3, one call and one more word; `MaxFuel` = 2, so that runs stop between a call and its return; `FrameLimit` = 6 for 2^16, just above the longest frame. |
| `second_pause_panics` | Finding 1. | As `engine`, without `ResumeFirst`. |
| `compiled` | Are forward branches resolved, and operands unwound, as validated? Do polymorphic operands of dead code leak into live code? | Two families of bodies (`Bodies`). Up to 11 words and 3 open frames of block, if, else, br_if and br_table: three labels on one chain, an else that cuts a chain, a br_table of one case and its default over two blocks. Up to 6 words and 2 frames with loops, unreachable, drop, select, return and br: a branch, dead code with two unknown operands and code that is live again. Constants of one and two words; `MaxBackpatch` = 2, which refuses nothing that fits; `ImmRange` = 1 so that a br_table needs the second opcode word; `JumpRange` = 8 (2^21), so that the longest jumps are refused; `DepthRange` = 4 (2^8). |
| `heap` | Do blocks stay apart and backed; is an empty heap new? | Two buckets of 6-byte pages at bases of different alignments; requests of 1, 2 and 3 bytes aligned to 1, 2 and 4, and one that no page holds. Two pages are what reuse of a bucket next to a held one takes. |
| `loader` | Do table entries keep their meaning through loads that fail and runs in between? Do imports name owners of the right type, and is a loaded module closed? | Three kinds of engine (`Engines`). One runs modules that write into their own tables and a host's, of one entry: three loads (one succeeds, one fails, one takes the place of the failed one), none of which imports from another, a store of two modules whose references wrap at `RefLimit` = 2 (2^8), failures of allocation and of the binary at every point. One links: a named module and a second one that imports from it and from the host, two imports, so that own indices start behind imports; one symbol that names a function, a global and a table. The last has three hosts, one more than `RefLimit`: what is imported from the third is linked to the first, which has no function and no table, a global of another type and a smaller memory; modules re-export it, call it, write it into tables, and a second one imports from the first, its table too, and may fail. The constraint `FirstIsNamed` leaves out, for the last two, nameless first modules, from which nothing is imported. |
| `loader_allocation_failure` | Finding 2. | As the first kind of `loader`, allocation failures only. |
| `loader_memory_section` | Finding 3. | One import of a memory, no failures. |
| `linear_memory` | Do memories shared by modules, the engine and host code behave as arrays of bytes? Is every block and reference accounted for? | Memory A (pages of 2 bytes, 1 to 2 pages) of m1, imported by m2 and refused to m5, which wants more than it starts with; memory H of a host, which starts empty and has no maximum; m4 has none. Bytes are bits; `WordLimit` = 4 addresses, so that addresses and page counts overflow; three blocks, one more than memories, so that a growth can move; `CountLimit` = 4, so that counts wrap; one kept host reference. |
| `containers` | Is each value owned once, each block freed with its layout, and order kept? | Three containers of any kind (a source, a target and a neighbour), four values of which two pairs are equal, two blocks, capacities up to 2; two values without a size. Those share no state and no guard with the others, and the constraint `UnitsApart` lets them come and go while no other value exists. |
| `c_api` | Are handles counted and consumed as documented? Do refused calls change nothing? Is what is looked up usable? | Two allocators, one host vector, one engine for up to `ModuleLimit` = 2 modules; an image that imports a host function and re-exports it beside its own, and one that imports from the first and has a start function; for each call good arguments and each argument gone wrong; code for two loads. `Orderly`: a callback answers with the type it declared, does not run the engine that called it, and traps once it has reset it. |
| `reader` | Is the reader a cursor that delivers each byte once and gives each chunk back? | A ring of `Capacity` = 3 (64), chunks of 0 to `MaxChunk` = 5 bytes: shorter, equal and longer than the ring; `MaxBytes` = 8, more than two refills; `MaxNest` = 2 limits, any length up to `UsizeMax` = 9, which overflows. |
| `function_body` | Does a body compute what WebAssembly says, and is it accepted when it says so? | Every numeric instruction but float arithmetic, on words of 8 bits, with groups of 7 as in the code (so an i32 takes two bytes and an i64 three, with padding), immediates of 2 bits inline; bodies of up to three instructions and four bytes of immediates; floats on both sides of every bound a conversion has. Locals over frames with two, one and four parameters, the last with more locals than an index (16) or an offset (7) can name; globals of the module, of other modules and of hosts, mutable or not; constant expressions over them. |

`linear_memory`, `containers` and `c_api` use symmetry over handles and block
addresses, which no action compares or orders. `linear_memory` and `c_api` use a
`VIEW` that leaves out `last`, the record of the last call: no action reads it, the
action properties read only `last'`, and the view of `c_api` keeps the one fact about it
that an invariant reads.

Deadlock is checked in the engine and heap runs. The others may really stop: a
body ends (`CompiledRun`, `FunctionBody`); a panic or the last of the loads ends the
store's history (`Loader`, `CApi`); a dropped reader does nothing more (`Reader`); an
engine that was dropped leaves nothing to do (`LinearMemory`).

Fairness. Only `Engine` has some: weak fairness of `Step`, the run loop. It is a
plain Rust loop that nothing else can block or preempt. The embedder is never
obliged to call, a host function answers in one step, and a stream, a load or a
compilation has no liveness property. `RunReturns` then says that no instruction
keeps the loop going without using fuel.

### Findings

1. *A second pause aborts.* `run` does not ask whether the engine is paused. An
   embedder that runs on after a pause, whose guest pauses again, reaches
   `panic!("Unexpected paused engine state")` (`src/src/interpreter.rs:1591`).
   All other misuse of the life cycle is answered with an error. The passing
   engine runs and the proofs assume `ResumeFirst`: a pause is answered by
   `resume` or `reset` before the next `run`. A related effect, seen without that
   assumption: when a run past the pause finishes, the pending result survives,
   and a later `resume` is accepted by an idle engine
   (`src/src/interpreter.rs:188-196`).
2. *Allocation failure leads to a panic.* The element section writes into an
   imported table before the code section allocates; when that fails, the entries
   stay, name a module that does not exist, and the next indirect call through one
   indexes the store out of bounds. `README.md:98` excludes panics from allocation
   failures.
3. *An empty memory section forgets an imported memory*
   (`src/src/module.rs:291`).

Met on the way and not made runs of their own:

- `Some(n)` in `max_backpatch_iterations` accepts a chain of n + 1 labels
  (`src/src/text.rs:321`), where the comment at `src/src/text.rs:244` rejects "a
  backpatch chain longer than n". `Compiler.WithinLimit` has what the code does.
- With more than 65535 parameters and locals the sum at `src/src/text.rs:613`
  overflows: a build with overflow checks panics, `FunctionBody` has both outcomes.
- `spacewasm_check_func_signature` is documented to answer `BAD_ARG` for a bad
  character (`capi.rs:536`) and answers `BAD_SIGNATURE`; `CApi` has the latter.
- A run of an idle engine answers `TRAP` with the reason `TRAP_NONE`
  (`CApi.run_refused`).
- `spacewasm_reset` is documented to zero the guest's memory
  (`capi.rs:895`); it drops the engine's reference to it, and the bytes stay
  (`LinearMemory.reset`).
- A module with an empty name can be loaded many times and be imported from
  (`src/src/module.rs:110`).
- `HostModuleRef::new` keeps 8 bits of a host module's index (`src/src/visitor.rs:294`),
  and nothing limits their number: `Store::from_host_modules` limits only the loaded
  modules (`src/src/store.rs:23`). Type and limits of an import are compared where it was
  found, before (`src/src/imports.rs:41`, `:146`, `:231`). With more than 256 host modules
  an import of a later one is linked to an item of an earlier one, of whatever type; if
  that host has no such item, the process panics: while the next module is linked
  (`imports.rs:107`, `:199`), while the import section is read (`src/src/module.rs:240`,
  `:268`), while a body that uses it is compiled (`src/src/compiler.rs:236`,
  `src/src/text.rs:655`) or when it is called through a table
  (`src/src/interpreter.rs:1644`). `Loader` does all of it. What its properties say of
  hosts they say where `Nameable` holds, that is of engines with no more hosts than a
  reference tells apart; without that condition the third engine of the run violates
  each of them.
- `Box::new_in` does not move a zero-sized value into the box (`src/src/util/box_.rs:82`):
  it is destroyed at return, while the box holds it. `Box::drop` destroys it again
  (`box_.rs:182`), and `into_inner`, "the inverse of `Box::new_in`" (`box_.rs:103`), hands
  it out destroyed. `OwnedOnce` is about values with a size, and says that a value
  without one is destroyed twice only if it was put in a box.
- `spacewasm_reset` is documented to discard "any in-progress or completed call"
  (`src/crates/spacewasm_c_api/src/capi.rs:892`) and refuses nothing, so a callback may call
  it. Then the engine is idle, `load_module` and `invoke` are accepted, and when the
  callback continues, `run` goes on at the pc it kept (`src/src/interpreter.rs:377`-`384`)
  on a stack that was emptied under it; a pause leaves the discarded call in place. Only a
  trap is clean. `CApi` has the reset, and `Orderly` asks the callback to trap after it.

## 5. Proofs

TLC's instances are small; these theorems hold for every value of the constants
that satisfies the named assumptions.

`EngineProofs`, under `EngineAssumption` (module references are 8-bit, word counts
are naturals, no function's frame exceeds the 16-bit length) and, in the theorems,
`ResumeFirst`. `StackInBounds` is not inductive: a return leaves a frame for the
caller's, and nothing in the registers says what the caller's is. The invariant is
`IInv == TypeOK /\ Framed /\ Runs`: there is a chain of frames, one for each live
call, where each frame word leads to the one below (length, delta, return pc), each
frame's locals and operands fit under `StackLen`, a callee's result fits where its
arguments were, and frame i lies above the operands that its callers keep. The
registers point at the last one. Instructions write only above the last frame or
into its own locals and arguments (`StaysInFrame`, `FramesKept`); a call adds a
frame above everything (`CallKeeps`); a return removes the last (`ReturnKeeps`).
From it: `EngineTypes`, `EngineStackInBounds`, `EngineContext`,
`EngineIdleIsClean`, `EnginePauses`, `EngineNeverPanics`. The step from a callee's context to its
caller's is the lemma `DeltaRestores`: the signed 8-bit difference of two 8-bit
references, read back as unsigned and subtracted modulo 256, is the identity.

`EngineImplementsActivations` is the refinement of `Activations`, under `IInv` and
`RefinementAssumption` (`None` is no result). The mapping of `EngineRefinement` knows
only the frame words; the chain of `IInv` is what a proof knows. So first: the walk
down from `fp` finds exactly the frames of the chain, in number
(`DepthCountsFrames`, by induction) and in place
(`BaseFindsFrames`). What the abstract call stack is then depends, for each caller,
only on the words below its callee (`AgreeBelow`, `SameCallers`), and those no
instruction of the callee touches. Each step of `Engine` is one step of `Activations`:
an instruction that stays in its frame is `Compute`, `GetLocal`, `SetLocal` or
`Branch`, where the words moved are compared one by one; a call is `Enter`, where
arguments become locals and the caller keeps the operands below them (`CallsGrow`); a
return is `Leave`, where the result lands on the operands the caller kept
(`CallsShrink`); a host call, its answer, an invocation, a trap and a reset are the
steps of the same names; `run` and a refused invocation stutter.

`CompiledRunProofs`, under `CompilerAssumption` (types are types, counts and limits are
numbers): for any set of bodies of any length and nesting, any instructions and any
limits. The labels that wait for the end of a block are linked through their own
words, so a chain is a matter of all the code, and `Chain` finds it as the least set
closed under the links. The invariant is `IInv`. Its part `Woven` says that the labels
that branch to the end of an open frame are `Chained` from its target, newest first,
each to the next older one and the oldest with a jump of 0; that no two frames share a
label; that every label either has its goal or waits on one chain, never both; and
that a label with a goal jumps there. `ChainIsBranches` shows that a chain of this
shape is what `Chain` finds, with no induction: a label that a closed set misses has a
newest one among its kind, and what links to that one is in the set. Its part `Framed`
says that no frame is higher than the operands or than the frames within it, and that
the frame of the function has no chain; the handlers need it to find their labels and
results, and `finish` to conclude that nothing waits any more. What a handler does to
the weave is one of a few things, each a lemma: it adds an opcode (`WovenOp`), a label
whose goal is known (`WovenGoal`), a label that waits (`WovenLink`), a frame
(`WovenGrows`); it leaves a frame and patches its whole chain (`WovenShrinks`); or it
hands a chain, without its oldest label, to the frame of an else arm (`WovenElse`,
where the label before the oldest becomes the last one). Each handler is then such a
lemma with its own arithmetic of addresses (`OpKept` to `ElseKept`). From it:
`CompiledTypes`, `CompiledPendingBranchesLinked` and `CompiledBranchesReachTheirBlock`.
For these proofs the words written are put with `Put`, and `PopAll` recurses with a
function.

`PageAllocatorProofs`, under `HeapAssumption` (the backing allocator's pages do not
overlap). The invariant adds to the properties that held pages are distinct, that
a page's count is the number of live blocks in it (`CountsExact`), that a poisoned
heap holds a page, and that an unpoisoned heap has no empty bucket before a held
one (`NoHoles`). From it: `HeapTypes`, `HeapBlocksDisjoint`, `HeapBlocksBacked`,
`HeapFreshWhenEmpty`, and the action property `HeapPagesFullBeforeNew`, which
needs `NoHoles`: the search for room stops at the first empty bucket.

`ReaderProofs`, under `ReaderAssumption` (a ring of at least one byte, no more bytes
than a `usize` counts). `NothingLost` says where each byte is that the embedder has
handed over and the reader has not delivered: in the ring, in order, and then in the
rest of the chunk. It holds the types, and with `ChunksComeBack` it is inductive. The
lemma `Refill` says that an empty ring filled with n consecutive bytes holds them in
order however far round it starts; `PopFront` that taking the first leaves the
others; `PeekFacts` that a peek, whatever the stream answers, leaves the bytes ahead
as they were. From them: `ReaderNothingLost`, `ReaderReturnsChunks`, and
`ReaderIsACursor`, the refinement of `Cursor` step by step.

`LinearMemoryProofs`, under `MemoryAssumption` (each memory has at most one owning
module, counts go to at least 3, the sizes a type allows have addresses). The counts
are exact only because of what else the store keeps together: the invariant adds
`Linked`, that the memories of the loaded modules and of the one being read are in
the store, and that no loaded module has the memory the load in progress owns, which
is what allows `fail_load` to let go of it. A count that would wrap panics, a panic
ends the process, and the invariant is claimed as long as there is none. From it:
`MemoryReferencesCounted` (a count is the number of references, and no reference is
to a dropped memory) and `MemoryStillWhileHeld` (a memory neither moves nor changes
its size while host code holds it).

A second invariant, `Heap`, is about bytes: each live memory has a block of its own
of exactly its size, a whole number of pages within its type (`Backed`), and what an
importer was linked to still matches what it declared (`ImportsLinked`). It needs the
first, because only a reference that is counted keeps a block; unlike the first it
survives a panic. Each step is of one kind (`HeapStep`): it leaves the blocks alone,
reads, writes in bounds, grows a memory, creates one or drops those without
references; and each kind keeps the blocks apart whatever block the allocator
chooses. From it: `MemoryBlocksOwned`, `MemoryImportsSatisfied`, and
`MemoryKeepsPromise`, the refinement of `ByteMemory`: a load or store of any width,
with sign extension, of any number of bytes, is a read or write of the array there.
For that, the number a sequence of bytes stands for and the bytes of a number are
recursive functions, and the lemmas about them (`NumberInRange`, `SignExtends`)
go by induction.

Two lemmas make that possible: induction with a set in the place of the predicate
(`SetInduction`), and existence of a recursively defined function with a function in
the place of the step (`Recursion`), both from the theorem that every set of numbers
has a least one.

`LoaderProofs`, under `LoaderAssumption` (no more modules than a reference tells
apart; host modules as many as there may be). The invariant has four parts. `Store`: every loaded module is
`Valid`: its imports fit a reference, exist and have the types it was validated with
if they are `Nameable`, its exports name something of it, a start function has the type
of one, and its slots name owners, of whichever host.
`Loading`: the module being read is as valid at every point between two sections, and
what has not been read is not there, so that an error at any point loses nothing
others rely on. `Tables`: the cells are those of the hosts' tables, of the modules that
own one, and of the load. `Meaning`: each written cell that no failed load left behind
names an existing function of its type, or the load in progress wrote it and its
module *will* have that function under the reference the cell already has
(`WillName`); `push_module` turns the second into the first because the next reference
does not change during a load. From it: `ImportsResolve`, `ImportsAgree`,
`LoadedAreClosed` (with the types) and `CellsKeepMeaning`; the last also says that the
process panics only on a cell that a failed load left behind, which is finding 2, or
on a reference to one of too many hosts (`TooManyHosts`, `IndexStep`), and on nothing
besides. What the linker finds is a reference of any length (`ItemFound`,
`HostProvides`); that it is the same one after it was cut is `ShortReference`, and
the only place that needs few hosts.

`ContainersProofs`, under `ContainersAssumption`. `Buffers` says of each container
that its indices fit its capacity, and that it alone has the block, of its capacity,
that it will free. Each method is then one of eleven effects on the contents
(`Effect`: nothing, a value is made, appended, taken at either end, ...), whatever it
does to cells; that part is proved method by method with its failing paths. What
remains is about values alone: `Divided` says that the values that exist and are not
owned by callers are divided among the containers, none twice. Values without a size
leave all of that alone, and are inductive by themselves. From them:
`ContainersOwnedOnce`, `ContainersBuffersOwned`, and `ContainersKeepOrder`, the
refinement of `OwnedSequence`.

`CApiProofs`, under `CApiAssumption`. The invariant has three parts. `Owning`: each
vector is within its capacity; names are distinct; every import and start function of a
loaded module resolves to a function that exists; and each allocator's count is that
of its users, where `AllocatorsCounted` had to be strengthened: an allocator that was
not created yet has no users, or creating it would reset the count. `Running`: a run
executes the pending call, or a callback has reset the engine under it; a callback is
part of a run, keeps the call it interrupted, which is still the engine's unless it
was reset, and exactly its closure is out of its place. `Calling`: a pending call is of a function that exists, and
there is a result only when no call is pending. Almost all functions leave the modules
alone (`Retains`), and the two that do not only add to them (`Grows`), so what resolved
still does. From it: `CApiInvariant`, `CApiAllocatorsCounted`, `CApiFoundIsUsable`,
`CApiResultIsOfLastCall`; the action properties `CApiCallbacksCannotDisturb`,
`CApiRefusedCallsChangeNothing` and `CApiHostConsumedAsDocumented`; and `CApiNoPanic`,
whose hypothesis `Orderly` is needed: a callback that answers with another type than
it declared, or runs the engine that called it, does abort, and one that resets the
engine and then continues lets `run` execute on an empty stack.

What the assumptions say of the code:

| Assumption | Holds because |
|---|---|
| Marks (`None`, `Null`, `Free`, `Dropped`, `Absent`, `Uninit`, ...) are none of the values they stand beside | They stand for variants of an `Option` or an `enum`. |
| A page minimum is below 2^32, a maximum not below it, and the bytes of both have addresses (`MemoryAssumption`) | `MemType::read` refuses the rest (`src/src/types.rs:289`, `:337`). A host that builds a memory's type itself is assumed to keep to the same. |
| An access moves no more bytes than its register has; a byte has more than one value; at least three references can be counted | The instructions of `interpreter.rs`; `u8`; `u32`. |
| Modules are at most `RefLimit` (`LoaderAssumption`) | `src/src/store.rs:23` refuses more than 256. Nothing is assumed of the number of host modules, see section 4. |
| Images are `ValidImage` (`CApiAssumption`) | A module whose exports or start function name nothing is refused while it is read; `LoadedAreClosed` proves that of `Loader`. |
| A load never fails with `CAPACITY` of itself | `validation_status` in `status.rs` never yields it, so that status tells the full store (`spacewasm_load_module`). |

Only model-checked:

- `RunReturns`: liveness under fairness is beyond the proof system.
- `ExecutionMatchesValidation` of `CompiledRun`: it relates the operands noted at every
  two instructions between which the interpreter can go, code not yet patched and code
  that is never reached included. `CompiledBranchesReachTheirBlock` gives the targets;
  the operands there are not in the invariant.
- `StackMatchesTypes`, `AcceptedAsSpecified` and `ComputesAsSpecified` of `FunctionBody`:
  that two arithmetics agree is a matter of every numeric instruction by itself, of
  powers of two and of rounding. TLC decides it for every value of the small widths.

## 6. Not modelled

- The sums, products, quotients and roots of floats (they are Rust's and libm's)
  and NaN payloads.
- In `FunctionBody`, the memory argument of loads and stores, and a number split at
  a page boundary; the addresses they compute are those of `LinearMemory`.
- Custom sections, which are skipped, and the text of names.
- `pop_module`, which no part of the library calls, and a read and a push of the
  Rust interface with another read between them.
- The WASI host, the command-line tools, the benchmark, the C example and the
  fuzzers: clients of the library, whose state is files, arguments and reports.
