-------------------------------- MODULE CApi --------------------------------
(***************************************************************************)
(* The C interface (src/crates/spacewasm_c_api): the handles a C program   *)
(* owns - memory allocators, a vector of host modules under construction,  *)
(* an engine - the functions that take them, with every status they        *)
(* return, and the callbacks through which a guest calls back into C.      *)
(*                                                                         *)
(* A null engine or host pointer is passed while the program has no such   *)
(* handle.  Strings are kept as far as the calls tell them apart: null,    *)
(* not UTF-8, too long, or a name; a signature is a sequence of its        *)
(* characters.  What a guest function computes is any outcome its type     *)
(* and its imports allow; how it computes it is the matter of Engine, how  *)
(* a module is linked that of Loader.  Indices count from 0.               *)
(*                                                                         *)
(* A definition marked `mutant` is the next definition with one plausible  *)
(* bug; no specification uses it (see README.md).                          *)
(***************************************************************************)
EXTENDS Integers, FiniteSets, SequencesExt

CONSTANTS
  Allocators,   \* allocator handles the program may create
  Names,        \* names of modules, functions and globals
  LongName,     \* a name longer than HOST_MODULE_NAME_CAP
  Null,         \* a null pointer
  BadUtf8,      \* a C string that is not UTF-8
  Images,       \* the Wasm modules the read callback may deliver
  ModuleArgs,   \* arguments of spacewasm_add_host_module
  FunctionArgs, \* arguments of spacewasm_add_host_function
  LoadArgs,     \* arguments of spacewasm_load_module, and what the load meets
  SignatureArgs, \* signature strings passed to spacewasm_check_func_signature
  HostSizes,    \* sizes passed to spacewasm_host_new
  StoreSizes,   \* max_modules passed to spacewasm_new
  ModuleLimit,  \* 256: the modules a ModuleRef can name
  MaxParams,    \* MAX_HOST_FUNCTION_PARAMS
  MaxArgs,      \* 64: arguments spacewasm_invoke marshals
  FuncLimit,    \* 2^16: the values of a function index
  PageSize,     \* bytes of a page of memory
  Arguments,    \* argument lists passed to spacewasm_invoke
  CodeBudget,   \* words of IR the max_code_pages of the options hold
  StackLen,     \* words of the guest stack
  MaxIndex,     \* largest index passed (a bound)
  Heap,         \* outcomes of an allocation: "OK" or an AllocError
  Orderly,      \* callbacks answer as declared, never re-enter run, and answer
                \* with a trap once they have reset the engine
  None          \* Option::None

Chars == {"i", "I", "?"}
Types == {"I32", "I64"}
Tags == Types \cup {"invalid"}            \* the bytes a C program may store in a tag
Value == [tag : Tags, v : 0..1]
AllocErrors == {"AllocationFailed", "OutOfMemory"}
Pointer == {Null, "pointer"}
Strings == Names \cup {LongName, Null, BadUtf8}
Texts == Seq(Chars) \cup {Null, BadUtf8}  \* signatures

(* The records the handles own. *)
Signature == [params : Seq(Types), returns : Seq(Types)]
Image == [imports : Seq([module : Names, name : Names, type : Signature]),
          functions : Seq([params : Seq(Types), returns : Seq(Types), stack : Nat]),
          globals : Seq([ty : Types, mutable : BOOLEAN]),
          exports : Seq([name : Names, kind : {"Func", "Global"}, index : Nat]),
          memory : Nat, start : Nat \cup {None}, words : Nat]
HostFunction == [name : Strings, params : Seq(Types), returns : Seq(Types)]
HostModule == [name : Strings, capacity : Nat, functions : Seq(HostFunction)]
Host == [capacity : Nat, modules : Seq(HostModule)]
Ref == [kind : {"Host", "Wasm"}, module : Nat, index : Nat]
Module == [name : Strings, image : Images, imports : Seq(Ref), allocator : Allocators \cup {None},
           globals : Seq([tag : Types, v : 0..1])]
Call == [module : Nat, index : Nat]
EngineRecord == [hosts : Seq(HostModule), max_modules : Nat, modules : Seq(Module), code : Nat,
                 call : Call \cup {None}, pause : Seq(Types) \cup {None},
                 result : Seq(Types) \cup {None},
                 discarded : BOOLEAN]   \* a callback reset the engine under the run
Callback == [ref : Ref, module : Nat, call : Call]

(* What the parser accepts: the indices of a module name something of it.  *)
ValidImage(i) ==
  /\ \A e \in ToSet(i.exports) :
       e.index < IF e.kind = "Func" THEN Len(i.imports) + Len(i.functions) ELSE Len(i.globals)
  /\ i.start # None => i.start < Len(i.imports) + Len(i.functions)

ASSUME CApiAssumption ==
  /\ SignatureArgs \subseteq [params : Texts, returns : Texts]
  /\ ModuleArgs \subseteq [name : Strings, max_functions : Nat, heap : Heap]
  /\ FunctionArgs \subseteq [idx : Nat, name : Strings, params : Texts, returns : Texts,
                             f : Pointer, heap : Heap]
  /\ LoadArgs \subseteq [name : Strings, read : Pointer, image : Images,
                         fault : [when : {"never", "early", "late"}, error : STRING]]
  /\ \A l \in LoadArgs : l.fault.error # "CAPACITY"    \* validation_status never gives it
  /\ Images \subseteq Image /\ \A i \in Images : ValidImage(i)
  /\ {"OK"} \subseteq Heap /\ Heap \subseteq {"OK"} \cup AllocErrors
  /\ HostSizes \cup StoreSizes \subseteq Nat
  /\ Arguments \subseteq Seq(Value)
  /\ {ModuleLimit, MaxParams, MaxArgs, FuncLimit, PageSize, CodeBudget, StackLen, MaxIndex} \subseteq Nat
  /\ Orderly \in BOOLEAN
  /\ Null \notin Names \cup Allocators \cup {"pointer"} /\ BadUtf8 \notin Names
  /\ None \notin Nat \cup Allocators
  /\ None \notin Host /\ None \notin EngineRecord /\ None \notin Call
  /\ None \notin Callback

VARIABLES
  allocators,   \* CAllocator: the program's handle and the count of its Rc
  host,         \* the program's spacewasm_host_t, or None
  engine,       \* the program's CEngine, or None
  running,      \* a call of spacewasm_run is in progress
  callback,     \* the host function it is calling, for which module, and the call
                \* it goes on with afterwards (the pc kept by run), or None
  taken,        \* the host functions whose closure is moved out (HostFunction::f)
  panicked,     \* a panic aborted the process, or run goes on with code whose
                \* frames a reset discarded, of which nothing is said here
  last          \* the last call that returned: [op, status, out]

vars == <<allocators, host, engine, running, callback, taken, panicked, last>>
handles == <<allocators, host, engine>>
execution == <<running, callback, taken, panicked>>

-----------------------------------------------------------------------------
(* Statuses *)

OK == "OK"
RunStatuses == {"FINISHED", "TRAP", "PAUSE", "OUT_OF_FUEL"}

alloc_status(e) ==
  CASE e = "AllocationFailed" -> "ALLOC_FAILED" [] e = "OutOfMemory" -> "OUT_OF_MEMORY"

\* a MemoryError and an AllocError of the same name have the same status
memory_status(e) == IF e = "OutOfBounds" THEN "MEM_OUT_OF_BOUNDS" ELSE alloc_status(e)

(* The status of an allocation *)
Allocated(heap) == IF heap = "OK" THEN OK ELSE alloc_status(heap)

(* ValidationError carries allocation errors; any other error has a status *)
(* of its own.                                                             *)
parse_status(e) == IF e \in AllocErrors THEN alloc_status(e) ELSE e

resume_status(e) ==
  CASE e = "NotPaused" -> "WRONG_STATE"
    [] e = "ResultTypeMismatch" -> "PARAM_TYPE_MISMATCH"

invoke_status(e) == IF e = "Busy" THEN "WRONG_STATE" ELSE e

(* check!: the first of a list of checks that fails. *)
FirstError(checks) ==
  IF \E i \in DOMAIN checks : checks[i] # OK
    THEN checks[CHOOSE i \in DOMAIN checks :
                  checks[i] # OK /\ \A j \in 1..(i - 1) : checks[j] = OK]
    ELSE OK

ErrorIf(condition, status) == IF condition THEN status ELSE OK

Return(op, status, out) == last' = [op |-> op, status |-> status, out |-> out]

(* A call that only reads.  The embedder is blocked while run executes the *)
(* guest; it calls again from within a callback.                           *)
Embedder == ~running \/ callback # None

Answer(op, status, out) ==
  /\ Embedder
  /\ Return(op, status, out)
  /\ UNCHANGED <<handles, execution>>

-----------------------------------------------------------------------------
(* Strings, signatures and values *)

cstr(s) ==
  CASE s = Null -> "NULL_ARG" [] s = BadUtf8 -> "BAD_UTF8" [] OTHER -> OK

host_name(s) == ErrorIf(s = LongName, "NAME_TOO_LONG")

map_char(c) ==
  CASE c = "i" -> "I32" [] c = "I" -> "I64" [] OTHER -> "ValListInvalidItem"

TypesOf(s) == [i \in DOMAIN s |-> map_char(s[i])]

(* HostValList::try_new reads the characters until one is invalid or there *)
(* is no room for it.                                                      *)
val_list(s) ==
  IF s \in {Null, BadUtf8} THEN cstr(s)
  ELSE IF \E i \in DOMAIN s : i <= MaxParams /\ map_char(s[i]) \notin Types
    THEN "BAD_SIGNATURE"
  ELSE ErrorIf(Len(s) > MaxParams, "FUNCTION_PARAMETERS_TOO_LARGE")

multi_return(s) ==
  ErrorIf(s \notin {Null, BadUtf8} /\ Len(s) > 1, "FUNCTION_RETURNS_TOO_LARGE")

try_to_value(v) == v.tag \in Types

Words(ty) == IF ty = "I64" THEN 2 ELSE 1
WordsOf(types) == FoldLeft(LAMBDA n, ty : n + Words(ty), 0, types)

Within(i, s) == i < Len(s)
At(s, i) == s[i + 1]

-----------------------------------------------------------------------------
(* Allocators: the handle is one reference, every memory that was created  *)
(* with it another.                                                        *)

Indices == 0..MaxIndex

allocator_new(a, callbacks, heap) ==
  /\ Embedder
  /\ allocators[a].handle = "none"             \* a: the handle to be created
  /\ LET made == callbacks /\ heap = "OK"
     IN /\ allocators' = IF made
             THEN [allocators EXCEPT ![a] = [handle |-> "live", count |-> 1]]
             ELSE allocators
        /\ Return("allocator_new", IF made THEN OK ELSE "NULL", None)
  /\ UNCHANGED <<host, engine, execution>>

allocator_clone_rc_by_move(a, counts) == counts                     \* mutant

allocator_clone_rc(a, counts) == [counts EXCEPT ![a].count = @ + 1]

Released(a, n, counts) == [counts EXCEPT ![a].count = @ - n]

allocator_destroy(a) ==
  /\ Embedder
  /\ allocators[a].handle = "live"             \* the contract of the call
  /\ allocators' = Released(a, 1, [allocators EXCEPT ![a].handle = "destroyed"])
  /\ Return("allocator_destroy", OK, None)
  /\ UNCHANGED <<host, engine, execution>>

-----------------------------------------------------------------------------
(* The host modules *)

host_new(len, heap) ==
  /\ Embedder
  /\ host = None                \* a live vector there would be leaked
  /\ host' = IF heap = "OK" THEN [capacity |-> len, modules |-> <<>>] ELSE host
  /\ Return("host_new", Allocated(heap), None)
  /\ UNCHANGED <<allocators, engine, execution>>

add_host_module(name, max_functions, heap) ==
  LET status == FirstError(<<Allocated(heap), cstr(name), host_name(name),
                  ErrorIf(host = None, "NULL_ARG"),
                  ErrorIf(host # None /\ Len(host.modules) >= host.capacity, "CAPACITY")>>)
      new == [name |-> name, capacity |-> max_functions, functions |-> <<>>]
  IN /\ Embedder
     /\ host' = IF status = OK THEN [host EXCEPT !.modules = Append(@, new)] ELSE host
     /\ Return("add_host_module", status, IF status = OK THEN Len(host.modules) ELSE None)
     /\ UNCHANGED <<allocators, engine, execution>>

(* Is there such a host module, with room for one more function? *)
Room(idx, modules) ==
  IF ~Within(idx, modules) THEN "NOT_FOUND"
  ELSE ErrorIf(Len(At(modules, idx).functions) >= At(modules, idx).capacity, "CAPACITY")

add_host_function(idx, name, params, returns, f, heap) ==
  LET status == FirstError(<<cstr(name), cstr(params), cstr(returns), host_name(name),
                  val_list(params), val_list(returns),
                  ErrorIf(host = None, "NULL_ARG"), ErrorIf(f = Null, "NULL_ARG"),
                  multi_return(returns), Allocated(heap),
                  ErrorIf(host # None, Room(idx, host.modules))>>)
  IN /\ Embedder
     /\ host' = IF status = OK
          THEN [host EXCEPT !.modules[idx + 1].functions = Append(@,
                 [name |-> name, params |-> TypesOf(params), returns |-> TypesOf(returns)])]
          ELSE host
     /\ Return("add_host_function", status, None)
     /\ UNCHANGED <<allocators, engine, execution>>

host_destroy ==
  /\ Embedder
  /\ host' = None
  /\ Return("host_destroy", OK, None)
  /\ UNCHANGED <<allocators, engine, execution>>

-----------------------------------------------------------------------------
(* The engine and its store.  A module holds what its image declares, with *)
(* the imports resolved, the allocator its own memory came from and the    *)
(* values of its globals.                                                  *)

Modules == engine.modules
Idle == engine.call = None                 \* Engine::is_idle
HasModule(m) == engine # None /\ Within(m, Modules)

HostRef(m, i) == [kind |-> "Host", module |-> m, index |-> i]
WasmRef(m, i) == [kind |-> "Wasm", module |-> m, index |-> i]

HostFunctionAt(ref) == At(At(engine.hosts, ref.module).functions, ref.index)
FunctionAt(ref) == At(At(Modules, ref.module).image.functions, ref.index)
TypeOf(ref) ==
  LET f == IF ref.kind = "Host" THEN HostFunctionAt(ref) ELSE FunctionAt(ref)
  IN [params |-> f.params, returns |-> f.returns]

HostRefs ==
  UNION {{HostRef(h, f) : f \in 0..(Len(At(engine.hosts, h).functions) - 1)} :
           h \in 0..(Len(engine.hosts) - 1)}

Before(r, s) == r.module < s.module \/ (r.module = s.module /\ r.index < s.index)
First(refs) == CHOOSE r \in refs : \A s \in refs \ {r} : Before(r, s)

(* Module::get_func_ref: the imported functions come first. *)
get_func_ref(m, x) ==
  LET n == Len(At(Modules, m).imports)
  IN IF x < n THEN At(At(Modules, m).imports, x) ELSE WasmRef(m, x - n)

(* The exports of module m under that name: at most one, Loader shows. *)
Exports(m, name) ==
  {e \in ToSet(At(Modules, m).image.exports) : e.name = name}

(* Store::link_function: the first host function of these names, then the  *)
(* export of the first module of that name that has it, which must be a    *)
(* function.  The reference found, or the error.                           *)
NoLink(status) == [kind |-> "Error", status |-> status]

link_function(import) ==
  LET provided == {r \in HostRefs :
        At(engine.hosts, r.module).name = import.module /\ HostFunctionAt(r).name = import.name}
      exporters == {m \in 0..(Len(Modules) - 1) :
        At(Modules, m).name = import.module /\ Exports(m, import.name) # {}}
      m == CHOOSE k \in exporters : \A l \in exporters : k <= l
      e == CHOOSE x \in Exports(m, import.name) : TRUE
      ref == IF provided # {} THEN First(provided)
             ELSE IF exporters = {} THEN NoLink("FUNCTION_IMPORT_NOT_FOUND")
             ELSE IF e.kind # "Func" THEN NoLink("FUNCTION_IMPORT_TYPE_MISMATCH")
             ELSE get_func_ref(m, e.index)
  IN IF ref.kind = "Error" \/ TypeOf(ref) = import.type THEN ref
     ELSE NoLink("FUNCTION_IMPORT_TYPE_MISMATCH")

Link(imports) == [i \in DOMAIN imports |-> link_function(imports[i])]

link_status(import) ==
  LET ref == link_function(import)
  IN IF ref.kind = "Error" THEN ref.status ELSE OK

Linked(imports) == \A i \in DOMAIN imports : link_status(imports[i]) = OK

(* Module::read refuses a name that is taken. *)
duplicate_name(name) ==
  LET taken_names == {At(Modules, m).name : m \in 0..(Len(Modules) - 1)}
        \cup {At(engine.hosts, h).name : h \in 0..(Len(engine.hosts) - 1)}
  IN ErrorIf(name \in taken_names, "DUPLICATE_MODULE_NAME")

(* The host vector is read, and so consumed, once the arguments are found good. *)
HostAfterNew_unchecked(given, refused) ==                           \* mutant
  IF given THEN None ELSE host

HostAfterNew(given, refused) == IF given /\ refused = OK THEN None ELSE host

spacewasm_new(max_modules, given, out, heap) ==
  LET refused == FirstError(<<ErrorIf(out = Null, "NULL_ARG"),
                              ErrorIf(max_modules > ModuleLimit, "VEC_TOO_LONG")>>)
      status == FirstError(<<refused, Allocated(heap)>>)
  IN /\ Embedder
     /\ engine = None              \* a second engine is not tracked
     /\ given => host # None
     /\ host' = HostAfterNew(given, refused)
     /\ engine' = IF status # OK THEN engine
          ELSE [hosts |-> IF given THEN host.modules ELSE <<>>,
                max_modules |-> max_modules, modules |-> <<>>, code |-> 0,
                call |-> None, pause |-> None, result |-> None, discarded |-> FALSE]
     /\ Return(IF given THEN "new" ELSE "new without hosts", status, None)
     /\ UNCHANGED <<allocators, execution>>

(* StartSection: the function the index names, once the imports are known. *)
start_status(image) ==
  LET n == Len(image.imports)
      ref == link_function(At(image.imports, image.start))
      type == IF image.start < n THEN TypeOf(ref) ELSE At(image.functions, image.start - n)
  IN IF image.start = None THEN OK
     ELSE IF image.start < n /\ ref.kind = "Host" THEN "INVALID_HOST_START_FUNCTION"
     ELSE ErrorIf(type.params # <<>> \/ type.returns # <<>>,
                  "INVALID_START_FUNCTION_SIGNATURE")

(* What may cut a load short: an error of the stream or of an allocation,  *)
(* or bytes the parser refuses; early, before the imports are linked, or   *)
(* late, after some of the code was compiled.                              *)
Fault(when, error) == [when |-> when, error |-> error]
Complete == Fault("never", OK)

LoadState_ignored == OK                                             \* mutant

LoadState == ErrorIf(~Idle, "WRONG_STATE")

load_status(a, name, read, image, fault) ==
  IF a = Null \/ engine = None THEN "NULL_ARG"
  ELSE FirstError(<<LoadState, cstr(name),
    ErrorIf(read = Null, "NULL_ARG"),
    ErrorIf(fault.when = "early", parse_status(fault.error)),
    duplicate_name(name),
    FirstError([i \in DOMAIN image.imports |-> link_status(image.imports[i])]),
    ErrorIf(Linked(image.imports) /\ start_status(image) # OK, start_status(image)),
    ErrorIf(fault.when = "late", parse_status(fault.error)),
    ErrorIf(engine.code + image.words > CodeBudget, "OUT_OF_MEMORY"),
    ErrorIf(Len(Modules) >= engine.max_modules, "CAPACITY")>>)

(* The words of IR a load leaves in the code builder: all of them, or, of  *)
(* a load refused in or after its code section, those emitted so far.      *)
Emitted(status, image, fault) ==
  LET room == CodeBudget - engine.code
      compiled == IF image.words <= room THEN image.words ELSE room
  IN IF status \in {OK, "CAPACITY"} THEN {image.words}
     ELSE IF fault.when = "late" /\ status = parse_status(fault.error) THEN 0..compiled
     ELSE IF fault = Complete /\ status = "OUT_OF_MEMORY" THEN {room}
     ELSE {0}

(* The module keeps its clone of the allocator only in the memory it owns. *)
load_module(a, name, read, image, fault) ==
  LET status == load_status(a, name, read, image, fault)
      cloned == allocator_clone_rc(a, allocators)
      kept == status = OK /\ image.memory > 0
      new == [name |-> name, image |-> image, imports |-> Link(image.imports),
              allocator |-> IF kept THEN a ELSE None,
              globals |-> [g \in DOMAIN image.globals |->
                             [tag |-> image.globals[g].ty, v |-> 0]]]
  IN /\ Embedder
     /\ a # Null => allocators[a].handle = "live"
     /\ allocators' = IF a = Null THEN allocators
                      ELSE IF kept THEN cloned ELSE Released(a, 1, cloned)
     /\ IF engine = None THEN engine' = engine
        ELSE \E n \in Emitted(status, image, fault) :
               engine' = [engine EXCEPT !.code = @ + n,
                            !.modules = IF status = OK THEN Append(@, new) ELSE @]
     /\ Return("load_module", status, IF status = OK THEN Len(Modules) ELSE None)
     /\ UNCHANGED <<host, execution>>

(* The engine, its host modules and its modules are dropped. *)
Users(a) == IF engine = None THEN {}
            ELSE {m \in 0..(Len(Modules) - 1) : At(Modules, m).allocator = a}

destroy_handles_only == allocators                                  \* mutant

destroy_allocators ==
  [a \in Allocators |-> [allocators[a] EXCEPT !.count = @ - Cardinality(Users(a))]]

spacewasm_destroy ==
  /\ ~running                    \* the engine is in use during a callback
  /\ engine' = None
  /\ allocators' = destroy_allocators
  /\ Return("destroy", OK, None)
  /\ UNCHANGED <<host, execution>>

-----------------------------------------------------------------------------
(* Lookups *)

find_module(name, out) ==
  IF engine = None \/ out = Null THEN [status |-> "NULL_ARG", out |-> None]
  ELSE IF cstr(name) # OK THEN [status |-> cstr(name), out |-> None]
  ELSE LET named == {m \in 0..(Len(Modules) - 1) : At(Modules, m).name = name}
       IN IF named = {} THEN [status |-> "NOT_FOUND", out |-> None]
          ELSE [status |-> OK, out |-> CHOOSE m \in named : \A k \in named : m <= k]

Lookup(status, out) == [status |-> status, out |-> out]

(* The own function or global of module m exported under that name; an     *)
(* imported one is not found.                                              *)
find_export_raw(m, name, kind) ==                                   \* mutant
  LET found == {e \in Exports(m, name) : e.kind = kind}
  IN IF found = {} THEN Lookup("NOT_FOUND", None)
     ELSE Lookup(OK, (CHOOSE e \in found : TRUE).index)

find_export(m, name, kind) ==
  LET found == {e \in Exports(m, name) : e.kind = kind}
      index == (CHOOSE e \in found : TRUE).index
      imported == IF kind = "Func" THEN Len(At(Modules, m).imports) ELSE 0
  IN IF found = {} \/ index < imported THEN Lookup("NOT_FOUND", None)
     ELSE Lookup(OK, index - imported)

find_in_module(m, name, out, kind) ==
  IF engine = None \/ out = Null THEN Lookup("NULL_ARG", None)
  ELSE IF cstr(name) # OK THEN Lookup(cstr(name), None)
  ELSE IF ~HasModule(m) THEN Lookup("NOT_FOUND", None)
  ELSE find_export(m, name, kind)

find_export_func(m, name, out) == find_in_module(m, name, out, "Func")
find_global(m, name, out) == find_in_module(m, name, out, "Global")

(* The start function, which may belong to another module. *)
module_start(m, out) ==
  IF engine = None \/ out = Null THEN Lookup("NULL_ARG", None)
  ELSE IF ~HasModule(m) \/ At(Modules, m).image.start = None THEN Lookup("NOT_FOUND", None)
  ELSE Lookup(OK, get_func_ref(m, At(Modules, m).image.start))

check_func_signature(m, x, params, returns) ==
  IF engine = None THEN "NULL_ARG"
  ELSE LET f == At(At(Modules, m).image.functions, x)
           known == HasModule(m) /\ Within(x, At(Modules, m).image.functions)
           strings == FirstError(<<cstr(params), cstr(returns), val_list(params), val_list(returns)>>)
       IN IF strings # OK THEN strings
          ELSE IF ~known THEN "NOT_FOUND"
          ELSE FirstError(<<
            ErrorIf(Len(params) # Len(f.params) \/ Len(returns) # Len(f.returns),
                    "PARAM_LEN_MISMATCH"),
            ErrorIf(TypesOf(params) # f.params \/ TypesOf(returns) # f.returns,
                    "PARAM_TYPE_MISMATCH")>>)

-----------------------------------------------------------------------------
(* Globals *)

HasGlobal(m, g) == HasModule(m) /\ Within(g, At(Modules, m).globals)

get_global(m, g, out) ==
  IF engine = None \/ out = Null THEN Lookup("NULL_ARG", None)
  ELSE IF ~HasGlobal(m, g) THEN Lookup("NOT_FOUND", None)
  ELSE Lookup(OK, At(At(Modules, m).globals, g))

set_global_status(m, g, value) ==
  IF engine = None THEN "NULL_ARG"
  ELSE IF ~HasGlobal(m, g) THEN "NOT_FOUND"
  ELSE LET type == At(At(Modules, m).image.globals, g)
       IN FirstError(<<ErrorIf(~try_to_value(value), "BAD_ARG"),
                       ErrorIf(value.tag # type.ty, "GLOBAL_TYPE_MISMATCH"),
                       ErrorIf(~type.mutable, "GLOBAL_NOT_MUTABLE")>>)

set_global(m, g, value) ==
  LET status == set_global_status(m, g, value)
  IN /\ Embedder
     /\ engine' = IF status # OK THEN engine
          ELSE [engine EXCEPT !.modules[m + 1].globals[g + 1] = value]
     /\ Return("set_global", status, None)
     /\ UNCHANGED <<allocators, host, execution>>

-----------------------------------------------------------------------------
(* Calls *)

HasFunction(m, x) == HasModule(m) /\ Within(x, At(Modules, m).image.functions)

(* Engine::invoke, on an engine at rest.  The frame is part of f.stack.    *)
EngineInvoke(f, args) ==
  FirstError(<<
    ErrorIf(~Idle, invoke_status("Busy")),
    ErrorIf(Len(args) # Len(f.params), invoke_status("PARAM_LEN_MISMATCH")),
    ErrorIf(WordsOf(f.params) + f.stack > StackLen, invoke_status("STACK_OVERFLOW")),
    ErrorIf(\E i \in DOMAIN args \cap DOMAIN f.params : args[i].tag # f.params[i],
            invoke_status("PARAM_TYPE_MISMATCH"))>>)

invoke_call_status(m, x, args, n) ==
  IF engine = None \/ (args = Null /\ n # 0) THEN "NULL_ARG"
  ELSE IF x >= FuncLimit THEN "BAD_ARG"
  ELSE IF ~Idle THEN "WRONG_STATE"
  ELSE IF ~HasFunction(m, x) THEN "NOT_FOUND"
  ELSE IF n > MaxArgs THEN "CAPACITY"
  ELSE IF n # 0 /\ \E i \in 1..n : ~try_to_value(args[i]) THEN "BAD_ARG"
  ELSE EngineInvoke(At(At(Modules, m).image.functions, x), IF n = 0 THEN <<>> ELSE args)

Started_keeping_result(m, x) ==                                     \* mutant
  [engine EXCEPT !.call = [module |-> m, index |-> x]]

Started(m, x) ==
  [engine EXCEPT !.call = [module |-> m, index |-> x], !.result = None]

invoke(m, x, args) ==
  LET status == invoke_call_status(m, x, args, IF args = Null THEN 1 ELSE Len(args))
  IN /\ Embedder
     /\ engine' = IF status = OK THEN Started(m, x) ELSE engine
     /\ Return("invoke", status, None)
     /\ UNCHANGED <<allocators, host, execution>>

(* run on an engine with nothing to run answers at once.  From within a    *)
(* callback it executes the call of the host function once more, finds its *)
(* closure taken, and panics; after a reset it runs what was invoked there *)
(* on the stack of the run it interrupts.                                  *)
run_begins ==
  /\ Embedder
  /\ engine # None /\ ~Idle
  /\ engine.pause = None          \* else see Engine: a second pause panics
  /\ Orderly => callback = None
  /\ running' = TRUE
  /\ panicked' = (callback # None \/ engine.discarded)
  /\ UNCHANGED <<handles, callback, taken, last>>

run_refused == (engine # None => Idle) /\ Answer("run", "TRAP", "TRAP_NONE")

Executing == running /\ callback = None

RunEnds(status, e) ==
  /\ running' = FALSE
  /\ engine' = e
  /\ Return("run", status, None)
  /\ UNCHANGED <<allocators, host>>

(* A trap forgets the frames, whichever they are.                          *)
Stopped(result) ==
  [engine EXCEPT !.call = None, !.result = result, !.discarded = FALSE]

finishes ==
  /\ Executing
  /\ RunEnds("FINISHED", Stopped(FunctionAt(engine.call).returns))
  /\ UNCHANGED <<callback, taken, panicked>>

traps ==
  /\ Executing
  /\ RunEnds("TRAP", Stopped(engine.result))
  /\ UNCHANGED <<callback, taken, panicked>>

runs_out_of_fuel ==
  /\ Executing
  /\ RunEnds("OUT_OF_FUEL", engine)
  /\ UNCHANGED <<callback, taken, panicked>>

(* The host functions the executing function may reach: those its module   *)
(* imports, or a module it imports functions from.                         *)
HostCalls ==
  LET calls[m \in 0..(Len(Modules) - 1)] ==
        UNION {IF ref.kind = "Host"
                 THEN {[ref |-> ref, module |-> m, call |-> engine.call]}
                 ELSE calls[ref.module] : ref \in ToSet(At(Modules, m).imports)}
  IN calls[engine.call.module]

(* HostFunction::get_call takes the closure, finish_call puts it back.     *)
call_host_fn(c) ==
  /\ Executing
  /\ c \in HostCalls
  /\ panicked' = (c.ref \in taken)
  /\ taken' = taken \cup {c.ref}
  /\ callback' = c
  /\ UNCHANGED <<handles, running, last>>

finish_call_unless_broken(outcome) ==                               \* mutant
  IF outcome = "CONTINUE" THEN taken \ {callback.ref} ELSE taken

finish_call(outcome) == taken \ {callback.ref}

(* The callback returns and declares no value, or a value (CHostFunction:: *)
(* call); it must be what the host function declares (call_host).  run     *)
(* goes on at the pc it kept, whatever a reset left of the stack.          *)
callback_continues(value) ==
  LET given == IF value = None THEN <<>> ELSE <<value.tag>>
      declared == HostFunctionAt(callback.ref).returns
  IN /\ callback # None
     /\ Orderly => given = declared /\ ~engine.discarded
     /\ panicked' = (given # declared \/ engine.discarded)
     /\ taken' = finish_call("CONTINUE")
     /\ callback' = None
     /\ UNCHANGED <<handles, running, last>>

callback_traps ==
  /\ callback # None
  /\ taken' = finish_call("TRAP")
  /\ callback' = None
  /\ RunEnds("TRAP", Stopped(engine.result))
  /\ UNCHANGED panicked

(* The engine is left with the call that was interrupted, also when the    *)
(* callback reset it and invoked another.                                  *)
callback_pauses ==
  /\ callback # None
  /\ Orderly => ~engine.discarded
  /\ panicked' = (engine.pause # None)
  /\ taken' = finish_call("PAUSE")
  /\ callback' = None
  /\ RunEnds("PAUSE", [engine EXCEPT !.pause = HostFunctionAt(callback.ref).returns,
                                     !.call = callback.call])

(* spacewasm_resume passes no value, spacewasm_resume_value one. *)
resume_call_status(value) ==
  IF engine = None THEN "NULL_ARG"
  ELSE IF value # None /\ ~try_to_value(value) THEN "BAD_ARG"
  ELSE IF engine.pause = None THEN resume_status("NotPaused")
  ELSE ErrorIf(engine.pause # (IF value = None THEN <<>> ELSE <<value.tag>>),
               resume_status("ResultTypeMismatch"))

resume_taking_pause(status) == [engine EXCEPT !.pause = None]       \* mutant

Resumed(status) == IF status = OK THEN [engine EXCEPT !.pause = None] ELSE engine

resume(value) ==
  LET status == resume_call_status(value)
  IN /\ Embedder
     /\ engine' = IF engine = None THEN None ELSE Resumed(status)
     /\ Return("resume", status, None)
     /\ UNCHANGED <<allocators, host, execution>>

(* The engine is at rest, so that a callback may load and invoke, and the  *)
(* stack is empty, also under a run that has not ended.                    *)
reset ==
  /\ Embedder
  /\ engine' = IF engine = None THEN None
       ELSE [engine EXCEPT !.call = None, !.pause = None, !.result = None,
                           !.discarded = running]
  /\ Return("reset", ErrorIf(engine = None, "NULL_ARG"), None)
  /\ UNCHANGED <<allocators, host, execution>>

get_result(expected, out) ==
  IF engine = None \/ out = Null THEN "NULL_ARG"
  ELSE IF expected \notin Types THEN "BAD_ARG"
  ELSE ErrorIf(engine.result = None, "NOT_FOUND")

(* The memory of the engine: that of the module that called the host       *)
(* function, if it has one; none after a reset; that of a module invoked   *)
(* since.                                                                  *)
CallerPages ==
  IF ~engine.discarded THEN At(Modules, callback.module).image.memory
  ELSE IF Idle THEN 0
  ELSE At(Modules, engine.call.module).image.memory

mem_access(addr, len, buffer) ==
  IF buffer = Null /\ len # 0 THEN "NULL_ARG"
  ELSE ErrorIf(addr + len > CallerPages * PageSize, memory_status("OutOfBounds"))

mem_size(out) ==
  IF out = Null THEN Lookup("NULL_ARG", None) ELSE Lookup(OK, CallerPages)

-----------------------------------------------------------------------------
AllocatorCalls ==
  \E a \in Allocators :
    \/ \E callbacks \in BOOLEAN, heap \in Heap : allocator_new(a, callbacks, heap)
    \/ allocator_destroy(a)

HostCallsOfC ==
  \/ \E len \in HostSizes, heap \in Heap : host_new(len, heap)
  \/ \E m \in ModuleArgs : add_host_module(m.name, m.max_functions, m.heap)
  \/ \E f \in FunctionArgs :
       add_host_function(f.idx, f.name, f.params, f.returns, f.f, f.heap)
  \/ host_destroy

EngineCalls ==
  \/ \E n \in StoreSizes, given \in BOOLEAN, out \in Pointer, heap \in Heap :
       spacewasm_new(n, given, out, heap)
  \/ \E a \in Allocators \cup {Null}, l \in LoadArgs :
       load_module(a, l.name, l.read, l.image, l.fault)
  \/ spacewasm_destroy
  \/ \E m, g \in Indices, value \in Value : set_global(m, g, value)
  \/ \E m, x \in Indices, args \in Arguments \cup {Null} : invoke(m, x, args)
  \/ \E value \in Value \cup {None} : resume(value)
  \/ reset

Report(op, r) == Answer(op, r.status, r.out)

(* The calls that only answer. *)
Lookups ==
  \/ \E name \in Strings, out \in Pointer :
       \/ Report("find_module", find_module(name, out))
       \/ \E m \in Indices : \/ Report("find_export_func", find_export_func(m, name, out))
                            \/ Report("find_global", find_global(m, name, out))
  \/ \E m \in Indices, out \in Pointer :
       \/ Report("module_start", module_start(m, out))
       \/ \E g \in Indices : Report("get_global", get_global(m, g, out))
  \/ \E m, x \in Indices, s \in SignatureArgs :
       Answer("check_func_signature", check_func_signature(m, x, s.params, s.returns), None)
  \/ \E tag \in Tags, out \in Pointer : Answer("get_result", get_result(tag, out), None)
  \/ /\ callback # None
     /\ \E buffer \in Pointer :
          \/ Report("mem_size", mem_size(buffer))
          \/ \E addr, len \in Indices :
               \/ Answer("mem_read", mem_access(addr, len, buffer), None)
               \/ Answer("mem_write", mem_access(addr, len, buffer), None)

Runs ==
  \/ run_begins
  \/ run_refused
  \/ finishes \/ traps \/ runs_out_of_fuel
  \/ Executing /\ \E ref \in HostRefs, m \in 0..(Len(Modules) - 1) :
                      call_host_fn([ref |-> ref, module |-> m, call |-> engine.call])
  \/ \E value \in Value \cup {None} : callback_continues(value)
  \/ callback_traps
  \/ callback_pauses

Init ==
  /\ allocators = [a \in Allocators |-> [handle |-> "none", count |-> 0]]
  /\ host = None /\ engine = None
  /\ running = FALSE /\ callback = None /\ taken = {} /\ panicked = FALSE
  /\ last = [op |-> "none", status |-> OK, out |-> None]

Next == ~panicked /\ (AllocatorCalls \/ HostCallsOfC \/ EngineCalls \/ Lookups \/ Runs)

Spec == Init /\ [][Next]_vars

-----------------------------------------------------------------------------
(* Properties *)

TypeOfHostModule(h) ==
  /\ h.capacity \in Nat /\ Len(h.functions) <= h.capacity
  /\ \A f \in ToSet(h.functions) :
       f.params \in Seq(Types) /\ Len(f.params) <= MaxParams /\ Len(f.returns) <= 1

(* A global holds a value of its declared type, and a constant the value   *)
(* it was loaded with (spacewasm_set_global).                              *)
TypeOfGlobals(m) ==
  \A g \in DOMAIN m.globals :
    /\ m.globals[g].tag = m.image.globals[g].ty
    /\ ~m.image.globals[g].mutable => m.globals[g].v = 0

(* Every vector stays within the capacity it was created with, and a host  *)
(* function within the parameters and results a call can carry, whatever   *)
(* the sizes and signatures passed in (try_push, HostFunction::try_new).   *)
TypeOK ==
  /\ \A a \in Allocators : allocators[a].handle \in {"none", "live", "destroyed"}
                          /\ allocators[a].count \in Nat
  /\ host # None => /\ Len(host.modules) <= host.capacity
                     /\ \A h \in ToSet(host.modules) : TypeOfHostModule(h)
  /\ engine # None => /\ Len(Modules) <= engine.max_modules
                       /\ engine.max_modules <= ModuleLimit
                       /\ engine.code <= CodeBudget
                       /\ \A h \in ToSet(engine.hosts) : TypeOfHostModule(h)
                       /\ \A m \in ToSet(Modules) : TypeOfGlobals(m)
  /\ running \in BOOLEAN /\ panicked \in BOOLEAN

(* The count of an allocator is the handle, while the program has not      *)
(* destroyed it, and the memories that came from it: it is freed exactly   *)
(* when the last of them is, however loads fail and in whatever order the  *)
(* handle and the engine are destroyed (alloc.rs, spacewasm_load_module).  *)
AllocatorsCounted ==
  \A a \in Allocators :
    allocators[a].count =
      (IF allocators[a].handle = "live" THEN 1 ELSE 0) + Cardinality(Users(a))

(* spacewasm_new consumes the host vector on every path except the two its *)
(* documentation names, and a program that tells by the status whether it  *)
(* still owns the vector is right.                                         *)
HostConsumedAsDocumented ==
  [][(last'.op = "new" /\ engine = None) =>
        (host' # None <=> last'.status \in {"NULL_ARG", "VEC_TOO_LONG"})]_vars

(* A call that is refused changes nothing but, for spacewasm_new, the host *)
(* vector, and, for a load cut short, the words of IR it already emitted:  *)
(* no handle, count, module, global, pause or result.                      *)
Lasting(e) == IF e = None THEN None ELSE [e EXCEPT !.code = 0]

RefusedCallsChangeNothing ==
  [][last'.status \notin {OK} \cup RunStatuses =>
        /\ allocators' = allocators
        /\ Lasting(engine') = Lasting(engine)
        /\ last'.op # "new" => host' = host]_vars

(* While a callback is running, no call it makes into the interface except *)
(* spacewasm_reset, and none before that, loads a module, starts or        *)
(* resumes a call, or touches the pending result: the interpreter that     *)
(* called it goes on where it was, with the call it kept (is_idle in       *)
(* spacewasm_load_module and Engine::invoke).                              *)
CallbacksCannotDisturb ==
  [][(callback # None /\ callback' = callback /\ ~engine'.discarded) =>
        /\ engine.call = callback.call
        /\ engine' # None
        /\ engine'.call = engine.call /\ engine'.pause = engine.pause
        /\ engine'.result = engine.result
        /\ Len(engine'.modules) = Len(engine.modules)]_vars

(* An index that a lookup wrote can be passed to the call it is meant for: *)
(* an exported function can be invoked, a start function is a Wasm         *)
(* function without parameters, a global can be read, also when the module *)
(* imports or re-exports functions (find_export_func, module_start).       *)
FoundIsUsable ==
  /\ TypeOK
  /\ engine # None =>
    \A m \in 0..(Len(Modules) - 1) :
      /\ \A name \in Names :
           /\ LET f == find_export_func(m, name, "pointer")
              IN f.status = OK => HasFunction(m, f.out)
           /\ LET g == find_global(m, name, "pointer")
              IN g.status = OK => get_global(m, g.out, "pointer").status = OK
           /\ name = At(Modules, m).name => find_module(name, "pointer") = Lookup(OK, m)
      /\ LET s == module_start(m, "pointer")
         IN s.status = OK => /\ s.out.kind = "Wasm" /\ HasFunction(s.out.module, s.out.index)
                             /\ FunctionAt(s.out).params = <<>>

Trapped == last.op = "run" /\ last.status = "TRAP" /\ last.out # "TRAP_NONE"

(* The result is that of the call that finished last: none is there while  *)
(* a call is pending, paused, out of fuel, or trapped (spacewasm_get_result). *)
ResultIsOfLastCall ==
  engine # None /\ engine.result # None => Idle /\ ~Trapped

(* Callbacks that answer as they declared never abort the process, nor     *)
(* does run go on with frames that are gone: the closure of a host         *)
(* function is back in its place whenever no callback is running, however  *)
(* the last one ended (call_host_fn), and what a callback discarded by a   *)
(* reset is forgotten when it traps.                                       *)
NoPanic == ~panicked
=============================================================================
