------------------------------- MODULE Loader -------------------------------
(***************************************************************************)
(* Loading modules into a store: `Module::read` and its sections           *)
(* (src/module.rs), the linker (src/imports.rs), the store (src/store.rs)  *)
(* and the C entry points that drive them (spacewasm_load_module,          *)
(* spacewasm_invoke).                                                      *)
(*                                                                         *)
(* A module is read section by section.  Most sections only build the new  *)
(* module, which is dropped when a later byte is refused; the element      *)
(* section writes, entry by entry, into a table that may belong to a       *)
(* module or a host loaded long ago, and names the new module by the       *)
(* reference it will have if the load succeeds.                            *)
(*                                                                         *)
(* Function bodies, the values of globals and the bytes of memories are    *)
(* left out.  Functions and globals are two index spaces, tables and       *)
(* memories two resources; within a pair they are linked in the same way.  *)
(* Module and host references count from 0, as ModuleRef does.             *)
(*                                                                         *)
(* A definition marked `mutant` is the next definition with one plausible  *)
(* bug; no specification uses it (see README.md).                          *)
(***************************************************************************)
EXTENDS Integers, Sequences, FiniteSets, SequencesExt

CONSTANTS
  NoName,       \* the empty name
  Types,        \* function signatures and global types
  StartType,    \* the signature [] -> []
  Limits,       \* limits a module may declare: [min, max]
  max_modules,  \* capacity of Store::modules
  RefLimit,     \* 2^8: the values of a ModuleRef and of a HostModuleRef
  Engines,      \* the engines and what they are given (bounds), a set of
                \*   [hosts : the host modules, a sequence,
                \*    names : module names, symbols : names of exports and imports,
                \*    sections : the sections modules have,
                \*    failures : what may go wrong in a load,
                \*    imports, loads : the most of them,
                \*    runs : whether functions are executed]
  MaxFuncs, MaxExports,       \* bounds
  None          \* Option::None

Spaces == {"Func", "Global"}
Resources == {"Table", "Memory"}

LimitTypes == [min : Nat, max : Nat \cup {None}]
Named(S) == [name : STRING, ty : S]
HostModules ==
  [name : STRING, Func : Seq(Named(Types)), Global : Seq(Named(Types)),
   Table : Seq([name : STRING, limits : LimitTypes]),
   Memory : Seq([name : STRING, limits : LimitTypes])]

(* What a function or a global is linked to, and where a table or memory is. *)
FunctionRefs == [kind : {"Wasm", "Host"}, module : Nat, index : Nat]
OwnRefs == [kind : {"Module"}, module : {None}, index : Nat]
Slots == [kind : {"Owned"}, limits : Limits] \cup [kind : {"Import"}, from : FunctionRefs]

Imports ==
  [what : Spaces \cup Resources, from : FunctionRefs, ty : Types \cup Limits, module : STRING]

Modules ==
  [name : STRING, serial : Nat, Func : Seq(Types), Global : Seq(Types),
   imports : Seq(Imports),
   Table : Slots \cup {None}, Memory : Slots \cup {None},
   exports : UNION {[syms -> [what : Spaces \cup Resources, index : Nat]] :
                      syms \in UNION {SUBSET e.symbols : e \in Engines}},
   start : OwnRefs \cup FunctionRefs \cup {None}]

Loads ==
  [module : Modules, last : Nat, at : Nat, left : Nat, wrote : SUBSET (FunctionRefs \X Nat)]

ASSUME LoaderAssumption ==
  /\ StartType \in Types
  /\ max_modules \in 0..RefLimit /\ RefLimit \in Nat \ {0}
  /\ Limits \subseteq LimitTypes
  /\ MaxFuncs \in Nat
  /\ None \notin Slots /\ None \notin Loads
  /\ \A e \in Engines :
        /\ e.hosts \in Seq(HostModules)
        /\ NoName \in e.names /\ e.names \cup e.symbols \subseteq STRING
        /\ {e.imports, e.loads} \subseteq Nat
        /\ e.failures \subseteq {"allocation", "malformed"}

VARIABLES
  engine,       \* one of Engines
  modules,      \* Store::modules
  cells,        \* the elements of every table, by the owner of the table
  load,         \* the load in progress, or None
  running,      \* Engine::module while a function executes, or None
  table,        \* Engine::table: the owner of the table it references, or None
  panicked,     \* what was used and is not there: a table cell <<table, i>>,
                \* a host reference <<r, 0>>, or None
  loads,        \* history: number of loads begun
  orphans       \* history: the cells written by a load that then failed

vars == <<engine, modules, cells, load, running, table, panicked, loads, orphans>>

-----------------------------------------------------------------------------
(* References.  A function, table or memory lives in a module or in a host *)
(* module.                                                                 *)

Ref(kind, module, index) == [kind |-> kind, module |-> module, index |-> index]

At(k) == modules[k + 1]
Host(h) == engine.hosts[h + 1]
Loaded == 0..(Len(modules) - 1)

Least(S) == CHOOSE x \in S : \A y \in S : x <= y

Uninitialized == [kind |-> "Uninitialized"]

matches(actual, expected) ==
  /\ actual.min >= expected.min
  /\ expected.max = None \/ (actual.max # None /\ actual.max <= expected.max)

Imported(what, imports) == {i \in DOMAIN imports : imports[i].what = what}

(* Item x of an index space of m: the imports of its kind come first.      *)
get_ref(m, space, x) ==
  LET own == Imported(space, m.imports)
      here == {i \in own : Cardinality({j \in own : j < i}) = x}
      n == Cardinality(own)
  IN IF here # {} THEN m.imports[Least(here)].from
     ELSE IF x - n < Len(m[space]) THEN Ref("Module", None, x - n)
     ELSE None

get_func_ref(m, x) == get_ref(m, "Func", x)
get_global_ref(m, x) == get_ref(m, "Global", x)

(* A reference of module k, seen from outside of it. *)
Resolved(k, r) == IF r.kind = "Module" THEN Ref("Wasm", k, r.index) ELSE r

(* Does the reference name an item of the store, and of which type.        *)
Exists(space, r) ==
  IF r.kind = "Host"
    THEN r.module < Len(engine.hosts) /\ r.index < Len(Host(r.module)[space])
    ELSE r.module \in Loaded /\ r.index < Len(At(r.module)[space])

TypeOf(space, r) ==
  IF r.kind = "Host" THEN Host(r.module)[space][r.index + 1].ty
  ELSE At(r.module)[space][r.index + 1]

(* Store::get_table, get_memory: where the resource of module k lives.     *)
Owner(k, resource) ==
  IF resource.kind = "Owned" THEN Ref("Wasm", k, 0) ELSE resource.from

LimitsOf(what, r) ==
  IF r.kind = "Host" THEN Host(r.module)[what][r.index + 1].limits
  ELSE At(r.module)[what].limits

-----------------------------------------------------------------------------
(* Linking.  The first host module of that name that has the symbol wins,  *)
(* then the first module of that name that exports it.  What is found is   *)
(* checked where it is; the import keeps its module in eight bits.         *)

Truncated(found) == [found EXCEPT !.module = @ % RefLimit]

Providing(name, sym, what) ==
  {h \in 0..(Len(engine.hosts) - 1) :
     Host(h).name = name /\ \E i \in DOMAIN Host(h)[what] : Host(h)[what][i].name = sym}

Exporting(name, sym) ==
  {k \in Loaded : At(k).name = name /\ sym \in DOMAIN At(k).exports}

Position(sym, symbols) ==
  Least({i \in DOMAIN symbols : symbols[i].name = sym}) - 1

Found(what, name, sym, from_exporter(_)) ==
  LET hosts == Providing(name, sym, what)
      exporters == Exporting(name, sym)
  IN IF hosts # {}
       THEN Ref("Host", Least(hosts), Position(sym, Host(Least(hosts))[what]))
     ELSE IF exporters # {} /\ At(Least(exporters)).exports[sym].what = what
       THEN from_exporter(Least(exporters))
     ELSE None

Item(space, name, sym) ==
  Found(space, name, sym,
        LAMBDA k : Resolved(k, get_ref(At(k), space, At(k).exports[sym].index)))

link_item_untyped(space, name, sym, ty) ==                          \* mutant
  LET found == Item(space, name, sym)
  IN IF found # None THEN Truncated(found) ELSE None

link_item(space, name, sym, ty) ==
  LET found == Item(space, name, sym)
  IN IF found # None /\ Exists(space, found) /\ TypeOf(space, found) = ty THEN Truncated(found)
     ELSE None

(* A re-exported resource is linked to its owner.                          *)
Resource(what, name, sym) ==
  Found(what, name, sym,
        LAMBDA k : IF At(k)[what] = None THEN None ELSE Owner(k, At(k)[what]))

link_resource_to_exporter(what, name, sym, expected) ==             \* mutant
  LET found == Resource(what, name, sym)
  IN IF found # None /\ matches(LimitsOf(what, found), expected)
       THEN Truncated(Found(what, name, sym, LAMBDA k : Ref("Wasm", k, 0)))
     ELSE None

link_resource(what, name, sym, expected) ==
  LET found == Resource(what, name, sym)
  IN IF found # None /\ matches(LimitsOf(what, found), expected) THEN Truncated(found) ELSE None

link_function(d) == link_item("Func", d.module, d.name, d.ty)
link_global(d) == link_item("Global", d.module, d.name, d.ty)
link_table(d) == link_resource("Table", d.module, d.name, d.ty)
link_memory(d) == link_resource("Memory", d.module, d.name, d.ty)

Link(d) ==
  CASE d.what = "Func" -> link_function(d)
    [] d.what = "Global" -> link_global(d)
    [] d.what = "Table" -> link_table(d)
    [] d.what = "Memory" -> link_memory(d)

Declarations ==
  [what : Spaces, module : engine.names, name : engine.symbols, ty : Types]
    \cup [what : Resources, module : engine.names, name : engine.symbols, ty : Limits]

Descriptors ==
  [what : Spaces, index : 0..(engine.imports + MaxFuncs)]
    \cup [what : Resources, index : {0}]

-----------------------------------------------------------------------------
(* Module::read.  load.last is the last section read; load.at and load.left *)
(* are the position in the table and the entries left of the element       *)
(* segment being read; load.wrote the cells written so far.                *)

NoSection == 0
ImportSection == 2
SpaceSection == [Func |-> 3, Global |-> 6]
ResourceSection == [Table |-> 4, Memory |-> 5]
ExportSection == 7
StartSection == 8
ElementSection == 9
CodeSection == 10

new_module(name, serial) ==
  [name |-> name, imports |-> <<>>, Func |-> <<>>, Global |-> <<>>,
   Table |-> None, Memory |-> None, exports |-> <<>>, start |-> None,
   serial |-> serial]

Ordered_anyhow(section) ==                                          \* mutant
  section \in engine.sections /\ load.left = 0 /\ load.last # section

(* Sections other than custom ones come in order, each at most once.       *)
Ordered(section) ==
  section \in engine.sections /\ load.left = 0 /\ load.last < section

Read(section, m) == load' = [load EXCEPT !.module = m, !.last = section]

(* The module being read will be given this reference by push_module.      *)
Upcoming == Len(modules)

(* Module names must be new, except the empty one. *)
begin(name) ==
  /\ load = None /\ running = None            \* else ERR_WRONG_STATE
  /\ loads < engine.loads
  /\ name = NoName \/ /\ \A k \in Loaded : At(k).name # name
                      /\ \A h \in DOMAIN engine.hosts : engine.hosts[h].name # name
  /\ loads' = loads + 1
  /\ load' = [module |-> new_module(name, loads + 1), last |-> NoSection,
              at |-> 0, left |-> 0, wrote |-> {}]
  /\ UNCHANGED <<modules, cells, running, table, panicked, orphans>>

(* An index is not there: the process panics. *)
panics(at) ==
  /\ panicked' = at
  /\ UNCHANGED <<modules, cells, load, running, table, loads, orphans>>

(* A re-exported item is looked up by the reference its exporter kept.     *)
link_panics(d) ==
  /\ Ordered(ImportSection) /\ d.what \in Spaces
  /\ LET found == Item(d.what, d.module, d.name)
     IN found # None /\ ~Exists(d.what, found) /\ panics(<<found, 0>>)

Linkable ==
  IF Ordered(ImportSection) THEN {d \in Declarations : Link(d) # None} ELSE {}

(* Imports that link; the resource of import i is to be indexed. *)
Missing(decls, i) ==
  /\ decls[i].what \in Resources
  /\ LET r == Link(decls[i]) IN r.kind = "Host" /\ ~Exists(decls[i].what, r)

(* A second table or memory is refused before it is indexed. *)
import_panics(decls) ==
  /\ Ordered(ImportSection)
  /\ \E i \in DOMAIN decls :
       /\ Missing(decls, i)
       /\ \A what \in Resources : Cardinality({j \in 1..i : decls[j].what = what}) <= 1
       /\ panics(<<Link(decls[i]), 0>>)

(* decls are imports that link; one that does not is `fail`. *)
read_imports(decls) ==
  LET imports == [i \in DOMAIN decls |->
                    [what |-> decls[i].what, from |-> Link(decls[i]),
                     ty |-> decls[i].ty, module |-> decls[i].module]]
      resource(what) == IF Imported(what, imports) = {} THEN None
                        ELSE [kind |-> "Import",
                              from |-> imports[Least(Imported(what, imports))].from]
  IN /\ Ordered(ImportSection)
     /\ \A what \in Resources : Cardinality(Imported(what, imports)) <= 1
     /\ \A i \in DOMAIN decls : ~Missing(decls, i)
     /\ Read(ImportSection, [load.module EXCEPT !.imports = imports,
                !.Table = resource("Table"), !.Memory = resource("Memory")])
     /\ UNCHANGED <<modules, cells, running, table, panicked, loads, orphans>>

(* FunctionSection and GlobalSection; a global's initial value is left out. *)
read_items(space, types) ==
  /\ Ordered(SpaceSection[space])
  /\ Read(SpaceSection[space], [load.module EXCEPT ![space] = types])
  /\ UNCHANGED <<modules, cells, running, table, panicked, loads, orphans>>

read_table(limits) ==
  /\ Ordered(ResourceSection.Table)
  /\ load.module.Table = None                  \* else MultipleTables
  /\ Read(ResourceSection.Table,
          [load.module EXCEPT !.Table = [kind |-> "Owned", limits |-> limits]])
  /\ LET own == Ref("Wasm", Upcoming, 0)
     IN cells' = [t \in DOMAIN cells \cup {own} |->
                    IF t = own THEN [i \in 1..limits.min |-> Uninitialized] ELSE cells[t]]
  /\ UNCHANGED <<modules, running, table, panicked, loads, orphans>>

read_memory(limits) ==
  /\ Ordered(ResourceSection.Memory)
  /\ load.module.Memory = None                 \* else MultipleMemories
  /\ Read(ResourceSection.Memory,
          [load.module EXCEPT !.Memory = [kind |-> "Owned", limits |-> limits]])
  /\ UNCHANGED <<modules, cells, running, table, panicked, loads, orphans>>

(* A table or memory section with no entry: for a table the import, if     *)
(* any, is MultipleTables; for a memory it is forgotten.                   *)
read_empty(what) ==
  /\ Ordered(ResourceSection[what])
  /\ what = "Table" => load.module.Table = None
  /\ Read(ResourceSection[what], [load.module EXCEPT ![what] = None])
  /\ UNCHANGED <<modules, cells, running, table, panicked, loads, orphans>>

read_exports(exports) ==
  /\ Ordered(ExportSection)
  /\ \A sym \in DOMAIN exports :
        IF exports[sym].what \in Spaces
          THEN get_ref(load.module, exports[sym].what, exports[sym].index) # None
          ELSE load.module[exports[sym].what] # None
  /\ Read(ExportSection, [load.module EXCEPT !.exports = exports])
  /\ UNCHANGED <<modules, cells, running, table, panicked, loads, orphans>>

(* The type of a function reference of the module being read. *)
OwnTypeOf(m, r) == IF r.kind = "Module" THEN m.Func[r.index + 1] ELSE TypeOf("Func", r)

read_start(x) ==
  LET r == get_func_ref(load.module, x)
  IN /\ Ordered(StartSection)
     /\ r # None /\ r.kind # "Host" /\ OwnTypeOf(load.module, r) = StartType
     /\ Read(StartSection, [load.module EXCEPT !.start = r])
     /\ UNCHANGED <<modules, cells, running, table, panicked, loads, orphans>>

(* Module::get_table: the module's table, unless the engine still holds a  *)
(* reference to it (TableRefNotUnique).                                    *)
LoadTable == Owner(Upcoming, load.module.Table)
TableIsUnique == load.module.Table # None /\ table # LoadTable

element_segment(offset, n) ==
  /\ Ordered(ElementSection) \/ (load.last = ElementSection /\ load.left = 0)
  /\ TableIsUnique
  /\ offset + n <= Len(cells[LoadTable])
  /\ load' = [load EXCEPT !.last = ElementSection, !.at = offset, !.left = n]
  /\ UNCHANGED <<modules, cells, running, table, panicked, loads, orphans>>

(* The value an element entry writes, with the function it is meant for:   *)
(* its type and the load it came from.  Of a host function only the        *)
(* reference is known.                                                     *)
Entry_of_last_module(r) ==                                          \* mutant
  CASE r.kind = "Module" ->
         [kind |-> "Wasm", module |-> (Len(modules) - 1) % RefLimit, index |-> r.index,
          ty |-> load.module.Func[r.index + 1], serial |-> load.module.serial]
    [] r.kind = "Wasm" ->
         [kind |-> "Wasm", module |-> r.module, index |-> r.index,
          ty |-> TypeOf("Func", r), serial |-> At(r.module).serial]
    [] r.kind = "Host" ->
         [kind |-> "Host", module |-> r.module, index |-> r.index, ty |-> None, serial |-> 0]

Entry(r) ==
  CASE r.kind = "Module" ->
         [kind |-> "Wasm", module |-> Upcoming % RefLimit, index |-> r.index,
          ty |-> load.module.Func[r.index + 1], serial |-> load.module.serial]
    [] r.kind = "Wasm" ->
         [kind |-> "Wasm", module |-> r.module, index |-> r.index,
          ty |-> TypeOf("Func", r), serial |-> At(r.module).serial]
    [] r.kind = "Host" ->
         [kind |-> "Host", module |-> r.module, index |-> r.index, ty |-> None, serial |-> 0]

element_entry(x) ==
  LET r == get_func_ref(load.module, x)
      cell == <<LoadTable, load.at + 1>>
  IN /\ load.left > 0 /\ TableIsUnique
     /\ r # None                               \* else FunctionIdxOutOfRange
     /\ cells' = [cells EXCEPT ![LoadTable][load.at + 1] = Entry(r)]
     /\ load' = [load EXCEPT !.at = @ + 1, !.left = @ - 1, !.wrote = @ \cup {cell}]
     /\ orphans' = orphans \ {cell}
     /\ UNCHANGED <<modules, running, table, panicked, loads>>

(* As many bodies as functions; a body that is refused is `fail`. *)
read_code ==
  /\ Ordered(CodeSection)
  /\ Read(CodeSection, load.module)
  /\ UNCHANGED <<modules, cells, running, table, panicked, loads, orphans>>

(* A body calls an import, or reads or writes one: it is compiled against  *)
(* the item that was linked, which is indexed without a test.              *)
body_panics(space, x) ==
  LET r == get_ref(load.module, space, x)
  IN /\ Ordered(CodeSection) /\ load.module.Func # <<>>
     /\ r # None /\ r.kind # "Module" /\ ~Exists(space, r)
     /\ panics(<<r, 0>>)

(* The new module and its own table are dropped; what the element section  *)
(* wrote into other tables stays.                                          *)
drop_module ==
  LET own == Ref("Wasm", Upcoming, 0)
  IN /\ load' = None
     /\ cells' = [t \in DOMAIN cells \ {own} |-> cells[t]]
     /\ orphans' = orphans \cup {cell \in load.wrote : cell[1] # own}
     /\ UNCHANGED <<modules, running, table, panicked, loads>>

(* A byte may be refused anywhere; memory is requested while the sections  *)
(* up to the code are read, but not by the element section.                *)
fail(why) ==
  /\ why = "allocation" =>
        /\ load.left = 0 /\ load.last < CodeSection
        /\ load.last = ElementSection => load.module.Func # <<>>
  /\ drop_module

(* The end of the file, and push_module. *)
finish ==
  /\ load.left = 0
  /\ load.last = CodeSection \/ load.module.Func = <<>>
  /\ IF Len(modules) < max_modules
       THEN /\ modules' = Append(modules, load.module)
            /\ load' = None
            /\ UNCHANGED <<cells, running, table, panicked, loads, orphans>>
       ELSE drop_module                        \* AllocError::OutOfMemory

-----------------------------------------------------------------------------
(* Execution, as far as it reaches other modules.  The call stack is not   *)
(* kept: any module may be the one that executes.                          *)

get_table(k) == IF At(k).Table = None THEN None ELSE Owner(k, At(k).Table)

Enter(k) == running' = k /\ table' = get_table(k)

invoke(k) ==
  /\ load = None /\ running = None
  /\ At(k).Func # <<>>
  /\ Enter(k)
  /\ UNCHANGED <<modules, cells, load, panicked, loads, orphans>>

call_extern(i) ==
  /\ running # None
  /\ At(running).imports[i].what = "Func" /\ At(running).imports[i].from.kind = "Wasm"
  /\ Enter(At(running).imports[i].from.module)
  /\ UNCHANGED <<modules, cells, load, panicked, loads, orphans>>

(* The module and the function of the cell are indexed without a test.  A  *)
(* host function changes nothing here.                                     *)
call_indirect(i, ty) ==
  LET cell == cells[table][i]
  IN /\ running # None /\ table # None
     /\ cell.kind # "Uninitialized"
     /\ \/ /\ cell.kind = "Wasm" /\ Exists("Func", cell) /\ TypeOf("Func", cell) = ty
           /\ Enter(cell.module)
           /\ UNCHANGED <<modules, cells, load, panicked, loads, orphans>>
        \/ ~Exists("Func", cell) /\ panics(<<table, i>>)

(* The run ends.  The engine keeps its reference to the table. *)
stop ==
  /\ running # None
  /\ running' = None
  /\ UNCHANGED <<modules, cells, load, table, panicked, loads, orphans>>

reset ==
  /\ load = None
  /\ running' = None /\ table' = None
  /\ UNCHANGED <<modules, cells, load, panicked, loads, orphans>>

-----------------------------------------------------------------------------

HostTables ==
  UNION {{Ref("Host", h, i) : i \in 0..(Len(Host(h).Table) - 1)} :
           h \in 0..(Len(engine.hosts) - 1)}

Init ==
  /\ engine \in Engines
  /\ modules = <<>>
  /\ cells = [t \in HostTables |-> [i \in 1..LimitsOf("Table", t).min |-> Uninitialized]]
  /\ load = None
  /\ running = None /\ table = None
  /\ panicked = None
  /\ loads = 0 /\ orphans = {}

Reading ==
  /\ load # None
  /\ \/ \E decls \in BoundedSeq(Linkable, engine.imports) : read_imports(decls)
     \/ \E decls \in BoundedSeq(Linkable, engine.imports) : import_panics(decls)
     \/ \E d \in Declarations : link_panics(d)
     \/ \E space \in Spaces, types \in BoundedSeq(Types, MaxFuncs) : read_items(space, types)
     \/ \E limits \in Limits : read_table(limits) \/ read_memory(limits)
     \/ \E what \in Resources : read_empty(what)
     \/ \E syms \in SUBSET engine.symbols : \E exports \in [syms -> Descriptors] :
            Cardinality(syms) <= MaxExports /\ read_exports(exports)
     \/ \E x \in 0..(engine.imports + MaxFuncs) : read_start(x) \/ element_entry(x)
     \/ \E offset \in 0..MaxFuncs, n \in 0..MaxFuncs : element_segment(offset, n)
     \/ read_code
     \/ \E space \in Spaces, x \in 0..(engine.imports + MaxFuncs) : body_panics(space, x)
     \/ \E why \in engine.failures : fail(why)
     \/ finish

Running ==
  \/ running # None /\ \E i \in DOMAIN At(running).imports : call_extern(i)
  \/ table # None /\ \E i \in DOMAIN cells[table], ty \in Types : call_indirect(i, ty)
  \/ stop

Next ==
  /\ panicked = None
  /\ UNCHANGED engine
  /\ \/ \E name \in engine.names : begin(name)
     \/ Reading
     \/ engine.runs /\ \E k \in Loaded : invoke(k)
     \/ Running
     \/ reset

Spec == Init /\ [][Next]_vars

-----------------------------------------------------------------------------
(* Properties *)

Elements ==
  {Uninitialized} \cup
  [kind : {"Wasm"}, module : 0..(RefLimit - 1), index : Nat, ty : Types, serial : Nat] \cup
  [kind : {"Host"}, module : 0..(RefLimit - 1), index : Nat, ty : {None}, serial : {0}]

(* Every module being read or loaded. *)
AllModules ==
  {At(k) : k \in Loaded} \cup (IF load = None THEN {} ELSE {load.module})

TypeOK ==
  /\ Len(modules) <= max_modules
  /\ \A m \in AllModules :
        /\ m.name \in engine.names /\ m.Func \in Seq(Types) /\ m.Global \in Seq(Types)
        /\ \A i \in DOMAIN m.imports : m.imports[i].from \in FunctionRefs
        /\ DOMAIN m.exports \subseteq engine.symbols /\ m.serial \in 1..loads
  /\ DOMAIN cells =
        HostTables \cup
        {Ref("Wasm", k, 0) : k \in {l \in Loaded : At(l).Table # None /\ At(l).Table.kind = "Owned"}}
        \cup (IF load # None /\ load.module.Table # None /\ load.module.Table.kind = "Owned"
                 THEN {Ref("Wasm", Upcoming, 0)} ELSE {})
  /\ \A t \in DOMAIN cells : \A i \in DOMAIN cells[t] : cells[t][i] \in Elements
  /\ running \in Loaded \cup {None} /\ table \in DOMAIN cells \cup {None}
  /\ (load # None /\ load.left > 0) => load.at + load.left <= Len(cells[LoadTable])

(* A reference of eight bits names what was linked, unless it is to one of *)
(* more host modules than it can tell apart.                               *)
Nameable(r) == r.kind = "Host" => Len(engine.hosts) <= RefLimit

(* The `unreachable!()` of link_table, link_memory, get_table, get_memory   *)
(* and read_section: however often a table or memory was re-exported, an   *)
(* import names the module that owns it; a host that it names has it; and  *)
(* it satisfies the limits asked for, if it is the host that was linked.   *)
ImportsResolveToOwners ==
  \A m \in AllModules : \A i \in DOMAIN m.imports :
    LET import == m.imports[i]
    IN import.what \in Resources =>
         /\ import.from.kind = "Wasm" =>
              /\ import.from.module \in Loaded
              /\ At(import.from.module)[import.what] # None
              /\ At(import.from.module)[import.what].kind = "Owned"
         /\ import.from.kind = "Host" => Exists(import.what, import.from)
         /\ Nameable(import.from) => matches(LimitsOf(import.what, import.from), import.ty)

(* An imported function or global exists and has the type its importer     *)
(* declares, through any chain of re-exports, unless the reference to its  *)
(* host was cut short: link_item compares the types where the item was     *)
(* found, and nothing compares them again.                                 *)
ImportTypesAgree ==
  \A m \in AllModules : \A i \in DOMAIN m.imports :
    LET import == m.imports[i]
    IN import.what \in Spaces /\ Nameable(import.from) =>
         Exists(import.what, import.from) /\ TypeOf(import.what, import.from) = import.ty

(* What a module exports, and its start function, is there once it is      *)
(* loaded: link_* and module_start index it without a test.  An export of  *)
(* a host's item is there unless the reference to the host was cut short.  *)
LoadedModulesAreClosed ==
  /\ TypeOK
  /\ \A k \in Loaded :
       /\ \A sym \in DOMAIN At(k).exports :
            LET export == At(k).exports[sym]
                r == get_ref(At(k), export.what, export.index)
            IN IF export.what \in Spaces
                 THEN r # None /\ (Nameable(r) => Exists(export.what, Resolved(k, r)))
                 ELSE At(k)[export.what] # None
       /\ At(k).start # None =>
            /\ Exists("Func", Resolved(k, At(k).start))
            /\ TypeOf("Func", Resolved(k, At(k).start)) = StartType

(* A table entry written by a load that succeeded names, for ever, the     *)
(* function that load meant, although it was written before the module had *)
(* a place in the store; and nothing outside of the store and of the hosts *)
(* is ever indexed, while a module is loaded or runs, but through an entry *)
(* that a failed load left behind or a reference to a host that was cut    *)
(* short.                                                                  *)
CellsKeepTheirMeaning ==
  /\ \A t \in DOMAIN cells : \A i \in DOMAIN cells[t] :
       LET cell == cells[t][i]
           pending == load # None /\ <<t, i>> \in load.wrote
       IN (cell.kind # "Uninitialized" /\ <<t, i>> \notin orphans /\ ~pending /\ Nameable(cell)) =>
            /\ Exists("Func", cell)
            /\ cell.kind = "Wasm" =>
                 TypeOf("Func", cell) = cell.ty /\ At(cell.module).serial = cell.serial
  /\ panicked # None => panicked \in orphans \/ Len(engine.hosts) > RefLimit

(* README.md: "Any allocation failures must not result in panic." *)
NoPanic == panicked = None

(* The memory a module imports is its memory (docs/REQUIREMENTS.md, REQ-13: *)
(* the memory index space of Wasm 1.0 starts with the imports).            *)
ImportedMemoryIsKept ==
  \A k \in Loaded : Imported("Memory", At(k).imports) # {} => At(k).Memory # None

=============================================================================
