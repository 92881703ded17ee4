---------------------------- MODULE LoaderProofs ----------------------------
(***************************************************************************)
(* Proofs about Loader, for any engine, any bounds, any reference width and *)
(* any number of host modules, also of more than references tell apart.    *)
(*                                                                         *)
(* The invariant IInv has four parts.  Store: the loaded modules are what  *)
(* their importers take them for (Valid).  Loading: so is the module being *)
(* read, between any two of its sections.  Tables: the cells there are.    *)
(* Meaning: a cell names a function of its type, or is one that the load   *)
(* in progress wrote and that will name one when the load succeeds.        *)
(***************************************************************************)
EXTENDS Loader, FiniteSetTheorems, WellFoundedInduction, TLAPS

-----------------------------------------------------------------------------
(* Least elements and counting *)

LEMMA LeastIsLeast ==
  ASSUME NEW S \in SUBSET Nat, S # {}
  PROVE  Least(S) \in S /\ \A y \in S : Least(S) <= y
<1> DEFINE R == {ss \in Nat \X Nat : ss[1] < ss[2]}
<1>1. IsWellFoundedOn(R, Nat)
  BY NatLessThanWellFounded DEF OpToRel
<1>2. \A x, y \in Nat : <<y, x>> \notin R => x <= y
  OBVIOUS
<1> HIDE DEF R
<1>3. PICK x \in S : \A y \in S : <<y, x>> \notin R
  BY <1>1, WFMin
<1>4. \A y \in S : x <= y
  BY <1>2, <1>3, S \subseteq Nat, Zenon
<1> QED BY <1>4 DEF Least

LEMMA Counted ==
  ASSUME NEW n \in Nat, NEW own \in SUBSET (1..n), NEW x \in Nat,
         x < Cardinality(own)
  PROVE  \E i \in own : Cardinality({j \in own : j < i}) = x
<1> DEFINE below(i) == {j \in own : j < i}
           over == {i \in Nat : Cardinality(below(i)) > x}
<1>1. IsFiniteSet(1..n)
  BY FS_Interval
<1>2. ASSUME NEW i \in Nat PROVE IsFiniteSet(below(i)) /\ Cardinality(below(i)) \in Nat
  <2>1. below(i) \in SUBSET (1..n)
    OBVIOUS
  <2> HIDE DEF below
  <2> QED BY <2>1, <1>1, FS_Subset, FS_CardinalityType
<1>3. below(n + 1) = own /\ below(0) = {}
  <2>1. \A j \in own : j < n + 1 /\ ~(j < 0)
    OBVIOUS
  <2> QED BY <2>1, Zenon
<1>4. n + 1 \in over /\ 0 \notin over
  BY <1>3, FS_EmptySet
<1>5. PICK i \in over : \A j \in over : i <= j
  BY <1>4, LeastIsLeast
<1>6. i \in Nat /\ i # 0 /\ i - 1 \in Nat /\ i - 1 \notin over
  BY <1>4, <1>5
<1>7. /\ i - 1 \in own => below(i) = below(i - 1) \cup {i - 1}
      /\ i - 1 \notin own => below(i) = below(i - 1)
      /\ i - 1 \notin below(i - 1)
  <2>1. \A j \in own : (j < i <=> (j < i - 1 \/ j = i - 1)) /\ (j = i - 1 => ~(j < i - 1))
    BY <1>6
  <2> QED BY <2>1, Zenon
<1>8. IsFiniteSet(below(i - 1)) /\ Cardinality(below(i - 1)) \in Nat
  BY <1>2, <1>6
<1>9. Cardinality(below(i)) > x /\ Cardinality(below(i - 1)) <= x
  BY <1>6, <1>8
<1> HIDE DEF below
<1>10. Cardinality(below(i - 1) \cup {i - 1}) = Cardinality(below(i - 1)) + 1
  BY <1>7, <1>8, FS_AddElement
<1>11. i - 1 \in own
  <2>1. Cardinality(below(i)) # Cardinality(below(i - 1))
    BY <1>8, <1>9
  <2> QED BY <2>1, <1>7
<1>12. Cardinality(below(i)) = Cardinality(below(i - 1)) + 1
  BY <1>7, <1>10, <1>11
<1>13. Cardinality(below(i - 1)) = x
  BY <1>8, <1>9, <1>12
<1> QED BY <1>11, <1>13 DEF below

-----------------------------------------------------------------------------
(* The invariant *)

(* The owner of a table or memory is there. *)
Owns(what, r) ==
  IF r.kind = "Host"
    THEN r.module < Len(engine.hosts) /\ r.index < Len(Host(r.module)[what])
    ELSE /\ r.index = 0 /\ r.module \in Loaded
         /\ At(r.module)[what] # None /\ At(r.module)[what].kind = "Owned"

ImportsHold(m) ==
  \A i \in DOMAIN m.imports :
    LET import == m.imports[i]
    IN /\ import.from.module < RefLimit
       /\ import.what \in Spaces /\ Nameable(import.from) =>
            Exists(import.what, import.from) /\ TypeOf(import.what, import.from) = import.ty
       /\ import.what \in Resources =>
            /\ Owns(import.what, import.from)
            /\ Nameable(import.from) => matches(LimitsOf(import.what, import.from), import.ty)

SlotsHold(m) ==
  \A what \in Resources :
    m[what] # None /\ m[what].kind = "Import" => Owns(what, m[what].from)

ExportsHold(m) ==
  \A sym \in DOMAIN m.exports :
    LET export == m.exports[sym]
    IN IF export.what \in Spaces THEN get_ref(m, export.what, export.index) # None
       ELSE m[export.what] # None

StartHolds(m) ==
  m.start # None =>
    IF m.start.kind = "Module"
      THEN m.start.index < Len(m.Func) /\ m.Func[m.start.index + 1] = StartType
      ELSE Exists("Func", m.start) /\ TypeOf("Func", m.start) = StartType

(* A module is all that its importers will take it for. *)
Valid(m) ==
  /\ m \in Modules
  /\ m.name \in engine.names /\ DOMAIN m.exports \subseteq engine.symbols
  /\ m.serial \in 1..loads
  /\ ImportsHold(m) /\ SlotsHold(m) /\ ExportsHold(m) /\ StartHolds(m)

Store ==
  /\ engine \in Engines /\ loads \in Nat
  /\ modules \in Seq(Modules) /\ Len(modules) <= max_modules
  /\ \A k \in Loaded : Valid(At(k))

Owned(m) == m.Table # None /\ m.Table.kind = "Owned"

(* What has not been read is not there, and sections come in order. *)
Loading ==
  /\ load \in Loads \cup {None}
  /\ load # None =>
       /\ running = None /\ Valid(load.module)
       /\ load.last < ResourceSection.Table => ~Owned(load.module)
       /\ load.last < ExportSection => DOMAIN load.module.exports = {}
       /\ load.last < StartSection => load.module.start = None
       /\ load.last < ElementSection => load.wrote = {} /\ load.left = 0
       /\ load.left > 0 => /\ load.module.Table # None
                           /\ load.at + load.left <= Len(cells[LoadTable])

(* The tables that stay when the load in progress fails. *)
Settled ==
  HostTables \cup {Ref("Wasm", k, 0) : k \in {l \in Loaded : Owned(At(l))}}

Tables ==
  /\ DOMAIN cells = Settled \cup
        (IF load # None /\ Owned(load.module) THEN {Ref("Wasm", Upcoming, 0)} ELSE {})
  /\ \A t \in DOMAIN cells : cells[t] \in Seq(Elements)
  /\ running \in Loaded \cup {None} /\ table \in Settled \cup {None}

Names(cell) ==
  Nameable(cell) =>
    /\ Exists("Func", cell)
    /\ cell.kind = "Wasm" => TypeOf("Func", cell) = cell.ty /\ At(cell.module).serial = cell.serial

(* It will name a function of the module being read, if that succeeds.     *)
WillName(cell) ==
  /\ cell.kind = "Wasm" /\ cell.serial = load.module.serial
  /\ cell.index < Len(load.module.Func) /\ load.module.Func[cell.index + 1] = cell.ty
  /\ cell.module = Upcoming % RefLimit

Meaning ==
  \A t \in DOMAIN cells : \A i \in DOMAIN cells[t] :
    LET cell == cells[t][i]
    IN (cell.kind # "Uninitialized" /\ <<t, i>> \notin orphans) =>
         \/ Names(cell)
         \/ load # None /\ <<t, i>> \in load.wrote /\ WillName(cell)

(* The process panics only on what a failed load left behind, or where a   *)
(* reference to a host was cut short.                                      *)
Excused(at) == at # None => at \in orphans \/ Len(engine.hosts) > RefLimit

IInv == Store /\ Loading /\ Tables /\ Meaning /\ Excused(panicked)


-----------------------------------------------------------------------------
(* Modules and references *)

LEMMA Kinds ==
  /\ \A s \in Spaces : s = "Func" \/ s = "Global"
  /\ \A r \in Resources : r = "Table" \/ r = "Memory"
  /\ \A s \in Spaces : s \notin Resources
BY DEF Spaces, Resources

LEMMA Hosts ==
  ASSUME engine \in Engines
  PROVE  /\ engine.hosts \in Seq(HostModules) /\ Len(engine.hosts) \in Nat
         /\ \A h \in Nat : h < Len(engine.hosts) =>
              /\ Host(h) \in HostModules
              /\ \A s \in Spaces : Host(h)[s] \in Seq(Named(Types))
              /\ \A r \in Resources :
                   Host(h)[r] \in Seq([name : STRING, limits : LimitTypes])
<1>1. engine.hosts \in Seq(HostModules) /\ Len(engine.hosts) \in Nat
  BY LoaderAssumption
<1>2. \A h \in Nat : h < Len(engine.hosts) => Host(h) \in HostModules
  BY <1>1 DEF Host
<1> QED BY <1>1, <1>2 DEF HostModules, Spaces, Resources

LEMMA Fields ==
  ASSUME NEW m \in Modules
  PROVE  /\ m.imports \in Seq(Imports)
         /\ \A i \in DOMAIN m.imports :
              /\ m.imports[i].what \in Spaces \cup Resources
              /\ m.imports[i].from \in FunctionRefs
         /\ \A s \in Spaces : m[s] \in Seq(Types)
         /\ \A r \in Resources : m[r] \in Slots \cup {None}
         /\ m.Func \in Seq(Types) /\ m.Global \in Seq(Types)
         /\ m.Table \in Slots \cup {None} /\ m.Memory \in Slots \cup {None}
         /\ m.start \in OwnRefs \cup FunctionRefs \cup {None}
<1>1. m.imports \in Seq(Imports)
  BY DEF Modules
<1>2. \A i \in DOMAIN m.imports :
        m.imports[i] \in Imports
  BY <1>1
<1>2a. \A i \in DOMAIN m.imports :
        m.imports[i].what \in Spaces \cup Resources /\ m.imports[i].from \in FunctionRefs
  BY <1>2 DEF Imports
<1>3. /\ m.Func \in Seq(Types) /\ m.Global \in Seq(Types)
      /\ m.Table \in Slots \cup {None} /\ m.Memory \in Slots \cup {None}
      /\ m.start \in OwnRefs \cup FunctionRefs \cup {None}
  BY DEF Modules
<1>4. (\A s \in Spaces : m[s] \in Seq(Types)) /\ (\A r \in Resources : m[r] \in Slots \cup {None})
  BY <1>3 DEF Spaces, Resources
<1> QED BY <1>1, <1>2a, <1>3, <1>4

(* What an index of a module means: an import of the kind, or the item of  *)
(* the module that is left when the imports are counted off.               *)
LEMMA Indexed ==
  ASSUME NEW m \in Modules, NEW space \in Spaces, NEW x \in Nat
  PROVE  LET r == get_ref(m, space, x)
         IN \/ r = None
            \/ \E i \in DOMAIN m.imports : m.imports[i].what = space /\ r = m.imports[i].from
            \/ \E n \in Nat : r = Ref("Module", None, n) /\ n < Len(m[space])
<1> DEFINE own == Imported(space, m.imports)
           here == {i \in own : Cardinality({j \in own : j < i}) = x}
           n == Cardinality(own)
<1>1. own \in SUBSET (1..Len(m.imports)) /\ Len(m.imports) \in Nat
  BY Fields DEF Imported
<1>2. n \in Nat
  <2> HIDE DEF own
  <2>1. IsFiniteSet(1..Len(m.imports))
    BY <1>1, FS_Interval
  <2> QED BY <1>1, <2>1, FS_Subset, FS_CardinalityType
<1>3. CASE here # {}
  <2>1. here \in SUBSET Nat
    BY <1>1
  <2>2. Least(here) \in here
    BY <1>3, <2>1, LeastIsLeast
  <2>3. get_ref(m, space, x) = m.imports[Least(here)].from
    BY <1>3 DEF get_ref
  <2> QED BY <2>2, <2>3 DEF Imported
<1>4. CASE here = {}
  <2>1. ~(x < n)
    <3> HIDE DEF own
    <3>1. x < n => \E i \in own : Cardinality({j \in own : j < i}) = x
      BY <1>1, Counted
    <3> QED BY <1>4, <3>1
  <2>2. x - n \in Nat
    BY <1>2, <2>1
  <2>3. get_ref(m, space, x) = IF x - n < Len(m[space]) THEN Ref("Module", None, x - n) ELSE None
    BY <1>4 DEF get_ref
  <2> QED BY <2>2, <2>3
<1> QED BY <1>3, <1>4


-----------------------------------------------------------------------------
(* The store only grows: what a reference names, it names for ever.        *)

Grows ==
  /\ engine' = engine
  /\ modules \in Seq(Modules) /\ modules' \in Seq(Modules)
  /\ loads \in Nat /\ loads' \in Nat /\ loads <= loads'
  /\ Len(modules) <= Len(modules')
  /\ \A k \in Loaded : modules'[k + 1] = modules[k + 1]

LEMMA NamedKept ==
  ASSUME Grows, NEW space, NEW r, Exists(space, r)
  PROVE  Exists(space, r)' /\ TypeOf(space, r)' = TypeOf(space, r)
BY DEF Grows, Exists, TypeOf, At, Host, Loaded

LEMMA OwnerKept ==
  ASSUME Grows, NEW what, NEW r, Owns(what, r)
  PROVE  Owns(what, r)' /\ LimitsOf(what, r)' = LimitsOf(what, r)
BY DEF Grows, Owns, LimitsOf, At, Host, Loaded

LEMMA NamesKept ==
  ASSUME Grows, NEW cell, Names(cell)
  PROVE  Names(cell)'
<1>1. Nameable(cell)' <=> Nameable(cell)
  BY DEF Nameable, Grows
<1>2. Nameable(cell) => Exists("Func", cell)' /\ TypeOf("Func", cell)' = TypeOf("Func", cell)
  BY NamedKept DEF Names
<1>3. Nameable(cell) /\ cell.kind = "Wasm" => At(cell.module)' = At(cell.module)
  BY DEF Names, Exists, Grows, At
<1> QED BY <1>1, <1>2, <1>3 DEF Names

LEMMA CellKept ==
  ASSUME Grows, NEW t, NEW i, cells'[t][i] = cells[t][i], Names(cells[t][i])
  PROVE  Names(cells[t][i])'
<1>1. PICK cell : cell = cells[t][i]
  OBVIOUS
<1>2. Names(cell)'
  BY <1>1, NamesKept
<1>3. cells'[t][i] = cell
  BY <1>1
<1> QED BY <1>2, <1>3, Zenon DEF Names, Nameable, Exists, TypeOf, At, Host, Loaded

LEMMA ValidKept ==
  ASSUME Grows, NEW m, Valid(m)
  PROVE  Valid(m)'
<1>0. \A r : Nameable(r)' <=> Nameable(r)
  BY DEF Nameable, Grows
<1>1. ImportsHold(m)'
  BY <1>0, NamedKept, OwnerKept DEF Valid, ImportsHold
<1>2. SlotsHold(m)'
  BY OwnerKept DEF Valid, SlotsHold
<1>3. StartHolds(m)'
  BY NamedKept DEF Valid, StartHolds
<1>4. m.serial \in 1..loads'
  BY DEF Valid, Grows, Modules
<1> QED BY <1>1, <1>2, <1>3, <1>4 DEF Valid, Grows, ExportsHold, get_ref, Imported, Ref

LEMMA StoreKept ==
  ASSUME Store, UNCHANGED <<engine, modules>>, loads' \in Nat, loads <= loads'
  PROVE  Grows /\ Store'
<1>1. Grows
  BY DEF Grows, Store
<1>2. \A k \in Loaded : Valid(At(k))'
  BY <1>1, ValidKept DEF Store, At
<1> QED BY <1>1, <1>2 DEF Store, At, Loaded

-----------------------------------------------------------------------------
(* Linking *)

(* What an item of a module is, seen from outside of it. *)
LEMMA ResolvedExists ==
  ASSUME Store, NEW k \in Loaded, NEW space \in Spaces, NEW x \in Nat,
         get_ref(At(k), space, x) # None
  PROVE  LET g == get_ref(At(k), space, x)
             r == Resolved(k, g)
         IN /\ r \in FunctionRefs /\ (Nameable(r) => Exists(space, r))
            /\ Nameable(g) => Nameable(r)
<1> DEFINE m == At(k)
           g == get_ref(m, space, x)
<1>1. m \in Modules /\ ImportsHold(m) /\ k \in Nat
  BY DEF Store, Valid, Loaded
<1>2. CASE \E i \in DOMAIN m.imports : m.imports[i].what = space /\ g = m.imports[i].from
  <2>1. PICK i \in DOMAIN m.imports : m.imports[i].what = space /\ g = m.imports[i].from
    BY <1>2
  <2>2. g \in FunctionRefs /\ (Nameable(g) => Exists(space, g))
    BY <1>1, <2>1, Fields DEF ImportsHold
  <2>3. Resolved(k, g) = g
    BY <2>2 DEF Resolved, FunctionRefs
  <2> QED BY <2>2, <2>3
<1>3. CASE \E n \in Nat : g = Ref("Module", None, n) /\ n < Len(m[space])
  <2>1. PICK n \in Nat : g = Ref("Module", None, n) /\ n < Len(m[space])
    BY <1>3
  <2>2. Resolved(k, g) = Ref("Wasm", k, n)
    BY <2>1 DEF Resolved, Ref
  <2> QED BY <1>1, <2>1, <2>2 DEF Ref, FunctionRefs, Exists, Nameable
<1> QED BY <1>1, <1>2, <1>3, Indexed

(* The position of a symbol that a host module has. *)
LEMMA Positioned ==
  ASSUME NEW S, NEW symbols \in Seq(S), NEW sym,
         \E i \in DOMAIN symbols : symbols[i].name = sym
  PROVE  Position(sym, symbols) \in Nat /\ Position(sym, symbols) < Len(symbols)
<1> DEFINE hits == {i \in DOMAIN symbols : symbols[i].name = sym}
<1>1. hits \in SUBSET Nat /\ hits # {}
  OBVIOUS
<1>2. Least(hits) \in hits
  BY <1>1, LeastIsLeast
<1> QED BY <1>2 DEF Position

(* The two places a declaration is looked up in. *)
LEMMA HostProvides ==
  ASSUME engine \in Engines, NEW what \in Spaces \cup Resources, NEW name, NEW sym,
         Providing(name, sym, what) # {}
  PROVE  LET h == Least(Providing(name, sym, what))
             r == Ref("Host", h, Position(sym, Host(h)[what]))
         IN /\ r \in FunctionRefs /\ r.kind = "Host" /\ r.module < Len(engine.hosts)
            /\ r.index < Len(Host(r.module)[what])
<1> DEFINE h == Least(Providing(name, sym, what))
<1>1. Providing(name, sym, what) \in SUBSET Nat
  BY Hosts DEF Providing
<1>2. h \in Providing(name, sym, what)
  BY <1>1, LeastIsLeast
<1>3. /\ h \in Nat /\ h < Len(engine.hosts)
      /\ \E i \in DOMAIN Host(h)[what] : Host(h)[what][i].name = sym
  <2> HIDE DEF h
  <2>1. Len(engine.hosts) \in Nat
    BY Hosts
  <2> QED BY <1>2, <2>1 DEF Providing
<1>4. \E S : Host(h)[what] \in Seq(S)
  <2> HIDE DEF h
  <2>1. CASE what \in Spaces
    BY <1>3, <2>1, Hosts
  <2>2. CASE what \in Resources
    BY <1>3, <2>2, Hosts
  <2> QED BY <2>1, <2>2
<1>5. Position(sym, Host(h)[what]) \in Nat /\ Position(sym, Host(h)[what]) < Len(Host(h)[what])
  BY <1>3, <1>4, Positioned
<1>6. PICK p : p = Position(sym, Host(h)[what])
  OBVIOUS
<1> HIDE DEF h
<1>7. /\ Ref("Host", h, p) \in FunctionRefs /\ Ref("Host", h, p).kind = "Host"
      /\ Ref("Host", h, p).module = h /\ Ref("Host", h, p).index = p
  BY <1>3, <1>5, <1>6 DEF Ref, FunctionRefs
<1>8. p < Len(Host(h)[what])
  BY <1>5, <1>6
<1> QED BY <1>3, <1>6, <1>7, <1>8 DEF h

(* Eight bits are enough for what is there, unless hosts are too many.     *)
LEMMA ShortReference ==
  ASSUME Store, NEW r \in FunctionRefs
  PROVE  /\ Truncated(r) \in FunctionRefs /\ Truncated(r).module < RefLimit
         /\ Truncated(r).kind = r.kind
         /\ \/ r.kind = "Wasm" /\ r.module \in Loaded
            \/ Nameable(r) /\ r.kind = "Host" /\ r.module < Len(engine.hosts)
            => Truncated(r) = r
         /\ Nameable(Truncated(r)) <=> Nameable(r)
<1>1. RefLimit \in Nat \ {0} /\ Len(modules) <= RefLimit /\ Len(modules) \in Nat
  BY LoaderAssumption DEF Store
<1>2. /\ r.module % RefLimit \in 0..(RefLimit - 1)
      /\ r.module < RefLimit => r.module % RefLimit = r.module
  BY <1>1 DEF FunctionRefs
<1>3. /\ Truncated(r) \in FunctionRefs /\ Truncated(r).kind = r.kind
      /\ Truncated(r).module = r.module % RefLimit
      /\ r.module % RefLimit = r.module => Truncated(r) = r
  BY <1>2 DEF Truncated, FunctionRefs
<1>4. r.module \in Loaded => r.module < RefLimit
  BY <1>1 DEF Loaded
<1>5. r.kind = "Host" /\ Nameable(r) /\ r.module < Len(engine.hosts) => r.module < RefLimit
  BY <1>1, Hosts DEF Nameable, Store, FunctionRefs
<1>6. Nameable(Truncated(r)) <=> Nameable(r)
  BY <1>3 DEF Nameable
<1>7. r.kind = "Wasm" /\ r.module \in Loaded => Truncated(r) = r
  BY <1>2, <1>3, <1>4
<1>8. Nameable(r) /\ r.kind = "Host" /\ r.module < Len(engine.hosts) => Truncated(r) = r
  BY <1>2, <1>3, <1>5
<1>9. Truncated(r).module < RefLimit
  <2>1. \A n \in 0..(RefLimit - 1) : n < RefLimit
    BY <1>1
  <2> QED BY <1>2, <1>3, <2>1
<1> QED BY <1>3, <1>6, <1>7, <1>8, <1>9

LEMMA ModuleExports ==
  ASSUME Store, NEW name, NEW sym, Exporting(name, sym) # {}
  PROVE  LET k == Least(Exporting(name, sym))
         IN /\ k \in Loaded /\ k \in Nat /\ Valid(At(k)) /\ sym \in DOMAIN At(k).exports
            /\ At(k).exports[sym].what \in Spaces \cup Resources
            /\ At(k).exports[sym].index \in Nat
<1> DEFINE k == Least(Exporting(name, sym))
<1>1. Exporting(name, sym) \in SUBSET Nat
  BY DEF Exporting, Loaded
<1>2. k \in Exporting(name, sym)
  BY <1>1, LeastIsLeast
<1>3. k \in Loaded /\ k \in Nat /\ Valid(At(k)) /\ sym \in DOMAIN At(k).exports
  BY <1>2 DEF Exporting, Store, Loaded
<1>4. PICK syms : At(k).exports \in [syms -> [what : Spaces \cup Resources, index : Nat]]
  BY <1>3 DEF Valid, Modules
<1>5. At(k).exports[sym] \in [what : Spaces \cup Resources, index : Nat]
  BY <1>3, <1>4
<1> QED BY <1>3, <1>5

(* A reference found in the store, cut to eight bits: if it is not a host's *)
(* or the hosts are few, it is still the reference found.                  *)
LEMMA Kept ==
  ASSUME Store, NEW found \in FunctionRefs, Nameable(found),
         \/ found.kind = "Wasm" /\ found.module \in Loaded
         \/ found.kind = "Host" /\ found.module < Len(engine.hosts)
  PROVE  Truncated(found) = found
BY ShortReference

(* What the linker finds is there, unless an exporter kept a reference to  *)
(* its host that was cut short.                                            *)
LEMMA ItemFound ==
  ASSUME Store, NEW space \in Spaces, NEW name, NEW sym, Item(space, name, sym) # None
  PROVE  LET found == Item(space, name, sym)
         IN found \in FunctionRefs /\ (Nameable(found) => Exists(space, found))
<1> DEFINE found == Item(space, name, sym)
           k == Least(Exporting(name, sym))
<1>1. engine \in Engines
  BY DEF Store
<1>2. CASE Providing(name, sym, space) # {}
  <2>1. found = Ref("Host", Least(Providing(name, sym, space)),
                Position(sym, Host(Least(Providing(name, sym, space)))[space]))
    BY <1>2 DEF Item, Found
  <2>2. /\ found \in FunctionRefs /\ found.kind = "Host" /\ found.module < Len(engine.hosts)
        /\ found.index < Len(Host(found.module)[space])
    BY <1>1, <1>2, <2>1, HostProvides
  <2> QED BY <2>2 DEF Exists
<1>3. CASE /\ Providing(name, sym, space) = {} /\ Exporting(name, sym) # {}
           /\ At(k).exports[sym].what = space
  <2>1. found = Resolved(k, get_ref(At(k), space, At(k).exports[sym].index))
    BY <1>3 DEF Item, Found
  <2>2. /\ k \in Loaded /\ Valid(At(k)) /\ sym \in DOMAIN At(k).exports
        /\ At(k).exports[sym].index \in Nat
    BY <1>3, ModuleExports
  <2>3. get_ref(At(k), space, At(k).exports[sym].index) # None
    BY <1>3, <2>2 DEF Valid, ExportsHold
  <2> QED BY <2>1, <2>2, <2>3, ResolvedExists
<1> QED BY <1>2, <1>3 DEF Item, Found

LEMMA ItemLinks ==
  ASSUME Store, NEW space \in Spaces, NEW name, NEW sym, NEW ty,
         link_item(space, name, sym, ty) # None
  PROVE  LET r == link_item(space, name, sym, ty)
         IN /\ r \in FunctionRefs /\ r.module < RefLimit
            /\ Nameable(r) => Exists(space, r) /\ TypeOf(space, r) = ty
<1> DEFINE found == Item(space, name, sym)
<1>1. /\ found # None /\ Exists(space, found) /\ TypeOf(space, found) = ty
      /\ link_item(space, name, sym, ty) = Truncated(found)
  BY DEF link_item
<1>3. found \in FunctionRefs
  BY <1>1, ItemFound
<1> HIDE DEF found
<1>4. /\ Truncated(found) \in FunctionRefs /\ Truncated(found).module < RefLimit
      /\ Nameable(Truncated(found)) => Nameable(found)
  BY <1>3, ShortReference
<1>5. Nameable(found) => Truncated(found) = found
  <2>1. found.kind \in {"Wasm", "Host"}
    BY <1>3 DEF FunctionRefs
  <2>2. IF found.kind = "Host" THEN found.module < Len(engine.hosts) ELSE found.module \in Loaded
    BY <1>1 DEF Exists
  <2> QED BY <1>3, <2>1, <2>2, Kept
<1> QED BY <1>1, <1>4, <1>5

LEMMA OwnerOwns ==
  ASSUME Store, NEW k \in Loaded, NEW what \in Resources, At(k)[what] # None
  PROVE  LET r == Owner(k, At(k)[what]) IN r \in FunctionRefs /\ Owns(what, r)
<1>1. Valid(At(k)) /\ k \in Nat /\ At(k)[what] \in Slots
  BY Fields DEF Store, Valid, Loaded
<1>2. CASE At(k)[what].kind = "Owned"
  BY <1>1, <1>2 DEF Owner, Ref, FunctionRefs, Owns
<1>3. CASE At(k)[what].kind = "Import" /\ At(k)[what].from \in FunctionRefs
  BY <1>1, <1>3 DEF Owner, Valid, SlotsHold
<1> QED BY <1>1, <1>2, <1>3 DEF Slots

LEMMA ResourceLinks ==
  ASSUME Store, NEW what \in Resources, NEW name, NEW sym, NEW ty,
         link_resource(what, name, sym, ty) # None
  PROVE  LET r == link_resource(what, name, sym, ty)
         IN /\ r \in FunctionRefs /\ r.module < RefLimit
            /\ r.kind = "Wasm" => Owns(what, r)
            /\ Nameable(r) => Owns(what, r) /\ matches(LimitsOf(what, r), ty)
<1> DEFINE found == Resource(what, name, sym)
           k == Least(Exporting(name, sym))
<1>1. /\ found # None /\ matches(LimitsOf(what, found), ty)
      /\ link_resource(what, name, sym, ty) = Truncated(found)
  BY DEF link_resource
<1>2. engine \in Engines
  BY DEF Store
<1>3. found \in FunctionRefs /\ Owns(what, found)
  <2>1. CASE Providing(name, sym, what) # {}
    <3>1. found = Ref("Host", Least(Providing(name, sym, what)),
                  Position(sym, Host(Least(Providing(name, sym, what)))[what]))
      BY <2>1 DEF Resource, Found
    <3>2. /\ found \in FunctionRefs /\ found.kind = "Host" /\ found.module < Len(engine.hosts)
          /\ found.index < Len(Host(found.module)[what])
      BY <1>2, <2>1, <3>1, HostProvides
    <3> QED BY <3>2 DEF Owns
  <2>2. CASE /\ Providing(name, sym, what) = {} /\ Exporting(name, sym) # {}
             /\ At(k).exports[sym].what = what
    <3>1. found = IF At(k)[what] = None THEN None ELSE Owner(k, At(k)[what])
      BY <2>2 DEF Resource, Found
    <3>2. k \in Loaded
      BY <2>2, ModuleExports
    <3> QED BY <1>1, <3>1, <3>2, OwnerOwns
  <2> QED BY <1>1, <2>1, <2>2 DEF Resource, Found
<1> HIDE DEF found
<1>4. /\ Truncated(found) \in FunctionRefs /\ Truncated(found).module < RefLimit
      /\ Nameable(Truncated(found)) => Nameable(found)
      /\ Truncated(found).kind = found.kind
  BY <1>3, ShortReference
<1>5. /\ Nameable(found) => Truncated(found) = found
      /\ found.kind = "Wasm" => Nameable(found)
  <2>1. found.kind \in {"Wasm", "Host"}
    BY <1>3 DEF FunctionRefs
  <2>2. IF found.kind = "Host" THEN found.module < Len(engine.hosts) ELSE found.module \in Loaded
    BY <1>3 DEF Owns
  <2>3. found.kind = "Wasm" => Nameable(found)
    BY DEF Nameable
  <2> QED BY <1>3, <2>1, <2>2, <2>3, Kept
<1> QED BY <1>1, <1>3, <1>4, <1>5

LEMMA Links ==
  ASSUME Store, NEW d \in Declarations, Link(d) # None
  PROVE  LET r == Link(d)
         IN /\ r \in FunctionRefs /\ r.module < RefLimit
            /\ d.what \in Spaces /\ Nameable(r) =>
                 Exists(d.what, r) /\ TypeOf(d.what, r) = d.ty
            /\ d.what \in Resources =>
                 /\ r.kind = "Wasm" => Owns(d.what, r)
                 /\ Nameable(r) => Owns(d.what, r) /\ matches(LimitsOf(d.what, r), d.ty)
<1>1. d.what \in Spaces \cup Resources
  BY DEF Declarations
<1>2. CASE d.what \in Spaces
  <2>1. Link(d) = link_item(d.what, d.module, d.name, d.ty)
    BY <1>2 DEF Link, link_function, link_global, Spaces
  <2> QED BY <1>2, <2>1, ItemLinks, Kinds
<1>3. CASE d.what \in Resources
  <2>1. Link(d) = link_resource(d.what, d.module, d.name, d.ty)
    BY <1>3 DEF Link, link_table, link_memory, Resources
  <2> QED BY <1>3, <2>1, ResourceLinks, Kinds
<1> QED BY <1>1, <1>2, <1>3

-----------------------------------------------------------------------------
(* Sections that only build the new module *)

Unshared == <<engine, modules, cells, running, table, panicked, loads, orphans>>

(* Only the load changed, and not what table entries say of it.            *)
LEMMA LoadStep ==
  ASSUME IInv, load # None, UNCHANGED Unshared, Loading', load' # None,
         Owned(load.module)' <=> Owned(load.module),
         load'.wrote = load.wrote,
         load'.module.serial = load.module.serial,
         load.wrote # {} => load'.module.Func = load.module.Func
  PROVE  IInv'
<1>1. Store'
  BY StoreKept DEF IInv, Unshared, Store
<1>2. Tables'
  <2>1. Settled' = Settled /\ Loaded' = Loaded /\ Upcoming' = Upcoming
    BY DEF Unshared, Settled, HostTables, Loaded, At, Host, Ref, Upcoming, Owned
  <2> QED BY <2>1 DEF IInv, Tables, Unshared, Ref
<1>3. Meaning'
  <2>1. ASSUME NEW t \in DOMAIN cells, NEW i \in DOMAIN cells[t],
               cells[t][i].kind # "Uninitialized", <<t, i>> \notin orphans
        PROVE  \/ Names(cells[t][i])'
               \/ <<t, i>> \in load.wrote /\ WillName(cells[t][i])'
    <3>1. CASE Names(cells[t][i])
      BY <3>1 DEF Names, Nameable, Exists, TypeOf, At, Host, Loaded, Unshared
    <3>2. CASE <<t, i>> \in load.wrote /\ WillName(cells[t][i])
      BY <3>2 DEF WillName, Upcoming, Unshared
    <3> QED BY <2>1, <3>1, <3>2 DEF IInv, Meaning
  <2> QED BY <2>1 DEF Meaning, Unshared
<1> QED BY <1>1, <1>2, <1>3 DEF IInv, Unshared, Excused

(* A section that leaves the module being read valid and does not come     *)
(* before what it has.                                                     *)
LEMMA SectionStep ==
  ASSUME IInv, load # None, UNCHANGED Unshared,
         NEW section \in Nat, NEW m, Ordered(section), Read(section, m),
         Valid(m), m.serial = load.module.serial,
         Owned(m) <=> Owned(load.module),
         section < ResourceSection.Table => ~Owned(m),
         section < ExportSection => DOMAIN m.exports = {},
         section < StartSection => m.start = None,
         section >= ElementSection => m.Func = load.module.Func
  PROVE  IInv'
<1>1. load \in Loads /\ load.last \in Nat
  BY DEF IInv, Loading, Loads
<1>2. load' = [load EXCEPT !.module = m, !.last = section] /\ load.left = 0 /\ load.last < section
  BY DEF Read, Ordered
<1>3. /\ load'.module = m /\ load'.last = section /\ load'.left = 0
      /\ load'.wrote = load.wrote /\ load'.at = load.at
  BY <1>1, <1>2 DEF Loads
<1>4. load' \in Loads /\ load' # None
  BY <1>1, <1>2, LoaderAssumption DEF Loads, Valid
<1>5. Valid(m)'
  BY StoreKept, ValidKept DEF IInv, Store, Unshared
<1>6. load.wrote # {} => section >= ElementSection
  BY <1>1, <1>2 DEF IInv, Loading, ElementSection
<1>7. Valid(load.module)'
  BY <1>3, <1>5
<1>8. Loading'
  <2>1. section < ElementSection => load.wrote = {}
    BY <1>1, <1>2 DEF IInv, Loading, ElementSection
  <2>2. running' = None
    BY DEF IInv, Loading, Unshared
  <2>3. Owned(load.module)' <=> Owned(m)
    BY <1>3 DEF Owned
  <2> QED BY <1>3, <1>4, <1>7, <2>1, <2>2, <2>3 DEF Loading
<1>9. Owned(load.module)' <=> Owned(load.module)
  BY <1>3 DEF Owned
<1> QED BY <1>3, <1>4, <1>6, <1>8, <1>9, LoadStep


LEMMA BoundedSeqs ==
  ASSUME NEW S, NEW n \in Nat, NEW s \in BoundedSeq(S, n)
  PROVE  s \in Seq(S)
BY DEF BoundedSeq, SeqOf

LEMMA ImportsStep ==
  ASSUME IInv, load # None, UNCHANGED engine,
         NEW decls \in BoundedSeq(Linkable, engine.imports), read_imports(decls)
  PROVE  IInv'
<1> DEFINE imports == [i \in DOMAIN decls |->
                         [what |-> decls[i].what, from |-> Link(decls[i]),
                          ty |-> decls[i].ty, module |-> decls[i].module]]
           resource(what) == IF Imported(what, imports) = {} THEN None
                             ELSE [kind |-> "Import",
                                   from |-> imports[Least(Imported(what, imports))].from]
<1>0. PICK m : m = [load.module EXCEPT !.imports = imports,
                      !.Table = resource("Table"), !.Memory = resource("Memory")]
  OBVIOUS
<1>1. Ordered(ImportSection) /\ Read(ImportSection, m) /\ UNCHANGED Unshared
  BY <1>0 DEF read_imports, Unshared
<1>2. Store /\ engine \in Engines /\ Valid(load.module) /\ load \in Loads
  BY DEF IInv, Loading, Store
<1>3. load.last < ImportSection /\ load.last \in Nat
  BY <1>1, <1>2 DEF Ordered, Loads
<1>4. /\ ~Owned(load.module) /\ DOMAIN load.module.exports = {} /\ load.module.start = None
  BY <1>3 DEF IInv, Loading, ImportSection, ResourceSection, ExportSection, StartSection
<1>5. /\ \E n \in Nat : decls \in [1..n -> Linkable]
      /\ \A i \in DOMAIN decls : decls[i] \in Declarations /\ Link(decls[i]) # None
  <2>1. engine.imports \in Nat
    BY <1>2, LoaderAssumption
  <2>2. PICK n \in Nat : decls \in [1..n -> Linkable]
    BY <2>1 DEF BoundedSeq, SeqOf
  <2>3. \A d \in Linkable : d \in Declarations /\ Link(d) # None
    BY DEF Linkable
  <2> QED BY <2>2, <2>3
<1>6. \A i \in DOMAIN imports :
        /\ imports[i] \in Imports /\ imports[i].from.module < RefLimit
        /\ imports[i].what \in Spaces /\ Nameable(imports[i].from) =>
             /\ Exists(imports[i].what, imports[i].from)
             /\ TypeOf(imports[i].what, imports[i].from) = imports[i].ty
        /\ imports[i].what \in Resources =>
             /\ Owns(imports[i].what, imports[i].from)
             /\ Nameable(imports[i].from) =>
                  matches(LimitsOf(imports[i].what, imports[i].from), imports[i].ty)
  <2>1. ASSUME NEW i \in DOMAIN decls
        PROVE  /\ decls[i].what \in Spaces \cup Resources /\ decls[i].ty \in Types \cup Limits
               /\ decls[i].module \in STRING
    <3>1. engine.names \subseteq STRING
      BY <1>2, LoaderAssumption
    <3> QED BY <1>5, <3>1 DEF Declarations
  <2>2. \A i \in DOMAIN decls :
          /\ Link(decls[i]) \in FunctionRefs /\ Link(decls[i]).module < RefLimit
          /\ decls[i].what \in Spaces /\ Nameable(Link(decls[i])) =>
                Exists(decls[i].what, Link(decls[i])) /\ TypeOf(decls[i].what, Link(decls[i])) = decls[i].ty
          /\ decls[i].what \in Resources =>
                /\ Link(decls[i]).kind = "Wasm" => Owns(decls[i].what, Link(decls[i]))
                /\ Nameable(Link(decls[i])) => matches(LimitsOf(decls[i].what, Link(decls[i])), decls[i].ty)
    BY <1>2, <1>5, Links
  <2>3. ASSUME NEW i \in DOMAIN decls, decls[i].what \in Resources
        PROVE  Owns(decls[i].what, Link(decls[i]))
    <3>1. ~Missing(decls, i)
      BY DEF read_imports
    <3>2. Link(decls[i]).kind = "Host" => Exists(decls[i].what, Link(decls[i]))
      BY <2>3, <3>1 DEF Missing
    <3>3. Link(decls[i]).kind \in {"Wasm", "Host"}
      BY <2>2 DEF FunctionRefs
    <3> QED BY <2>2, <2>3, <3>2, <3>3 DEF Owns, Exists
  <2> QED BY <2>1, <2>2, <2>3 DEF Imports
<1>7. \E n \in Nat : DOMAIN imports = 1..n
  BY <1>5
<1> HIDE DEF imports
<1>8. \A what \in Resources : Imported(what, imports) # {} =>
        \E i \in DOMAIN imports : /\ imports[i].what = what
                                 /\ resource(what) = [kind |-> "Import", from |-> imports[i].from]
  <2>1. ASSUME NEW what \in Resources, Imported(what, imports) # {}
        PROVE  Least(Imported(what, imports)) \in Imported(what, imports)
    <3>1. Imported(what, imports) \in SUBSET Nat
      BY <1>7 DEF Imported
    <3> QED BY <2>1, <3>1, LeastIsLeast
  <2> QED BY <2>1 DEF Imported
<1>9. \A what \in Resources : /\ resource(what) \in Slots \cup {None}
                              /\ resource(what) # None =>
                                    /\ resource(what).kind = "Import"
                                    /\ Owns(what, resource(what).from)
  <2>1. ASSUME NEW what \in Resources, Imported(what, imports) = {}
        PROVE  resource(what) = None
    BY <2>1
  <2>2. ASSUME NEW what \in Resources, Imported(what, imports) # {}
        PROVE  /\ resource(what) \in Slots /\ resource(what).kind = "Import"
               /\ Owns(what, resource(what).from)
    <3>1. PICK i \in DOMAIN imports :
            imports[i].what = what /\ resource(what) = [kind |-> "Import", from |-> imports[i].from]
      BY <1>8, <2>2
    <3>2. imports[i].from \in FunctionRefs /\ Owns(what, imports[i].from)
      BY <1>6, <3>1 DEF Imports
    <3> HIDE DEF resource
    <3> QED BY <3>1, <3>2 DEF Slots
  <2> HIDE DEF resource
  <2> QED BY <2>1, <2>2
<1>10. imports \in Seq(Imports)
  <2>1. PICK n \in Nat : DOMAIN imports = 1..n
    BY <1>7
  <2>2. imports = [i \in 1..n |-> imports[i]]
    BY <2>1 DEF imports
  <2>3. imports \in [1..n -> Imports]
    BY <1>6, <2>1, <2>2
  <2> QED BY <2>3
<1> HIDE DEF resource
<1>11. resource("Table") \in Slots \cup {None} /\ resource("Memory") \in Slots \cup {None}
  BY <1>9 DEF Resources
<1>12. m \in Modules
  BY <1>0, <1>2, <1>10, <1>11 DEF Modules, Valid
<1>13. /\ m.imports = imports /\ m.Table = resource("Table") /\ m.Memory = resource("Memory")
       /\ m.exports = load.module.exports /\ m.start = None /\ m.serial = load.module.serial
       /\ m.name = load.module.name
  BY <1>0, <1>2, <1>4 DEF Modules, Valid
<1>14. ImportsHold(m)
  BY <1>6, <1>13 DEF ImportsHold
<1>15. SlotsHold(m)
  BY <1>9, <1>13 DEF SlotsHold, Resources
<1>16. Valid(m)
  BY <1>2, <1>4, <1>12, <1>13, <1>14, <1>15 DEF Valid, ExportsHold, StartHolds
<1>17. ~Owned(m)
  BY <1>9, <1>13 DEF Owned, Resources
<1> QED BY <1>1, <1>4, <1>13, <1>16, <1>17, SectionStep DEF ImportSection, ElementSection

LEMMA ItemsStep ==
  ASSUME IInv, load # None, UNCHANGED engine,
         NEW space \in Spaces, NEW types \in BoundedSeq(Types, MaxFuncs), read_items(space, types)
  PROVE  IInv'
<1>0. PICK m : m = [load.module EXCEPT ![space] = types]
  OBVIOUS
<1>1. Ordered(SpaceSection[space]) /\ Read(SpaceSection[space], m) /\ UNCHANGED Unshared
  BY <1>0 DEF read_items, Unshared
<1>2. Valid(load.module) /\ load.module \in Modules /\ load.last \in Nat
  BY DEF IInv, Loading, Loads, Valid
<1>3. SpaceSection[space] \in {3, 6} /\ load.last < SpaceSection[space]
  BY <1>1, <1>2 DEF SpaceSection, Spaces, Ordered
<1>4. DOMAIN load.module.exports = {} /\ load.module.start = None
  BY <1>2, <1>3 DEF IInv, Loading, ExportSection, StartSection
<1>5. types \in Seq(Types)
  BY BoundedSeqs, LoaderAssumption
<1>6. /\ m \in Modules /\ m.imports = load.module.imports /\ m.Table = load.module.Table
      /\ m.Memory = load.module.Memory /\ m.exports = load.module.exports
      /\ m.start = load.module.start /\ m.serial = load.module.serial /\ m.name = load.module.name
  BY <1>0, <1>2, <1>5 DEF Modules, Spaces
<1>7. Valid(m)
  <2>1. ImportsHold(m)
    BY <1>2, <1>6 DEF Valid, ImportsHold
  <2>2. SlotsHold(m)
    BY <1>2, <1>6 DEF Valid, SlotsHold, Resources
  <2> QED BY <1>2, <1>4, <1>6, <2>1, <2>2 DEF Valid, ExportsHold, StartHolds
<1>8. SpaceSection[space] < ResourceSection.Table => ~Owned(m)
  BY <1>2, <1>3, <1>6 DEF IInv, Loading, Owned, ResourceSection
<1>9. Owned(m) <=> Owned(load.module)
  BY <1>6 DEF Owned
<1> QED BY <1>1, <1>3, <1>4, <1>6, <1>7, <1>8, <1>9, SectionStep
        DEF ElementSection

LEMMA MemoryStep ==
  ASSUME IInv, load # None, UNCHANGED engine, NEW limits \in Limits, read_memory(limits)
  PROVE  IInv'
<1>0. PICK m : m = [load.module EXCEPT !.Memory = [kind |-> "Owned", limits |-> limits]]
  OBVIOUS
<1>1. Ordered(ResourceSection.Memory) /\ Read(ResourceSection.Memory, m) /\ UNCHANGED Unshared
  BY <1>0 DEF read_memory, Unshared
<1>2. Valid(load.module) /\ load.module \in Modules /\ load.last \in Nat /\ load.last < 5
  BY <1>1 DEF IInv, Loading, Loads, Valid, Ordered, ResourceSection
<1>3. DOMAIN load.module.exports = {} /\ load.module.start = None
  BY <1>2 DEF IInv, Loading, ExportSection, StartSection
<1>4. [kind |-> "Owned", limits |-> limits] \in Slots
  BY DEF Slots
<1>5. /\ m \in Modules /\ m.imports = load.module.imports /\ m.Table = load.module.Table
      /\ m.Memory = [kind |-> "Owned", limits |-> limits] /\ m.exports = load.module.exports
      /\ m.start = load.module.start /\ m.serial = load.module.serial /\ m.name = load.module.name
  BY <1>0, <1>2, <1>4 DEF Modules
<1>6. Valid(m)
  <2>1. ImportsHold(m)
    BY <1>2, <1>5 DEF Valid, ImportsHold
  <2>2. SlotsHold(m)
    BY <1>2, <1>5 DEF Valid, SlotsHold, Resources
  <2> QED BY <1>2, <1>3, <1>5, <2>1, <2>2 DEF Valid, ExportsHold, StartHolds
<1>7. Owned(m) <=> Owned(load.module)
  BY <1>5 DEF Owned
<1> QED BY <1>1, <1>3, <1>5, <1>6, <1>7, SectionStep DEF ElementSection, ResourceSection

LEMMA EmptyStep ==
  ASSUME IInv, load # None, UNCHANGED engine, NEW what \in Resources, read_empty(what)
  PROVE  IInv'
<1>0. PICK m : m = [load.module EXCEPT ![what] = None]
  OBVIOUS
<1>1. Ordered(ResourceSection[what]) /\ Read(ResourceSection[what], m) /\ UNCHANGED Unshared
  BY <1>0 DEF read_empty, Unshared
<1>2. Valid(load.module) /\ load.module \in Modules /\ load.last \in Nat
  BY DEF IInv, Loading, Loads, Valid
<1>3. ResourceSection[what] \in {4, 5} /\ load.last < ResourceSection[what]
  BY <1>1, <1>2 DEF ResourceSection, Resources, Ordered
<1>4. DOMAIN load.module.exports = {} /\ load.module.start = None
  BY <1>2, <1>3 DEF IInv, Loading, ExportSection, StartSection
<1>5. /\ m \in Modules /\ m.imports = load.module.imports /\ m.Table = load.module.Table
      /\ m.Memory = (IF what = "Memory" THEN None ELSE load.module.Memory)
      /\ m.exports = load.module.exports
      /\ m.start = load.module.start /\ m.serial = load.module.serial /\ m.name = load.module.name
  <2>1. CASE what = "Table"
    BY <2>1, <1>0, <1>2 DEF Modules, read_empty
  <2>2. CASE what = "Memory"
    BY <2>2, <1>0, <1>2 DEF Modules
  <2> QED BY <2>1, <2>2 DEF Resources
<1>6. Valid(m)
  <2>1. ImportsHold(m)
    BY <1>2, <1>5 DEF Valid, ImportsHold
  <2>2. SlotsHold(m)
    BY <1>2, <1>5 DEF Valid, SlotsHold, Resources
  <2> QED BY <1>2, <1>4, <1>5, <2>1, <2>2 DEF Valid, ExportsHold, StartHolds
<1>7. Owned(m) <=> Owned(load.module)
  BY <1>5 DEF Owned
<1> QED BY <1>1, <1>3, <1>4, <1>5, <1>6, <1>7, SectionStep DEF ElementSection, ResourceSection

LEMMA ExportsStep ==
  ASSUME IInv, load # None, UNCHANGED engine,
         NEW syms \in SUBSET engine.symbols, NEW exports \in [syms -> Descriptors],
         read_exports(exports)
  PROVE  IInv'
<1>0. PICK m : m = [load.module EXCEPT !.exports = exports]
  OBVIOUS
<1>1. Ordered(ExportSection) /\ Read(ExportSection, m) /\ UNCHANGED Unshared
  BY <1>0 DEF read_exports, Unshared
<1>2. Valid(load.module) /\ load.module \in Modules /\ load.last \in Nat /\ load.last < 7
  BY <1>1 DEF IInv, Loading, Loads, Valid, Ordered, ExportSection
<1>3. load.module.start = None
  BY <1>2 DEF IInv, Loading, StartSection
<1>4. exports \in UNION {[ss -> [what : Spaces \cup Resources, index : Nat]] :
                           ss \in UNION {SUBSET e.symbols : e \in Engines}}
  <2>1. engine \in Engines /\ engine.imports \in Nat /\ MaxFuncs \in Nat
    BY LoaderAssumption DEF IInv, Store
  <2>2. Descriptors \subseteq [what : Spaces \cup Resources, index : Nat]
    BY <2>1 DEF Descriptors
  <2>3. exports \in [syms -> [what : Spaces \cup Resources, index : Nat]]
    BY <2>2
  <2> QED BY <2>1, <2>3
<1>5. /\ m \in Modules /\ m.imports = load.module.imports /\ m.Table = load.module.Table
      /\ m.Memory = load.module.Memory /\ m.exports = exports
      /\ m.Func = load.module.Func /\ m.Global = load.module.Global
      /\ m.start = load.module.start /\ m.serial = load.module.serial /\ m.name = load.module.name
  BY <1>0, <1>2, <1>4 DEF Modules
<1>6. Valid(m)
  <2>1. ImportsHold(m)
    BY <1>2, <1>5 DEF Valid, ImportsHold
  <2>2. SlotsHold(m)
    BY <1>2, <1>5 DEF Valid, SlotsHold, Resources
  <2>3. ExportsHold(m)
    <3>1. \A what \in Spaces : m[what] = load.module[what]
      BY <1>5 DEF Spaces
    <3>2. \A what \in Spaces : \A x : get_ref(m, what, x) = get_ref(load.module, what, x)
      BY <1>5, <3>1 DEF get_ref
    <3>3. \A what \in Resources : m[what] = load.module[what]
      BY <1>5 DEF Resources
    <3>4. \A sym \in syms : exports[sym].what \in Spaces \cup Resources
      BY DEF Descriptors
    <3> QED BY <1>5, <3>2, <3>3, <3>4 DEF ExportsHold, read_exports
  <2> QED BY <1>2, <1>3, <1>5, <2>1, <2>2, <2>3 DEF Valid, StartHolds
<1>7. Owned(m) <=> Owned(load.module)
  BY <1>5 DEF Owned
<1> QED BY <1>1, <1>3, <1>5, <1>6, <1>7, SectionStep
        DEF ElementSection, ResourceSection, ExportSection

(* A function reference of the module being read. *)
LEMMA OwnFunction ==
  ASSUME Store, NEW m, Valid(m), NEW x \in Nat, get_func_ref(m, x) # None
  PROVE  LET r == get_func_ref(m, x)
         IN \/ r \in OwnRefs /\ r.index < Len(m.Func) /\ OwnTypeOf(m, r) = m.Func[r.index + 1]
            \/ /\ r \in FunctionRefs /\ r.module < RefLimit /\ (Nameable(r) => Exists("Func", r))
               /\ OwnTypeOf(m, r) = TypeOf("Func", r)
<1> DEFINE r == get_func_ref(m, x)
<1>1. m \in Modules /\ ImportsHold(m) /\ "Func" \in Spaces
  BY DEF Valid, Spaces
<1>2. CASE \E i \in DOMAIN m.imports : m.imports[i].what = "Func" /\ r = m.imports[i].from
  <2>1. r \in FunctionRefs /\ r.module < RefLimit /\ (Nameable(r) => Exists("Func", r))
    BY <1>1, <1>2, Fields DEF ImportsHold
  <2> QED BY <2>1 DEF OwnTypeOf, FunctionRefs
<1>3. CASE \E n \in Nat : r = Ref("Module", None, n) /\ n < Len(m["Func"])
  BY <1>3 DEF Ref, OwnRefs, OwnTypeOf
<1> QED BY <1>1, <1>2, <1>3, Indexed DEF get_func_ref

LEMMA StartStep ==
  ASSUME IInv, load # None, UNCHANGED engine, NEW x \in Nat, read_start(x)
  PROVE  IInv'
<1> DEFINE r == get_func_ref(load.module, x)
<1>0. PICK m : m = [load.module EXCEPT !.start = r]
  OBVIOUS
<1>1. /\ Ordered(StartSection) /\ Read(StartSection, m) /\ UNCHANGED Unshared
      /\ r # None /\ r.kind # "Host" /\ OwnTypeOf(load.module, r) = StartType
  BY <1>0 DEF read_start, Unshared
<1>2. /\ Valid(load.module) /\ load.module \in Modules /\ load.last \in Nat /\ load.last < 8
      /\ Store
  BY <1>1 DEF IInv, Loading, Loads, Valid, Ordered, StartSection
<1>3. \/ /\ r \in OwnRefs /\ r.index < Len(load.module.Func)
         /\ OwnTypeOf(load.module, r) = load.module.Func[r.index + 1]
      \/ r \in FunctionRefs /\ Exists("Func", r) /\ OwnTypeOf(load.module, r) = TypeOf("Func", r)
  <2>1. PICK n : n = load.module
    OBVIOUS
  <2> QED BY <1>1, <1>2, <2>1, OwnFunction DEF Nameable
<1> HIDE DEF r
<1>5. /\ m \in Modules /\ m.imports = load.module.imports /\ m.Table = load.module.Table
      /\ m.Memory = load.module.Memory /\ m.exports = load.module.exports
      /\ m.Func = load.module.Func /\ m.Global = load.module.Global
      /\ m.start = r /\ m.serial = load.module.serial /\ m.name = load.module.name
  BY <1>0, <1>2, <1>3 DEF Modules
<1>6. Valid(m)
  <2>1. ImportsHold(m)
    BY <1>2, <1>5 DEF Valid, ImportsHold
  <2>2. SlotsHold(m)
    BY <1>2, <1>5 DEF Valid, SlotsHold, Resources
  <2>3. ExportsHold(m)
    <3>1. \A what \in Spaces \cup Resources : m[what] = load.module[what]
      BY <1>5 DEF Spaces, Resources
    <3>2. \A what \in Spaces : \A n : get_ref(m, what, n) = get_ref(load.module, what, n)
      BY <1>5, <3>1 DEF get_ref
    <3>3. \A sym \in DOMAIN m.exports : m.exports[sym].what \in Spaces \cup Resources
      BY <1>5 DEF Modules
    <3> QED BY <1>2, <1>5, <3>1, <3>2, <3>3 DEF Valid, ExportsHold
  <2>4. StartHolds(m)
    BY <1>1, <1>3, <1>5 DEF StartHolds, OwnRefs, FunctionRefs
  <2> QED BY <1>2, <1>5, <2>1, <2>2, <2>3, <2>4 DEF Valid
<1>7. Owned(m) <=> Owned(load.module)
  BY <1>5 DEF Owned
<1> QED BY <1>1, <1>5, <1>6, <1>7, SectionStep
        DEF ElementSection, ResourceSection, ExportSection, StartSection

LEMMA CodeStep ==
  ASSUME IInv, load # None, UNCHANGED engine, read_code
  PROVE  IInv'
<1>0. PICK m : m = load.module
  OBVIOUS
<1>1. Ordered(CodeSection) /\ Read(CodeSection, m) /\ UNCHANGED Unshared
  BY <1>0 DEF read_code, Unshared
<1>2. Valid(m)
  BY <1>0 DEF IInv, Loading
<1> QED BY <1>0, <1>1, <1>2, SectionStep
        DEF ElementSection, ResourceSection, ExportSection, StartSection, CodeSection

-----------------------------------------------------------------------------
(* Tables and their cells *)

LEMMA OwnsTable ==
  ASSUME Store, NEW r \in FunctionRefs, Owns("Table", r)
  PROVE  r \in Settled
<1>1. r = Ref(r.kind, r.module, r.index) /\ r.module \in Nat /\ r.index \in Nat
  BY DEF Ref, FunctionRefs
<1>2. CASE r.kind = "Host"
  <2>1. r.module < Len(engine.hosts) /\ r.index < Len(Host(r.module).Table)
    BY <1>2 DEF Owns
  <2>2. Len(engine.hosts) \in Nat /\ Len(Host(r.module).Table) \in Nat
    <3>1. Host(r.module)["Table"] \in Seq([name : STRING, limits : LimitTypes])
      BY <1>1, <2>1, Hosts DEF Store, Resources
    <3> QED BY <3>1, Hosts DEF Store
  <2>3. r.module \in 0..(Len(engine.hosts) - 1) /\ r.index \in 0..(Len(Host(r.module).Table) - 1)
    BY <1>1, <2>1, <2>2
  <2>4. r \in {Ref("Host", r.module, i) : i \in 0..(Len(Host(r.module).Table) - 1)}
    BY <1>1, <1>2, <2>3
  <2>5. r \in HostTables
    BY <2>3, <2>4 DEF HostTables
  <2> QED BY <2>5 DEF Settled
<1>3. CASE r.kind = "Wasm"
  <2>1. r.index = 0 /\ r.module \in Loaded /\ Owned(At(r.module))
    BY <1>3 DEF Owns, Owned
  <2> QED BY <1>1, <1>3, <2>1 DEF Settled
<1> QED BY <1>2, <1>3 DEF FunctionRefs

LEMMA UpcomingIsNew ==
  ASSUME Store
  PROVE  Upcoming \in Nat /\ Upcoming \notin Loaded /\ Ref("Wasm", Upcoming, 0) \notin Settled
<1>1. Upcoming \in Nat /\ Upcoming \notin Loaded
  BY DEF Store, Upcoming, Loaded
<1> QED BY <1>1 DEF Settled, HostTables, Ref

(* The table the element section writes into. *)
LEMMA LoadTableThere ==
  ASSUME Store, Loading, load # None, load.module.Table # None
  PROVE  /\ LoadTable \in FunctionRefs
         /\ IF Owned(load.module) THEN LoadTable = Ref("Wasm", Upcoming, 0)
            ELSE LoadTable \in Settled
<1>1. Valid(load.module) /\ load.module \in Modules /\ load.module.Table \in Slots
  BY Fields DEF Loading, Valid
<1>2. CASE Owned(load.module)
  BY <1>2, UpcomingIsNew DEF Owned, LoadTable, Owner, Ref, FunctionRefs
<1>3. CASE load.module.Table.kind = "Import" /\ load.module.Table.from \in FunctionRefs
  <2>1. LoadTable = load.module.Table.from
    BY <1>3 DEF LoadTable, Owner
  <2>2. Owns("Table", LoadTable)
    <3>1. load.module["Table"] # None /\ load.module["Table"].kind = "Import"
      BY <1>3
    <3> QED BY <1>1, <2>1, <3>1 DEF Valid, SlotsHold, Resources
  <2>3. ~Owned(load.module)
    BY <1>3 DEF Owned
  <2> QED BY <1>3, <2>1, <2>2, <2>3, OwnsTable
<1> QED BY <1>1, <1>2, <1>3 DEF Slots, Owned

LEMMA TableStep ==
  ASSUME IInv, load # None, panicked = None, UNCHANGED engine,
         NEW limits \in Limits, read_table(limits)
  PROVE  IInv'
<1> DEFINE own == Ref("Wasm", Upcoming, 0)
<1>0. PICK m : m = [load.module EXCEPT !.Table = [kind |-> "Owned", limits |-> limits]]
  OBVIOUS
<1>1. /\ load.left = 0 /\ load.last < 4 /\ load.module.Table = None
      /\ load' = [load EXCEPT !.module = m, !.last = 4]
      /\ cells' = [t \in DOMAIN cells \cup {own} |->
                     IF t = own THEN [i \in 1..limits.min |-> Uninitialized] ELSE cells[t]]
      /\ UNCHANGED <<engine, modules, running, table, panicked, loads, orphans>>
  BY <1>0 DEF read_table, Read, Ordered, ResourceSection
<1>2. /\ Valid(load.module) /\ load.module \in Modules /\ load.last \in Nat /\ load \in Loads
      /\ Store
  BY DEF IInv, Loading, Loads, Valid
<1>3. DOMAIN load.module.exports = {} /\ load.module.start = None /\ load.wrote = {}
  BY <1>1, <1>2 DEF IInv, Loading, ExportSection, StartSection, ElementSection
<1>4. [kind |-> "Owned", limits |-> limits] \in Slots
  BY DEF Slots
<1>5. /\ m \in Modules /\ m.imports = load.module.imports /\ m.Memory = load.module.Memory
      /\ m.Table = [kind |-> "Owned", limits |-> limits] /\ m.exports = load.module.exports
      /\ m.start = load.module.start /\ m.serial = load.module.serial /\ m.name = load.module.name
  BY <1>0, <1>2, <1>4 DEF Modules
<1>6. Valid(m)
  <2>1. ImportsHold(m)
    BY <1>2, <1>5 DEF Valid, ImportsHold
  <2>2. SlotsHold(m)
    BY <1>2, <1>5 DEF Valid, SlotsHold, Resources
  <2> QED BY <1>2, <1>3, <1>5, <2>1, <2>2 DEF Valid, ExportsHold, StartHolds
<1>7. Grows /\ Store'
  BY <1>1, <1>2, StoreKept DEF Store
<1>8. /\ load'.module = m /\ load'.last = 4 /\ load'.left = 0 /\ load'.wrote = {}
      /\ load' \in Loads /\ load' # None
  <2>1. load' \in Loads
    BY <1>1, <1>2, <1>5 DEF Loads
  <2>2. load' # None
    BY <2>1, LoaderAssumption
  <2>3. load'.module = m /\ load'.last = 4 /\ load'.left = load.left /\ load'.wrote = load.wrote
    BY <1>1, <1>2 DEF Loads
  <2> QED BY <1>1, <1>3, <2>1, <2>2, <2>3
<1>9. Valid(load.module)'
  <2>1. Valid(m)'
    BY <1>6, <1>7, ValidKept
  <2> QED BY <1>8, <2>1
<1>10. Loading'
  <2>1. load'.module.exports = load.module.exports /\ load'.module.start = None
    BY <1>3, <1>5, <1>8
  <2>2. running' = None
    BY <1>1 DEF IInv, Loading
  <2> QED BY <1>3, <1>8, <1>9, <2>1, <2>2
          DEF Loading, ResourceSection, ExportSection, StartSection, ElementSection
<1>11. own \notin Settled /\ DOMAIN cells = Settled
  <2>1. ~Owned(load.module)
    BY <1>1 DEF Owned
  <2> QED BY <1>2, <2>1, UpcomingIsNew DEF IInv, Tables
<1>12. [i \in 1..limits.min |-> Uninitialized] \in Seq(Elements)
  <2>1. limits.min \in Nat
    BY LoaderAssumption DEF LimitTypes
  <2> QED BY <2>1 DEF Elements
<1>13. Tables'
  <2>1. Settled' = Settled /\ Loaded' = Loaded /\ Upcoming' = Upcoming
    BY <1>1 DEF Settled, HostTables, Loaded, At, Host, Ref, Upcoming, Owned
  <2>2. Owned(load.module)' /\ Ref("Wasm", Upcoming, 0)' = own
    BY <1>5, <1>8, <2>1, LoaderAssumption, <1>4 DEF Owned, Ref
  <2>3. \A t \in DOMAIN cells' : cells'[t] \in Seq(Elements)
    BY <1>1, <1>11, <1>12 DEF IInv, Tables
  <2>4. DOMAIN cells' = Settled \cup {own}
    BY <1>1, <1>11
  <2> QED BY <1>1, <1>8, <2>1, <2>2, <2>3, <2>4 DEF IInv, Tables
<1>14. Meaning'
  <2>1. ASSUME NEW t \in DOMAIN cells', NEW i \in DOMAIN cells'[t],
               cells'[t][i].kind # "Uninitialized", <<t, i>> \notin orphans
        PROVE  Names(cells[t][i])'
    <3>1. t # own
      BY <1>1, <2>1 DEF Uninitialized
    <3>2. t \in DOMAIN cells /\ cells'[t] = cells[t]
      BY <1>1, <3>1
    <3>3. Names(cells[t][i])
      BY <1>3, <2>1, <3>2 DEF IInv, Meaning
    <3> QED BY <1>7, <3>2, <3>3, CellKept
  <2>2. orphans' = orphans
    BY <1>1
  <2> QED BY <2>1, <2>2, Zenon DEF Meaning
<1> QED BY <1>1, <1>7, <1>10, <1>13, <1>14 DEF IInv, Excused

LEMMA SegmentStep ==
  ASSUME IInv, load # None, UNCHANGED engine,
         NEW offset \in Nat, NEW n \in Nat, element_segment(offset, n)
  PROVE  IInv'
<1>1. /\ load.last <= ElementSection /\ load.left = 0 /\ load.module.Table # None
      /\ offset + n <= Len(cells[LoadTable])
      /\ load' = [load EXCEPT !.last = ElementSection, !.at = offset, !.left = n]
      /\ UNCHANGED Unshared
  BY DEF element_segment, TableIsUnique, Ordered, ElementSection, Unshared, IInv, Loading, Loads
<1>2. load \in Loads /\ Valid(load.module) /\ Store /\ load.last \in Nat
  BY DEF IInv, Loading, Loads
<1>3. /\ load'.module = load.module /\ load'.last = ElementSection
      /\ load'.at = offset /\ load'.left = n /\ load'.wrote = load.wrote
  BY <1>1, <1>2 DEF Loads
<1>4. load' \in Loads
  BY <1>1, <1>2 DEF Loads, ElementSection
<1>5. load' # None
  BY <1>4, LoaderAssumption
<1>6. Valid(load.module)'
  <2>1. PICK m : m = load.module
    OBVIOUS
  <2>2. Valid(m)'
    BY <1>1, <1>2, <2>1, StoreKept, ValidKept DEF Store, Unshared
  <2> QED BY <1>3, <2>1, <2>2
<1>7. LoadTable' = LoadTable
  BY <1>1, <1>3 DEF LoadTable, Owner, Upcoming, Unshared
<1>8. Loading'
  <2>1. running' = None
    BY <1>1 DEF IInv, Loading, Unshared
  <2>2. (load.at + load.left <= Len(cells[LoadTable]))'
    BY <1>1, <1>3, <1>7 DEF Unshared
  <2> QED BY <1>1, <1>3, <1>4, <1>5, <1>6, <2>1, <2>2
          DEF Loading, ResourceSection, ExportSection, StartSection, ElementSection
<1> QED BY <1>1, <1>3, <1>5, <1>8, LoadStep DEF Owned

(* What an element entry writes. *)
LEMMA Entries ==
  ASSUME Store, Loading, load # None, NEW x \in Nat, get_func_ref(load.module, x) # None
  PROVE  LET cell == Entry(get_func_ref(load.module, x))
         IN cell \in Elements /\ (Names(cell) \/ WillName(cell))
<1>0. PICK m : m = load.module
  OBVIOUS
<1> DEFINE r == get_func_ref(m, x)
<1>1. Valid(m) /\ m \in Modules /\ m.Func \in Seq(Types) /\ loads \in Nat /\ m.serial \in Nat
  BY <1>0, Fields DEF Loading, Valid, Store, Modules
<1>2. \/ r \in OwnRefs /\ r.index < Len(m.Func) /\ OwnTypeOf(m, r) = m.Func[r.index + 1]
      \/ r \in FunctionRefs /\ r.module < RefLimit /\ (Nameable(r) => Exists("Func", r))
  BY <1>0, <1>1, OwnFunction
<1> HIDE DEF r
<1>3. CASE r \in OwnRefs /\ r.index < Len(m.Func) /\ OwnTypeOf(m, r) = m.Func[r.index + 1]
  <2>1. Entry(r) = [kind |-> "Wasm", module |-> Upcoming % RefLimit, index |-> r.index,
                    ty |-> m.Func[r.index + 1], serial |-> m.serial]
    BY <1>0, <1>3 DEF Entry, OwnRefs
  <2>2. Upcoming % RefLimit \in 0..(RefLimit - 1)
    BY UpcomingIsNew, LoaderAssumption
  <2>3. r.index \in Nat /\ m.Func[r.index + 1] \in Types
    BY <1>1, <1>3 DEF OwnRefs
  <2>4. Entry(r) \in Elements
    BY <1>1, <2>1, <2>2, <2>3 DEF Elements
  <2>5. WillName(Entry(r))
    BY <1>0, <1>3, <2>1 DEF WillName
  <2> QED BY <1>0, <2>4, <2>5 DEF r
<1>4. CASE r.kind = "Wasm" /\ r \in FunctionRefs /\ Exists("Func", r)
  <2>1. Entry(r) = [kind |-> "Wasm", module |-> r.module, index |-> r.index, ty |-> TypeOf("Func", r),
                    serial |-> At(r.module).serial]
    BY <1>4 DEF Entry
  <2>2. r.module \in Nat /\ r.index \in Nat
    BY <1>4 DEF FunctionRefs
  <2>3. r.module \in 0..(RefLimit - 1) /\ TypeOf("Func", r) \in Types /\ At(r.module).serial \in Nat
    <3>1. r.module \in Loaded /\ r.index < Len(At(r.module)["Func"])
      BY <1>4 DEF Exists
    <3>2. Valid(At(r.module)) /\ At(r.module).serial \in Nat /\ Len(modules) \in Nat
      BY <3>1 DEF Store, Valid
    <3>3. At(r.module)["Func"] \in Seq(Types)
      BY <3>2, Fields DEF Valid, Spaces
    <3>4. At(r.module)["Func"][r.index + 1] \in Types
      BY <2>2, <3>1, <3>3
    <3>5. r.module < Len(modules) /\ Len(modules) <= RefLimit
      BY <3>1, <3>2, LoaderAssumption DEF Store, Loaded
    <3> QED BY <1>4, <2>2, <3>2, <3>4, <3>5, LoaderAssumption DEF TypeOf
  <2>4. Entry(r) \in Elements
    BY <2>1, <2>2, <2>3 DEF Elements
  <2>5. Names(Entry(r))
    <3>1. Exists("Func", Entry(r)) /\ TypeOf("Func", Entry(r)) = TypeOf("Func", r)
      BY <1>4, <2>1 DEF Exists, TypeOf
    <3> QED BY <2>1, <3>1 DEF Names
  <2> QED BY <1>0, <2>4, <2>5 DEF r
<1>5. CASE r.kind = "Host" /\ r \in FunctionRefs /\ r.module < RefLimit /\ (Nameable(r) => Exists("Func", r))
  <2>1. Entry(r) = [kind |-> "Host", module |-> r.module, index |-> r.index, ty |-> None, serial |-> 0]
    BY <1>5 DEF Entry
  <2>2. r.module \in 0..(RefLimit - 1) /\ r.index \in Nat
    BY <1>5, LoaderAssumption DEF FunctionRefs
  <2>3. Entry(r) \in Elements
    BY <2>1, <2>2 DEF Elements
  <2>4. Names(Entry(r))
    BY <1>5, <2>1 DEF Names, Nameable, Exists
  <2> QED BY <1>0, <2>3, <2>4 DEF r
<1>6. r \in FunctionRefs => r.kind \in {"Wasm", "Host"} /\ (r.kind = "Wasm" => Nameable(r))
  BY DEF FunctionRefs, Nameable
<1> QED BY <1>2, <1>3, <1>4, <1>5, <1>6

LEMMA EntryStep ==
  ASSUME IInv, load # None, panicked = None, UNCHANGED engine, NEW x \in Nat, element_entry(x)
  PROVE  IInv'
<1>0. PICK e, T, a : e = Entry(get_func_ref(load.module, x)) /\ T = LoadTable /\ a = load.at + 1
  OBVIOUS
<1>1. /\ load.left > 0 /\ load.module.Table # None /\ get_func_ref(load.module, x) # None
      /\ cells' = [cells EXCEPT ![T][a] = e]
      /\ load' = [load EXCEPT !.at = @ + 1, !.left = @ - 1, !.wrote = @ \cup {<<T, a>>}]
      /\ orphans' = orphans \ {<<T, a>>}
      /\ UNCHANGED <<engine, modules, running, table, panicked, loads>>
  BY <1>0 DEF element_entry, TableIsUnique
<1>2. /\ load \in Loads /\ Valid(load.module) /\ Store /\ load.last \in Nat /\ load.left \in Nat
      /\ load.at \in Nat /\ load.at + load.left <= Len(cells[T]) /\ load.last >= ElementSection
  BY <1>0, <1>1 DEF IInv, Loading, Loads, ElementSection
<1>3. e \in Elements /\ (Names(e) \/ WillName(e))
  BY <1>0, <1>1, <1>2, Entries DEF IInv
<1>4. T \in FunctionRefs /\ T \in DOMAIN cells
  BY <1>0, <1>1, <1>2, LoadTableThere DEF IInv, Tables
<1>5. cells[T] \in Seq(Elements) /\ a \in 1..Len(cells[T])
  BY <1>0, <1>1, <1>2, <1>4 DEF IInv, Tables
<1>6. /\ DOMAIN cells' = DOMAIN cells
      /\ \A t \in DOMAIN cells : /\ DOMAIN cells'[t] = DOMAIN cells[t]
                                 /\ cells'[t] \in Seq(Elements)
                                 /\ t # T => cells'[t] = cells[t]
      /\ \A i \in DOMAIN cells[T] : i # a => cells'[T][i] = cells[T][i]
      /\ cells'[T][a] = e /\ Len(cells'[T]) = Len(cells[T])
  <2>1. cells' = [t \in DOMAIN cells |-> IF t = T THEN [cells[T] EXCEPT ![a] = e] ELSE cells[t]]
    BY <1>1
  <2>2. [cells[T] EXCEPT ![a] = e] \in Seq(Elements) /\ Len([cells[T] EXCEPT ![a] = e]) = Len(cells[T])
    BY <1>3, <1>5
  <2>3. \A t \in DOMAIN cells : cells[t] \in Seq(Elements)
    BY DEF IInv, Tables
  <2> QED BY <1>4, <1>5, <2>1, <2>2, <2>3
<1>7. /\ load'.module = load.module /\ load'.last = load.last /\ load'.at = load.at + 1
      /\ load'.left = load.left - 1 /\ load'.wrote = load.wrote \cup {<<T, a>>}
  BY <1>1, <1>2 DEF Loads
<1>8. load' \in Loads
  <2>1. load.wrote \cup {<<T, a>>} \in SUBSET (FunctionRefs \X Nat)
    BY <1>2, <1>4, <1>5 DEF Loads
  <2>2. load.left - 1 \in Nat /\ load.at + 1 \in Nat
    BY <1>1, <1>2
  <2> QED BY <1>1, <1>2, <2>1, <2>2 DEF Loads
<1>9. load' # None
  BY <1>8, LoaderAssumption
<1>10. Grows /\ Store'
  BY <1>1, <1>2, StoreKept DEF Store
<1>11. Valid(load.module)'
  <2>1. PICK m : m = load.module
    OBVIOUS
  <2>2. Valid(m)'
    BY <1>2, <1>10, <2>1, ValidKept
  <2> QED BY <1>7, <2>1, <2>2
<1>12. LoadTable' = T /\ Upcoming' = Upcoming
  BY <1>0, <1>1, <1>7 DEF LoadTable, Owner, Upcoming
<1>13. Loading'
  <2>1. running' = None
    BY <1>1 DEF IInv, Loading
  <2>2. (load.at + load.left <= Len(cells[LoadTable]))'
    BY <1>2, <1>6, <1>7, <1>12
  <2> QED BY <1>1, <1>2, <1>7, <1>8, <1>9, <1>11, <2>1, <2>2
          DEF Loading, ResourceSection, ExportSection, StartSection, ElementSection
<1>14. Tables'
  <2>1. Settled' = Settled /\ Loaded' = Loaded
    BY <1>1 DEF Settled, HostTables, Loaded, At, Host, Ref, Owned
  <2>2. Ref("Wasm", Upcoming, 0)' = Ref("Wasm", Upcoming, 0)
    BY <1>12 DEF Ref
  <2>3. Owned(load.module)' <=> Owned(load.module)
    BY <1>7 DEF Owned
  <2> QED BY <1>1, <1>6, <1>9, <2>1, <2>2, <2>3 DEF IInv, Tables
<1>15. Meaning'
  <2>1. ASSUME NEW t \in DOMAIN cells, NEW i \in DOMAIN cells[t],
               <<t, i>> # <<T, a>>, cells[t][i].kind # "Uninitialized", <<t, i>> \notin orphans
        PROVE  /\ cells'[t][i] = cells[t][i]
               /\ Names(cells[t][i])' \/ (<<t, i>> \in load'.wrote /\ WillName(cells[t][i])')
    <3>1. cells'[t][i] = cells[t][i]
      BY <1>6, <2>1
    <3>2. CASE Names(cells[t][i])
      BY <1>10, <3>1, <3>2, CellKept
    <3>3. CASE <<t, i>> \in load.wrote /\ WillName(cells[t][i])
      BY <1>7, <1>12, <3>1, <3>3 DEF WillName
    <3> QED BY <2>1, <3>1, <3>2, <3>3 DEF IInv, Meaning
  <2>2. Names(cells[T][a])' \/ (<<T, a>> \in load'.wrote /\ WillName(cells[T][a])')
    <3>1. CASE Names(e)
      <4>1. Names(e)'
        BY <1>10, <3>1, NamesKept
      <4>2. cells'[T][a] = e
        BY <1>6
      <4> QED BY <4>1, <4>2, Zenon DEF Names, Nameable, Exists, TypeOf, At, Host, Loaded
    <3>2. CASE WillName(e)
      BY <1>6, <1>7, <1>12, <3>2 DEF WillName
    <3> QED BY <1>3, <3>1, <3>2
  <2>3. ASSUME NEW t \in DOMAIN cells', NEW i \in DOMAIN cells'[t],
               cells'[t][i].kind # "Uninitialized", <<t, i>> \notin orphans'
        PROVE  Names(cells[t][i])' \/ (<<t, i>> \in load'.wrote /\ WillName(cells[t][i])')
    <3>1. CASE <<t, i>> = <<T, a>>
      BY <2>2, <3>1
    <3>2. CASE <<t, i>> # <<T, a>>
      <4>1. t \in DOMAIN cells /\ i \in DOMAIN cells[t] /\ cells'[t][i] = cells[t][i]
        BY <1>6, <2>3, <3>2
      <4>2. <<t, i>> \notin orphans
        BY <1>1, <2>3, <3>2
      <4> QED BY <2>1, <2>3, <3>2, <4>1, <4>2
    <3> QED BY <3>1, <3>2
  <2> QED BY <1>9, <2>3 DEF Meaning
<1> QED BY <1>1, <1>10, <1>13, <1>14, <1>15 DEF IInv, Excused

LEMMA DropStep ==
  ASSUME IInv, load # None, panicked = None, UNCHANGED <<engine, loads>>, drop_module
  PROVE  IInv'
<1> DEFINE own == Ref("Wasm", Upcoming, 0)
<1>1. /\ load' = None
      /\ cells' = [t \in DOMAIN cells \ {own} |-> cells[t]]
      /\ orphans' = orphans \cup {cell \in load.wrote : cell[1] # own}
      /\ UNCHANGED <<engine, modules, running, table, panicked, loads>>
  BY DEF drop_module
<1>2. Store /\ own \notin Settled
  BY UpcomingIsNew DEF IInv
<1>3. Grows /\ Store'
  BY <1>1, <1>2, StoreKept DEF Store
<1>4. Loading'
  BY <1>1 DEF Loading
<1>5. DOMAIN cells' = Settled /\ \A t \in DOMAIN cells' : t \in DOMAIN cells /\ cells'[t] = cells[t]
  BY <1>1, <1>2 DEF IInv, Tables
<1>6. Tables'
  <2>1. Settled' = Settled /\ Loaded' = Loaded
    BY <1>1 DEF Settled, HostTables, Loaded, At, Host, Ref, Owned
  <2> QED BY <1>1, <1>5, <2>1 DEF IInv, Tables
<1>7. Meaning'
  <2>1. ASSUME NEW t \in DOMAIN cells', NEW i \in DOMAIN cells'[t],
               cells'[t][i].kind # "Uninitialized", <<t, i>> \notin orphans'
        PROVE  Names(cells[t][i])'
    <3>1. t \in DOMAIN cells /\ t # own /\ cells'[t] = cells[t]
      BY <1>2, <1>5
    <3>2. <<t, i>> \notin orphans /\ <<t, i>> \notin load.wrote
      BY <1>1, <2>1, <3>1
    <3>3. Names(cells[t][i])
      BY <2>1, <3>1, <3>2 DEF IInv, Meaning
    <3> QED BY <1>3, <3>1, <3>3, CellKept
  <2> QED BY <2>1 DEF Meaning
<1> QED BY <1>1, <1>3, <1>4, <1>6, <1>7 DEF IInv, Excused

LEMMA FinishStep ==
  ASSUME IInv, load # None, panicked = None, UNCHANGED <<engine, loads>>, finish
  PROVE  IInv'
<1>1. CASE drop_module
  BY <1>1, DropStep
<1>2. CASE /\ Len(modules) < max_modules
           /\ modules' = Append(modules, load.module)
           /\ load' = None
           /\ UNCHANGED <<engine, cells, running, table, panicked, loads, orphans>>
  <2> DEFINE own == Ref("Wasm", Upcoming, 0)
  <2>1. PICK m : m = load.module
    OBVIOUS
  <2>2. Store /\ Valid(m) /\ m \in Modules /\ Upcoming = Len(modules) /\ Upcoming \in Nat
    BY <2>1 DEF IInv, Loading, Valid, Store, Upcoming
  <2>3. /\ modules' \in Seq(Modules) /\ Len(modules') = Len(modules) + 1
        /\ \A k \in Loaded : modules'[k + 1] = modules[k + 1]
        /\ modules'[Upcoming + 1] = m
    BY <1>2, <2>1, <2>2 DEF Store, Loaded
  <2>4. Grows
    <3>1. /\ modules \in Seq(Modules) /\ Len(modules) \in Nat /\ loads \in Nat
          /\ loads' = loads /\ engine' = engine
      BY <1>2, <2>2 DEF Store
    <3>2. Len(modules) <= Len(modules') /\ loads' \in Nat /\ loads <= loads'
      BY <2>3, <3>1
    <3> QED BY <2>3, <3>1, <3>2, Zenon DEF Grows
  <2>5. Loaded' = Loaded \cup {Upcoming}
    BY <2>2, <2>3 DEF Loaded
  <2>6. ASSUME NEW k \in Loaded'
        PROVE  Valid(At(k))'
    <3>1. PICK n : n = IF k = Upcoming THEN m ELSE At(k)
      OBVIOUS
    <3>2. Valid(n)
      BY <2>2, <2>5, <3>1 DEF Store
    <3>3. Valid(n)'
      BY <2>4, <3>2, ValidKept
    <3>4. At(k)' = n
      BY <2>2, <2>3, <2>5, <3>1 DEF At
    <3> QED BY <3>3, <3>4
  <2>7. Store'
    <3>1. Len(modules') <= max_modules
      BY <1>2, <2>2, <2>3, LoaderAssumption
    <3> QED BY <1>2, <2>3, <2>6, <3>1 DEF IInv, Store
  <2>8. Loading'
    BY <1>2 DEF Loading
  <2>9. Settled' = Settled \cup (IF Owned(m) THEN {own} ELSE {})
    <3>1. HostTables' = HostTables
      BY <1>2 DEF HostTables, Host, Ref
    <3>2. \A k \in Loaded : At(k)' = At(k)
      BY <2>3 DEF At
    <3>3. PICK u : u = Upcoming
      OBVIOUS
    <3>4. At(u)' = m
      BY <2>3, <3>3 DEF At
    <3>5. Loaded' = Loaded \cup {u} /\ own = Ref("Wasm", u, 0)
      BY <2>5, <3>3
    <3>6. \A k \in Loaded : Owned(At(k))' <=> Owned(At(k))
      BY <3>2 DEF Owned
    <3>7. Owned(At(u))' <=> Owned(m)
      BY <3>4 DEF Owned
    <3>8. {k \in Loaded : Owned(At(k))}' =
             {k \in Loaded : Owned(At(k))} \cup (IF Owned(m) THEN {u} ELSE {})
      BY <3>5, <3>6, <3>7
    <3> QED BY <3>1, <3>5, <3>8 DEF Settled, Ref
  <2>10. Tables'
    <3>1. DOMAIN cells = Settled \cup (IF Owned(m) THEN {own} ELSE {})
      BY <2>1 DEF IInv, Tables
    <3> QED BY <1>2, <2>5, <2>9, <3>1 DEF IInv, Tables
  <2>11. Meaning'
    <3>1. ASSUME NEW t \in DOMAIN cells, NEW i \in DOMAIN cells[t],
                 cells[t][i].kind # "Uninitialized", <<t, i>> \notin orphans
          PROVE  Names(cells[t][i])'
      <4>1. cells'[t][i] = cells[t][i]
        BY <1>2
      <4>2. CASE Names(cells[t][i])
        BY <2>4, <4>1, <4>2, CellKept
      <4>3. CASE WillName(cells[t][i])
        <5>1. PICK e : e = cells[t][i]
          OBVIOUS
        <5>2. e.kind = "Wasm" /\ e.serial = m.serial /\ e.index < Len(m.Func)
              /\ m.Func[e.index + 1] = e.ty /\ e.module = Upcoming % RefLimit
          BY <2>1, <4>3, <5>1 DEF WillName
        <5>3. Upcoming % RefLimit = Upcoming
          <6>1. Upcoming \in 0..(RefLimit - 1)
            BY <1>2, <2>2, LoaderAssumption
          <6>2. \A n \in 0..(RefLimit - 1) : n % RefLimit = n
            BY LoaderAssumption
          <6> QED BY <6>1, <6>2
        <5>4. At(e.module)' = m /\ e.module \in Loaded'
          BY <2>3, <2>5, <5>2, <5>3 DEF At
        <5>5. Names(e)'
          BY <5>2, <5>4 DEF Names, Exists, TypeOf
        <5>6. cells'[t][i] = e
          BY <4>1, <5>1
        <5> QED BY <5>5, <5>6, Zenon DEF Names, Nameable, Exists, TypeOf, At, Host, Loaded
      <4> QED BY <3>1, <4>2, <4>3 DEF IInv, Meaning
    <3>2. cells' = cells /\ orphans' = orphans
      BY <1>2
    <3> QED BY <3>1, <3>2 DEF Meaning
  <2> QED BY <1>2, <2>7, <2>8, <2>10, <2>11 DEF IInv, Excused
<1> QED BY <1>1, <1>2 DEF finish

LEMMA BeginStep ==
  ASSUME IInv, panicked = None, UNCHANGED engine, NEW name \in engine.names, begin(name)
  PROVE  IInv'
<1>1. /\ load = None /\ running = None /\ loads' = loads + 1
      /\ load' = [module |-> new_module(name, loads + 1), last |-> NoSection,
                  at |-> 0, left |-> 0, wrote |-> {}]
      /\ UNCHANGED <<engine, modules, cells, running, table, panicked, orphans>>
  BY DEF begin
<1>2. Store /\ engine \in Engines /\ loads \in Nat /\ loads' \in Nat /\ loads <= loads'
  BY <1>1 DEF IInv, Store
<1>3. Grows /\ Store'
  BY <1>1, <1>2, StoreKept
<1>4. PICK m : m = new_module(name, loads + 1)
  OBVIOUS
<1>5. /\ m.name = name /\ m.imports = <<>> /\ m.Func = <<>> /\ m.Global = <<>>
      /\ m.Table = None /\ m.Memory = None /\ m.exports = <<>> /\ m.start = None
      /\ m.serial = loads + 1
  BY <1>4 DEF new_module
<1>6. m \in Modules
  <2>1. <<>> \in [{} -> [what : Spaces \cup Resources, index : Nat]]
    OBVIOUS
  <2>2. {} \in UNION {SUBSET e.symbols : e \in Engines}
    BY <1>2
  <2>3. <<>> \in UNION {[syms -> [what : Spaces \cup Resources, index : Nat]] :
                          syms \in UNION {SUBSET e.symbols : e \in Engines}}
    BY <2>1, <2>2, Zenon
  <2>4. name \in STRING /\ loads + 1 \in Nat
    BY <1>2, LoaderAssumption
  <2>5. <<>> \in Seq(Imports) /\ <<>> \in Seq(Types)
    OBVIOUS
  <2> QED BY <1>4, <2>3, <2>4, <2>5 DEF new_module, Modules
<1>7. Valid(m)'
  <2>1. m.serial \in 1..loads'
    BY <1>1, <1>2, <1>5
  <2>2. DOMAIN m.imports = {} /\ DOMAIN m.exports = {}
    BY <1>5
  <2> QED BY <1>1, <1>5, <1>6, <2>1, <2>2
          DEF Valid, ImportsHold, SlotsHold, ExportsHold, StartHolds, Resources
<1>8. /\ load'.module = m /\ load'.last = 0 /\ load'.left = 0 /\ load'.wrote = {}
      /\ load' \in Loads
  BY <1>1, <1>4, <1>6 DEF Loads, NoSection
<1>9. load' # None
  BY <1>8, LoaderAssumption
<1>10. Valid(load.module)' /\ ~Owned(load.module)'
  BY <1>5, <1>7, <1>8 DEF Owned
<1>11. Loading'
  BY <1>1, <1>5, <1>8, <1>9, <1>10
     DEF Loading, ResourceSection, ExportSection, StartSection, ElementSection
<1>12. Tables'
  <2>1. Settled' = Settled /\ Loaded' = Loaded
    BY <1>1 DEF Settled, HostTables, Loaded, At, Host, Ref, Owned
  <2> QED BY <1>1, <1>10, <2>1 DEF IInv, Tables
<1>13. Meaning'
  <2>1. ASSUME NEW t \in DOMAIN cells, NEW i \in DOMAIN cells[t],
               cells[t][i].kind # "Uninitialized", <<t, i>> \notin orphans
        PROVE  Names(cells[t][i])'
    <3>1. Names(cells[t][i])
      BY <1>1, <2>1 DEF IInv, Meaning
    <3> QED BY <1>1, <1>3, <3>1, CellKept
  <2>2. cells' = cells /\ orphans' = orphans
    BY <1>1
  <2> QED BY <2>1, <2>2 DEF Meaning
<1> QED BY <1>1, <1>3, <1>11, <1>12, <1>13 DEF IInv, Excused

-----------------------------------------------------------------------------
(* Execution *)

LEMMA GetTable ==
  ASSUME Store, NEW k \in Loaded
  PROVE  get_table(k) \in Settled \cup {None}
<1>1. CASE At(k).Table # None
  <2>1. Owner(k, At(k)["Table"]) \in FunctionRefs /\ Owns("Table", Owner(k, At(k)["Table"]))
    BY <1>1, OwnerOwns DEF Resources
  <2> QED BY <1>1, <2>1, OwnsTable DEF get_table
<1> QED BY <1>1 DEF get_table

(* Only what the engine executes changed. *)
LEMMA ExecutionStep ==
  ASSUME IInv, UNCHANGED <<engine, modules, cells, load, loads, orphans>>,
         running' \in Loaded \cup {None}, table' \in Settled \cup {None},
         load # None => running' = None,
         Excused(panicked)'
  PROVE  IInv'
<1>1. Store /\ Grows /\ Store'
  BY StoreKept DEF IInv, Store
<1>2. /\ Loaded' = Loaded /\ Settled' = Settled /\ Upcoming' = Upcoming
      /\ LoadTable' = LoadTable /\ (Owned(load.module)' <=> Owned(load.module))
  BY DEF Settled, HostTables, Loaded, At, Host, Ref, Owned, Upcoming, LoadTable, Owner
<1>3. ASSUME load # None
      PROVE  Valid(load.module)'
  <2>1. PICK m : m = load.module
    OBVIOUS
  <2>2. Valid(m)'
    BY <1>1, <1>3, <2>1, ValidKept DEF IInv, Loading
  <2> QED BY <2>1, <2>2
<1>4. Loading'
  BY <1>2, <1>3 DEF IInv, Loading
<1>5. Tables'
  BY <1>2 DEF IInv, Tables, Ref
<1>6. Meaning'
  <2>1. ASSUME NEW t \in DOMAIN cells, NEW i \in DOMAIN cells[t],
               cells[t][i].kind # "Uninitialized", <<t, i>> \notin orphans
        PROVE  \/ Names(cells[t][i])'
               \/ load # None /\ <<t, i>> \in load.wrote /\ WillName(cells[t][i])'
    <3>1. CASE Names(cells[t][i])
      BY <1>1, <3>1, CellKept
    <3>2. CASE load # None /\ <<t, i>> \in load.wrote /\ WillName(cells[t][i])
      BY <1>2, <3>2 DEF WillName
    <3> QED BY <2>1, <3>1, <3>2 DEF IInv, Meaning
  <2> QED BY <2>1 DEF Meaning
<1> QED BY <1>1, <1>4, <1>5, <1>6 DEF IInv

(* The process panics, on a cell or on a reference to a host.             *)
LEMMA PanicStep ==
  ASSUME IInv, UNCHANGED engine, NEW at, panics(at),
         at \in orphans \/ Len(engine.hosts) > RefLimit
  PROVE  IInv'
<1>1. /\ UNCHANGED <<engine, modules, cells, load, loads, orphans>>
      /\ running' = running /\ table' = table /\ panicked' = at
  BY DEF panics
<1>2. Excused(panicked)'
  BY <1>1 DEF Excused
<1>3. running \in Loaded \cup {None} /\ table \in Settled \cup {None} /\ (load # None => running = None)
  BY DEF IInv, Tables, Loading
<1> QED BY <1>1, <1>2, <1>3, ExecutionStep

LEMMA TooManyHosts ==
  ASSUME Store, NEW r, ~Nameable(r)
  PROVE  r.kind = "Host" /\ Len(engine.hosts) > RefLimit
<1>1. Len(engine.hosts) \in Nat /\ RefLimit \in Nat
  BY Hosts, LoaderAssumption DEF Store
<1> QED BY <1>1 DEF Nameable

(* The linker, the sections and the compiler index what was linked.        *)
LEMMA IndexStep ==
  ASSUME IInv, load # None, UNCHANGED engine,
         \/ \E d \in Declarations : link_panics(d)
         \/ \E decls \in BoundedSeq(Linkable, engine.imports) : import_panics(decls)
         \/ \E space \in Spaces, x \in Nat : body_panics(space, x)
  PROVE  IInv'
<1>1. Store /\ Valid(load.module) /\ engine \in Engines
  BY DEF IInv, Loading, Store
<1>2. ASSUME NEW d \in Declarations, link_panics(d)
      PROVE  IInv'
  <2>1. PICK found : found = Item(d.what, d.module, d.name)
    OBVIOUS
  <2>2. d.what \in Spaces /\ found # None /\ ~Exists(d.what, found) /\ panics(<<found, 0>>)
    BY <1>2, <2>1 DEF link_panics
  <2>3. ~Nameable(found)
    BY <1>1, <2>1, <2>2, ItemFound
  <2> QED BY <1>1, <2>2, <2>3, TooManyHosts, PanicStep
<1>3. ASSUME NEW decls \in BoundedSeq(Linkable, engine.imports), import_panics(decls)
      PROVE  IInv'
  <2>1. PICK i \in DOMAIN decls : Missing(decls, i) /\ panics(<<Link(decls[i]), 0>>)
    BY <1>3 DEF import_panics
  <2>2. PICK r : r = Link(decls[i])
    OBVIOUS
  <2>3. decls[i] \in Declarations /\ r # None
    <3>1. \A d \in Linkable : d \in Declarations /\ Link(d) # None
      BY DEF Linkable
    <3>2. engine.imports \in Nat
      BY <1>1, LoaderAssumption
    <3>3. PICK n \in Nat : decls \in [1..n -> Linkable]
      BY <3>2 DEF BoundedSeq, SeqOf
    <3> QED BY <2>1, <2>2, <3>1, <3>3
  <2>4. decls[i].what \in Resources /\ r.kind = "Host" /\ ~Exists(decls[i].what, r)
    BY <2>1, <2>2 DEF Missing
  <2>5. ~Nameable(r)
    BY <1>1, <2>2, <2>3, <2>4, Links DEF Owns, Exists
  <2> QED BY <1>1, <2>1, <2>2, <2>5, TooManyHosts, PanicStep
<1>4. ASSUME NEW space \in Spaces, NEW x \in Nat, body_panics(space, x)
      PROVE  IInv'
  <2>1. PICK m, r : m = load.module /\ r = get_ref(m, space, x)
    OBVIOUS
  <2>2. r # None /\ r.kind # "Module" /\ ~Exists(space, r) /\ panics(<<r, 0>>)
    BY <1>4, <2>1 DEF body_panics
  <2>3. m \in Modules /\ ImportsHold(m)
    BY <1>1, <2>1 DEF Valid
  <2>4. PICK i \in DOMAIN m.imports : m.imports[i].what = space /\ r = m.imports[i].from
    BY <2>1, <2>2, <2>3, Indexed DEF Ref
  <2>5. ~Nameable(r)
    BY <2>2, <2>3, <2>4 DEF ImportsHold
  <2> QED BY <1>1, <2>2, <2>5, TooManyHosts, PanicStep
<1> QED BY <1>2, <1>3, <1>4

LEMMA RunningStep ==
  ASSUME IInv, panicked = None, UNCHANGED engine,
         Running \/ (\E k \in Loaded : invoke(k)) \/ reset
  PROVE  IInv'
<1>0. Excused(None)' /\ (panicked' = panicked => Excused(panicked)')
  BY DEF Excused
<1>1. Store /\ (running # None => running \in Loaded /\ load = None)
      /\ (table # None => table \in Settled)
  BY DEF IInv, Loading, Tables
<1>2. ASSUME NEW k \in Loaded, invoke(k)
      PROVE  IInv'
  BY <1>0, <1>1, <1>2, GetTable, ExecutionStep DEF invoke, Enter
<1>3. ASSUME running # None, NEW i \in DOMAIN At(running).imports, call_extern(i)
      PROVE  IInv'
  <2>1. PICK k : k = At(running).imports[i].from.module
    OBVIOUS
  <2>2. /\ At(running).imports[i].what = "Func" /\ At(running).imports[i].from.kind = "Wasm"
        /\ Enter(k) /\ UNCHANGED <<modules, cells, load, panicked, loads, orphans>>
    BY <1>3, <2>1 DEF call_extern
  <2>3. Exists("Func", At(running).imports[i].from)
    BY <1>1, <1>3, <2>2 DEF Store, Valid, ImportsHold, Spaces, Nameable
  <2>4. k \in Loaded
    BY <2>1, <2>2, <2>3 DEF Exists
  <2> QED BY <1>0, <1>1, <1>3, <2>2, <2>4, GetTable, ExecutionStep DEF Enter
<1>4. ASSUME table # None, NEW i \in DOMAIN cells[table], NEW ty \in Types, call_indirect(i, ty)
      PROVE  IInv'
  <2>1. PICK cell : cell = cells[table][i]
    OBVIOUS
  <2>2. running # None /\ cell.kind # "Uninitialized"
    BY <1>4, <2>1 DEF call_indirect
  <2>3. CASE /\ cell.kind = "Wasm" /\ Exists("Func", cell) /\ Enter(cell.module)
             /\ UNCHANGED <<modules, cells, load, panicked, loads, orphans>>
    <3>1. cell.module \in Loaded
      BY <2>3 DEF Exists
    <3> QED BY <1>0, <1>1, <2>2, <2>3, <3>1, GetTable, ExecutionStep DEF Enter
  <2>4. CASE ~Exists("Func", cell) /\ panics(<<table, i>>)
    <3>1. table \in DOMAIN cells
      BY <1>1, <1>4 DEF IInv, Tables
    <3>2. Names(cell) => ~Nameable(cell)
      BY <2>4 DEF Names
    <3>3. <<table, i>> \in orphans \/ ~Nameable(cell)
      BY <1>1, <1>4, <2>1, <2>2, <3>1, <3>2 DEF IInv, Meaning
    <3> QED BY <2>4, <3>3, TooManyHosts, PanicStep DEF IInv
  <2> QED BY <1>4, <2>1, <2>3, <2>4, Zenon DEF call_indirect
<1>5. ASSUME stop
      PROVE  IInv'
  BY <1>0, <1>1, <1>5, ExecutionStep DEF stop
<1>6. ASSUME reset
      PROVE  IInv'
  BY <1>0, <1>1, <1>6, ExecutionStep DEF reset
<1> QED BY <1>2, <1>3, <1>4, <1>5, <1>6 DEF Running

-----------------------------------------------------------------------------
(* The invariant holds *)

LEMMA InitIInv ==
  ASSUME Init
  PROVE  IInv
<1>1. engine \in Engines /\ modules = <<>> /\ load = None /\ loads = 0 /\ Loaded = {}
  BY DEF Init, Loaded
<1>2. Store
  BY <1>1, LoaderAssumption DEF Store
<1>3. Loading
  BY <1>1 DEF Loading
<1>4. Settled = HostTables
  BY <1>1 DEF Settled
<1>5. ASSUME NEW t \in HostTables
      PROVE  [i \in 1..LimitsOf("Table", t).min |-> Uninitialized] \in Seq(Elements)
  <2>1. PICK h \in 0..(Len(engine.hosts) - 1) : \E i \in 0..(Len(Host(h).Table) - 1) : t = Ref("Host", h, i)
    BY DEF HostTables
  <2>2. PICK i \in 0..(Len(Host(h).Table) - 1) : t = Ref("Host", h, i)
    BY <2>1
  <2>3. Len(engine.hosts) \in Nat /\ h \in Nat /\ h < Len(engine.hosts)
    BY <1>1, Hosts
  <2>4. Host(h)["Table"] \in Seq([name : STRING, limits : LimitTypes])
    BY <1>1, <2>3, Hosts DEF Resources
  <2>5. i + 1 \in 1..Len(Host(h)["Table"])
    BY <2>4
  <2>6. Host(h)["Table"][i + 1].limits \in LimitTypes
    <3>1. \A S : \A tables \in Seq(S) : \A x \in 1..Len(tables) : tables[x] \in S
      OBVIOUS
    <3>2. Host(h)["Table"][i + 1] \in [name : STRING, limits : LimitTypes]
      BY <2>4, <2>5, <3>1, Zenon
    <3> QED BY <3>2
  <2>7. LimitsOf("Table", t) = Host(h)["Table"][i + 1].limits
    BY <2>2 DEF LimitsOf, Ref
  <2>8. LimitsOf("Table", t).min \in Nat
    BY <2>6, <2>7 DEF LimitTypes
  <2> QED BY <2>8 DEF Elements
<1>6. cells = [t \in HostTables |-> [i \in 1..LimitsOf("Table", t).min |-> Uninitialized]]
  BY DEF Init
<1>7. Tables
  BY <1>1, <1>4, <1>5, <1>6 DEF Tables, Init
<1>8. Meaning
  BY <1>6 DEF Meaning, Uninitialized
<1> QED BY <1>2, <1>3, <1>7, <1>8 DEF IInv, Init, Excused

LEMMA ReadingStep ==
  ASSUME IInv, panicked = None, UNCHANGED engine, Reading
  PROVE  IInv'
<1>1. load # None /\ engine.imports \in Nat /\ MaxFuncs \in Nat
  BY LoaderAssumption DEF Reading, IInv, Store
<1>2. 0..(engine.imports + MaxFuncs) \subseteq Nat /\ 0..MaxFuncs \subseteq Nat
  BY <1>1
<1>3. ASSUME NEW decls \in BoundedSeq(Linkable, engine.imports), read_imports(decls)
      PROVE  IInv'
  BY <1>1, <1>3, ImportsStep
<1>4. ASSUME NEW space \in Spaces, NEW types \in BoundedSeq(Types, MaxFuncs), read_items(space, types)
      PROVE  IInv'
  BY <1>1, <1>4, ItemsStep
<1>5. ASSUME NEW limits \in Limits, read_table(limits) \/ read_memory(limits)
      PROVE  IInv'
  BY <1>1, <1>5, TableStep, MemoryStep
<1>6. ASSUME NEW what \in Resources, read_empty(what)
      PROVE  IInv'
  BY <1>1, <1>6, EmptyStep
<1>7. ASSUME NEW syms \in SUBSET engine.symbols, NEW exports \in [syms -> Descriptors],
             read_exports(exports)
      PROVE  IInv'
  BY <1>1, <1>7, ExportsStep
<1>8. ASSUME NEW x \in 0..(engine.imports + MaxFuncs), read_start(x) \/ element_entry(x)
      PROVE  IInv'
  <2>1. x \in Nat
    BY <1>2
  <2> QED BY <1>1, <1>8, <2>1, StartStep, EntryStep
<1>9. ASSUME NEW offset \in 0..MaxFuncs, NEW n \in 0..MaxFuncs, element_segment(offset, n)
      PROVE  IInv'
  <2>1. offset \in Nat /\ n \in Nat
    BY <1>2
  <2> QED BY <1>1, <1>9, <2>1, SegmentStep
<1>10. ASSUME read_code
       PROVE  IInv'
  BY <1>1, <1>10, CodeStep
<1>11. ASSUME NEW why, fail(why)
       PROVE  IInv'
  BY <1>1, <1>11, DropStep DEF fail, drop_module
<1>12. ASSUME finish
       PROVE  IInv'
  BY <1>1, <1>12, FinishStep DEF finish, drop_module
<1>13. ASSUME NEW d \in Declarations, link_panics(d)
       PROVE  IInv'
  BY <1>1, <1>13, IndexStep
<1>14. ASSUME NEW decls \in BoundedSeq(Linkable, engine.imports), import_panics(decls)
       PROVE  IInv'
  BY <1>1, <1>14, IndexStep
<1>15. ASSUME NEW space \in Spaces, NEW x \in 0..(engine.imports + MaxFuncs), body_panics(space, x)
       PROVE  IInv'
  <2>1. x \in Nat
    BY <1>2
  <2> QED BY <1>1, <1>15, <2>1, IndexStep
<1> QED BY <1>3, <1>4, <1>5, <1>6, <1>7, <1>8, <1>9, <1>10, <1>11, <1>12,
           <1>13, <1>14, <1>15, Zenon DEF Reading

LEMMA NextIInv ==
  ASSUME IInv, [Next]_vars
  PROVE  IInv'
<1>1. CASE UNCHANGED vars
  <2>1. /\ UNCHANGED <<engine, modules, cells, load, loads, orphans>>
        /\ running' = running /\ table' = table /\ panicked' = panicked
    BY <1>1 DEF vars
  <2>2. /\ running \in Loaded \cup {None} /\ table \in Settled \cup {None}
        /\ load # None => running = None
        /\ Excused(panicked)
    BY DEF IInv, Tables, Loading
  <2>3. Excused(panicked)'
    BY <2>1, <2>2 DEF Excused
  <2> QED BY <2>1, <2>2, <2>3, ExecutionStep
<1>2. CASE Next
  <2>1. panicked = None /\ UNCHANGED engine
    BY <1>2 DEF Next
  <2>2. CASE \E name \in engine.names : begin(name)
    BY <2>1, <2>2, BeginStep
  <2>3. CASE Reading
    BY <2>1, <2>3, ReadingStep
  <2>4. CASE Running \/ (\E k \in Loaded : invoke(k)) \/ reset
    BY <2>1, <2>4, RunningStep
  <2> QED BY <1>2, <2>2, <2>3, <2>4 DEF Next
<1> QED BY <1>1, <1>2

(* The invariant behind the theorems below: the modules of the store and   *)
(* the one being read are valid, and every cell means what its load meant. *)
THEOREM LoaderInvariant == Spec => []IInv
<1>1. Init => IInv
  BY InitIInv
<1>2. IInv /\ [Next]_vars => IInv'
  BY NextIInv
<1> QED BY <1>1, <1>2, PTL DEF Spec

-----------------------------------------------------------------------------
(* What follows from it *)

LEMMA AllValid ==
  ASSUME IInv, NEW m \in AllModules
  PROVE  Valid(m)
BY DEF IInv, Store, Loading, AllModules

LEMMA IInvTypes ==
  ASSUME IInv
  PROVE  TypeOK
<1>1. ASSUME NEW m \in AllModules
      PROVE  /\ m.name \in engine.names /\ m.Func \in Seq(Types) /\ m.Global \in Seq(Types)
             /\ \A i \in DOMAIN m.imports : m.imports[i].from \in FunctionRefs
             /\ DOMAIN m.exports \subseteq engine.symbols /\ m.serial \in 1..loads
  BY AllValid, Fields DEF Valid
<1>2. DOMAIN cells =
        HostTables \cup
        {Ref("Wasm", k, 0) : k \in {l \in Loaded : At(l).Table # None /\ At(l).Table.kind = "Owned"}}
        \cup (IF load # None /\ load.module.Table # None /\ load.module.Table.kind = "Owned"
                 THEN {Ref("Wasm", Upcoming, 0)} ELSE {})
  BY DEF IInv, Tables, Settled, Owned
<1>3. \A t \in DOMAIN cells : \A i \in DOMAIN cells[t] : cells[t][i] \in Elements
  BY DEF IInv, Tables
<1>4. running \in Loaded \cup {None} /\ table \in DOMAIN cells \cup {None}
  BY DEF IInv, Tables
<1>5. (load # None /\ load.left > 0) => load.at + load.left <= Len(cells[LoadTable])
  BY DEF IInv, Loading
<1> QED BY <1>1, <1>2, <1>3, <1>4, <1>5 DEF TypeOK, IInv, Store

(* No `unreachable!()` of the linker and the sections is reached: through  *)
(* however many re-exports and beside however many hosts, an import of a   *)
(* table or a memory names what owns one, with the limits the importer     *)
(* asked for unless the reference to its host was cut short.               *)
THEOREM ImportsResolve == Spec => []ImportsResolveToOwners
<1>1. ASSUME IInv
      PROVE  ImportsResolveToOwners
  <2>1. \A m \in AllModules : ImportsHold(m)
    BY <1>1, AllValid DEF Valid
  <2>2. ASSUME NEW m \in AllModules, NEW i \in DOMAIN m.imports, m.imports[i].what \in Resources
        PROVE  /\ Owns(m.imports[i].what, m.imports[i].from)
               /\ Nameable(m.imports[i].from) =>
                    matches(LimitsOf(m.imports[i].what, m.imports[i].from), m.imports[i].ty)
    BY <2>1, <2>2 DEF ImportsHold
  <2> QED BY <2>2 DEF ImportsResolveToOwners, Owns, Exists
<1> QED BY <1>1, LoaderInvariant, PTL

(* An imported function or global exists and has the type its importer was *)
(* validated with, for as long as the importer is there, unless the        *)
(* reference to its host was cut short: link_item compares the types once, *)
(* where the item was found, and call_extern never again.                  *)
THEOREM ImportsAgree == Spec => []ImportTypesAgree
<1>1. ASSUME IInv
      PROVE  ImportTypesAgree
  <2>1. \A m \in AllModules : ImportsHold(m)
    BY <1>1, AllValid DEF Valid
  <2> QED BY <2>1 DEF ImportsHold, ImportTypesAgree
<1> QED BY <1>1, LoaderInvariant, PTL

(* The exports and the start function of a loaded module are there, so     *)
(* that linking and module_start may index them without a test; only of an *)
(* item of a host is that not so, when the reference to it was cut short.  *)
THEOREM LoadedAreClosed == Spec => []LoadedModulesAreClosed
<1>1. ASSUME IInv
      PROVE  LoadedModulesAreClosed
  <2>1. ASSUME NEW k \in Loaded, NEW sym \in DOMAIN At(k).exports
        PROVE  LET export == At(k).exports[sym]
                   r == get_ref(At(k), export.what, export.index)
               IN IF export.what \in Spaces
                    THEN r # None /\ (Nameable(r) => Exists(export.what, Resolved(k, r)))
                    ELSE At(k)[export.what] # None
    <3>1. Store /\ Valid(At(k))
      BY <1>1 DEF IInv, Store
    <3>2. At(k).exports[sym].index \in Nat
      <4>1. PICK syms : At(k).exports \in [syms -> [what : Spaces \cup Resources, index : Nat]]
        BY <3>1 DEF Valid, Modules
      <4> QED BY <2>1, <4>1
    <3> QED BY <3>1, <3>2, ResolvedExists DEF Valid, ExportsHold
  <2>2. ASSUME NEW k \in Loaded, At(k).start # None
        PROVE  /\ Exists("Func", Resolved(k, At(k).start))
               /\ TypeOf("Func", Resolved(k, At(k).start)) = StartType
    <3>1. Valid(At(k))
      BY <1>1 DEF IInv, Store
    <3>2. CASE At(k).start.kind = "Module"
      <4>1. Resolved(k, At(k).start) = Ref("Wasm", k, At(k).start.index)
        BY <3>2 DEF Resolved
      <4> QED BY <2>2, <3>1, <3>2, <4>1 DEF Valid, StartHolds, Exists, TypeOf, Ref
    <3>3. CASE At(k).start.kind # "Module"
      BY <2>2, <3>1, <3>3 DEF Valid, StartHolds, Resolved
    <3> QED BY <3>2, <3>3
  <2> QED BY <1>1, <2>1, <2>2, IInvTypes DEF LoadedModulesAreClosed
<1> QED BY <1>1, LoaderInvariant, PTL

(* An element entry names a function of a module that has no place in the  *)
(* store yet.  If the load succeeds, the entry names that function for     *)
(* ever; if it fails, the entry stays behind in a table of another module, *)
(* and such entries, and the references that more hosts than eight bits    *)
(* can number cut short, are all that anything panics on.                  *)
THEOREM CellsKeepMeaning == Spec => []CellsKeepTheirMeaning
<1>1. ASSUME IInv
      PROVE  CellsKeepTheirMeaning
  <2>1. ASSUME NEW t \in DOMAIN cells, NEW i \in DOMAIN cells[t],
               cells[t][i].kind # "Uninitialized", <<t, i>> \notin orphans,
               ~(load # None /\ <<t, i>> \in load.wrote)
        PROVE  Names(cells[t][i])
    BY <1>1, <2>1 DEF IInv, Meaning
  <2>2. panicked # None => panicked \in orphans \/ Len(engine.hosts) > RefLimit
    BY <1>1 DEF IInv, Excused
  <2> QED BY <2>1, <2>2 DEF CellsKeepTheirMeaning, Names
<1> QED BY <1>1, LoaderInvariant, PTL
=============================================================================
