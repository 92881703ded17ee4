----------------------------- MODULE CApiProofs -----------------------------
(***************************************************************************)
(* Proofs about CApi, for any number of allocators, modules, functions and *)
(* calls and any limits.                                                   *)
(*                                                                         *)
(* The invariant IInv has three parts.  Owning: the handles hold what the  *)
(* calls put there, and nothing else - every vector within its capacity,   *)
(* every import of a loaded module resolved to a function that exists,     *)
(* names distinct, and the count of an allocator its handle and the        *)
(* memories that came from it.  Running: a run executes the pending call   *)
(* unless a callback reset the engine under it, a callback is part of a    *)
(* run, exactly the closure of that callback is moved out, and the call it *)
(* interrupted still exists.  Calling: a pending call is of a function     *)
(* that exists, and a result is there only when none is pending.           *)
(*                                                                         *)
(* Most calls leave the modules of the engine alone (Retains); two do not: *)
(* a load appends one, and a global is stored.  Both only grow the engine  *)
(* (Grows), so that whatever resolved still does.                          *)
(***************************************************************************)
EXTENDS CApi, SequenceTheorems, FiniteSetTheorems, WellFoundedInduction, TLAPS

(* Every set of numbers that is not empty has a least one.                 *)
LEMMA LeastNumber ==
  ASSUME NEW S \in SUBSET Nat, S # {}
  PROVE  \E x \in S : \A y \in S : x <= y
<1> DEFINE R == {ss \in Nat \X Nat : ss[1] < ss[2]}
<1>1. IsWellFoundedOn(R, Nat)
  BY NatLessThanWellFounded DEF OpToRel
<1>2. \A x, y \in Nat : <<y, x>> \notin R => x <= y
  OBVIOUS
<1> HIDE DEF R
<1>3. PICK x \in S : \A y \in S : <<y, x>> \notin R
  BY <1>1, WFMin
<1>4. \A y \in S : x <= y
  BY <1>2, <1>3, S \subseteq Nat, Zenon
<1> QED BY <1>4

-----------------------------------------------------------------------------

AllocatorRecord == [handle : {"none", "live", "destroyed"}, count : Int]

Typed ==
  /\ allocators \in [Allocators -> AllocatorRecord]
  /\ host \in Host \cup {None} /\ engine \in EngineRecord \cup {None}
  /\ callback \in Callback \cup {None}
  /\ running \in BOOLEAN /\ panicked \in BOOLEAN

-----------------------------------------------------------------------------
(* Statuses *)

(* check! goes through only when every check does.                         *)
LEMMA ChecksPass ==
  ASSUME NEW n \in Nat, NEW checks, DOMAIN checks = 1..n, FirstError(checks) = OK
  PROVE  \A i \in 1..n : checks[i] = OK
<1> SUFFICES ASSUME NEW j \in 1..n, checks[j] # OK PROVE FALSE
  OBVIOUS
<1> DEFINE S == {i \in 1..n : checks[i] # OK}
<1>1. S \in SUBSET Nat /\ S # {}
  OBVIOUS
<1>2. PICK i \in S : \A k \in S : i <= k
  BY <1>1, LeastNumber
<1>3. i \in DOMAIN checks /\ checks[i] # OK /\ \A k \in 1..(i - 1) : checks[k] = OK
  BY <1>2
<1>4. checks[CHOOSE x \in DOMAIN checks : checks[x] # OK /\ \A k \in 1..(x - 1) : checks[k] = OK] # OK
  BY <1>3, Zenon
<1> QED BY <1>3, <1>4, Zenon DEF FirstError

(* What ErrorIf lets through. *)
LEMMA ErrorIfPasses ==
  ASSUME NEW condition \in BOOLEAN, NEW status, status # OK, ErrorIf(condition, status) = OK
  PROVE  ~condition
BY DEF ErrorIf

(* What a passed check of a string says of it.                             *)
LEMMA StringPasses ==
  ASSUME NEW s, cstr(s) = OK
  PROVE  s \notin {Null, BadUtf8}
BY DEF cstr, OK

-----------------------------------------------------------------------------
(* Modules and what their imports resolve to *)

(* A reference names a host function, or a function of a loaded module.    *)
Resolves(ref) ==
  IF ref.kind = "Host" THEN ref \in HostRefs ELSE HasFunction(ref.module, ref.index)

(* A function that may run when a module starts.                           *)
Starts(ref) == ref.kind = "Wasm" /\ Resolves(ref) /\ FunctionAt(ref).params = <<>>

(* A module as loaded.                                                     *)
GoodModule(m) ==
  LET new == At(Modules, m)
  IN /\ Len(new.imports) = Len(new.image.imports) /\ Len(new.globals) = Len(new.image.globals)
     /\ \A i \in 1..Len(new.imports) : Resolves(new.imports[i])
     /\ new.image.start # None => Starts(get_func_ref(m, new.image.start))

Resolved == engine # None => \A m \in 0..(Len(Modules) - 1) : GoodModule(m)

Distinct ==
  engine # None => \A m, k \in 0..(Len(Modules) - 1) :
                     m # k => At(Modules, m).name # At(Modules, k).name

(* The engine goes on with its modules, and perhaps more.                  *)
SameModule(a, b) ==
  /\ b.name = a.name /\ b.image = a.image /\ b.imports = a.imports /\ b.allocator = a.allocator
  /\ Len(b.globals) = Len(a.globals)

Grows ==
  /\ engine # None /\ engine' # None /\ engine'.hosts = engine.hosts
  /\ Len(engine.modules) <= Len(engine'.modules)
  /\ \A m \in 1..Len(engine.modules) : SameModule(engine.modules[m], engine'.modules[m])

(* The elements of a sequence are in the set it is over.                   *)
LEMMA ElementIn ==
  ASSUME NEW R, NEW xs \in Seq(R), NEW x \in ToSet(xs)
  PROVE  x \in R
BY DEF ToSet

(* The parts of an engine. *)
LEMMA EngineIs ==
  ASSUME Typed, engine # None
  PROVE  /\ engine \in EngineRecord /\ engine.hosts \in Seq(HostModule) /\ engine.modules \in Seq(Module)
         /\ Len(engine.modules) \in Nat /\ Len(engine.hosts) \in Nat
         /\ engine.max_modules \in Nat /\ engine.code \in Nat /\ engine.call \in Call \cup {None}
         /\ engine.discarded \in BOOLEAN
         /\ \A m \in 0..(Len(engine.modules) - 1) :
              /\ m + 1 \in 1..Len(engine.modules)
              /\ At(engine.modules, m) = engine.modules[m + 1] /\ engine.modules[m + 1] \in Module
BY DEF Typed, EngineRecord, At

(* A module of the engine.                                                 *)
LEMMA ModuleIs ==
  ASSUME NEW md \in Module
  PROVE  /\ md.image \in Images /\ md.image \in Image /\ ValidImage(md.image)
         /\ md.imports \in Seq(Ref) /\ Len(md.imports) \in Nat
         /\ \A i \in 1..Len(md.imports) : md.imports[i] \in Ref
         /\ Len(md.image.functions) \in Nat /\ Len(md.image.imports) \in Nat
         /\ md.image.start \in Nat \cup {None}
         /\ md.name \in Strings
<1>1. md.image \in Images /\ md.imports \in Seq(Ref) /\ md.name \in Strings
  BY DEF Module
<1>2. md.image \in Image /\ ValidImage(md.image)
  BY <1>1, CApiAssumption
<1> QED BY <1>1, <1>2 DEF Image

(* A reference that resolves still does when the engine grows.             *)
LEMMA StillResolves ==
  ASSUME Typed, Typed', Grows, NEW ref \in Ref, Resolves(ref)
  PROVE  /\ (Resolves(ref))'
         /\ ref.kind = "Wasm" => (FunctionAt(ref))' = FunctionAt(ref)
<1>1. CASE ref.kind = "Host"
  <2>1. HostRefs' = HostRefs
    BY DEF Grows, HostRefs, HostRef, At
  <2> QED BY <1>1, <2>1 DEF Resolves
<1>2. CASE ref.kind # "Host"
  <2>1. PICK m \in Nat, x \in Nat : m = ref.module /\ x = ref.index
    BY DEF Ref
  <2>2. m < Len(engine.modules) /\ x < Len(At(engine.modules, m).image.functions)
    BY <1>2, <2>1 DEF Resolves, HasFunction, HasModule, Within, Modules
  <2>3. m + 1 \in 1..Len(engine.modules) /\ m < Len(engine'.modules)
    BY <2>2, EngineIs DEF Grows, Typed, EngineRecord
  <2>4. At(engine'.modules, m).image = At(engine.modules, m).image
    BY <2>3 DEF Grows, SameModule, At
  <2>5. (HasFunction(m, x))'
    BY <2>2, <2>3, <2>4 DEF HasFunction, HasModule, Within, Modules, Grows
  <2>6. (FunctionAt(ref))' = FunctionAt(ref)
    BY <2>1, <2>4 DEF FunctionAt, Modules
  <2> QED BY <1>2, <2>1, <2>5, <2>6 DEF Resolves
<1> QED BY <1>1, <1>2

(* A module that stays resolves as it did.                                 *)
LEMMA StillGood ==
  ASSUME Typed, Typed', Grows, NEW m \in 0..(Len(engine.modules) - 1), GoodModule(m)
  PROVE  (GoodModule(m))'
<1>1. PICK old \in Module : old = At(engine.modules, m) /\ m + 1 \in 1..Len(engine.modules)
  BY EngineIs DEF Grows
<1>2. PICK new : new = At(engine'.modules, m)
  OBVIOUS
<1>3. /\ new.image = old.image /\ new.imports = old.imports /\ Len(new.globals) = Len(old.globals)
  BY <1>1, <1>2 DEF Grows, SameModule, At
<1>4. /\ Len(old.imports) = Len(old.image.imports) /\ Len(old.globals) = Len(old.image.globals)
      /\ \A i \in 1..Len(old.imports) : Resolves(old.imports[i])
  BY <1>1 DEF GoodModule, Modules
<1>5. ASSUME NEW i \in 1..Len(old.imports) PROVE (Resolves(old.imports[i]))'
  <2>1. PICK ref \in Ref : ref = old.imports[i] /\ Resolves(ref)
    BY <1>1, <1>4, ModuleIs
  <2>2. (Resolves(ref))'
    BY <2>1, StillResolves
  <2> QED BY <2>1, <2>2
<1>6. ASSUME old.image.start # None
      PROVE  (Starts(get_func_ref(m, old.image.start)))'
  <2>1. PICK ref : ref = get_func_ref(m, old.image.start)
    OBVIOUS
  <2>2. ref = (get_func_ref(m, old.image.start))'
    BY <1>1, <1>2, <1>3, <2>1 DEF get_func_ref, Modules
  <2>3. Starts(ref)
    BY <1>1, <1>6, <2>1 DEF GoodModule, Modules
  <2>4. ref \in Ref
    <3>1. old.image.start \in Nat /\ Len(old.imports) \in Nat /\ m \in Nat
      BY <1>1, <1>6, ModuleIs
    <3>2. CASE old.image.start < Len(old.imports)
      <4>1. old.image.start + 1 \in 1..Len(old.imports)
        BY <3>1, <3>2
      <4>2. ref = old.imports[old.image.start + 1]
        BY <1>1, <2>1, <3>2 DEF get_func_ref, Modules, At
      <4> QED BY <4>1, <4>2, ModuleIs
    <3>3. CASE ~(old.image.start < Len(old.imports))
      <4>1. ref = WasmRef(m, old.image.start - Len(old.imports))
        BY <1>1, <2>1, <3>3 DEF get_func_ref, Modules
      <4> QED BY <3>1, <3>3, <4>1 DEF WasmRef, Ref
    <3> QED BY <3>2, <3>3
  <2>5. (Resolves(ref))' /\ (FunctionAt(ref))' = FunctionAt(ref)
    BY <2>3, <2>4, StillResolves DEF Starts
  <2>6. (Starts(ref))'
    BY <2>3, <2>5 DEF Starts
  <2> QED BY <2>2, <2>6
<1> QED BY <1>2, <1>3, <1>4, <1>5, <1>6 DEF GoodModule, Modules

-----------------------------------------------------------------------------
(* Linking *)

(* A reference to a host function is one of Ref.                           *)
LEMMA HostRefsAre ==
  ASSUME Typed, engine # None
  PROVE  \A r \in HostRefs : /\ r \in Ref /\ r.kind = "Host" /\ r.module \in Nat /\ r.index \in Nat
                             /\ r = HostRef(r.module, r.index)
<1>1. ASSUME NEW h \in Nat, NEW f \in Nat
      PROVE  /\ HostRef(h, f) \in Ref /\ HostRef(h, f).kind = "Host"
             /\ HostRef(h, f).module = h /\ HostRef(h, f).index = f
  BY DEF HostRef, Ref
<1>2. ASSUME NEW r \in HostRefs PROVE \E h, f \in Nat : r = HostRef(h, f)
  <2>1. PICK h \in 0..(Len(engine.hosts) - 1) :
           r \in {HostRef(h, f) : f \in 0..(Len(At(engine.hosts, h).functions) - 1)}
    BY DEF HostRefs
  <2>2. PICK f \in 0..(Len(At(engine.hosts, h).functions) - 1) : r = HostRef(h, f)
    BY <2>1
  <2>3. \A k : h \in 0..k => h \in Nat
    OBVIOUS
  <2> QED BY <2>1, <2>2
<1> QED BY <1>1, <1>2

(* Among references to host functions there is a first.                    *)
LEMMA FirstIsThere ==
  ASSUME NEW refs, refs # {},
         \A r \in refs : r.module \in Nat /\ r.index \in Nat /\ r = HostRef(r.module, r.index)
  PROVE  First(refs) \in refs
<1>1. PICK r0 \in refs : \A s \in refs : r0.module <= s.module
  <2> DEFINE S == {r.module : r \in refs}
  <2>1. S \in SUBSET Nat /\ S # {}
    OBVIOUS
  <2>2. PICK h \in S : \A k \in S : h <= k
    BY <2>1, LeastNumber
  <2> QED BY <2>2
<1>2. PICK r \in refs : r.module = r0.module /\ \A s \in refs : s.module = r0.module => r.index <= s.index
  <2> DEFINE S == {s.index : s \in {q \in refs : q.module = r0.module}}
  <2>1. S \in SUBSET Nat /\ S # {}
    OBVIOUS
  <2>2. PICK h \in S : \A k \in S : h <= k
    BY <2>1, LeastNumber
  <2> QED BY <2>2
<1>3. ASSUME NEW s \in refs \ {r} PROVE Before(r, s)
  <2>1. r0.module <= s.module /\ r0.module \in Nat /\ s.module \in Nat
    BY <1>1
  <2>2. CASE s.module = r0.module
    <3>1. r.index <= s.index /\ r.index # s.index /\ r.index \in Nat /\ s.index \in Nat
      BY <1>2, <1>3, <2>2
    <3> QED BY <1>2, <2>2, <3>1 DEF Before
  <2>3. CASE s.module # r0.module
    BY <1>2, <2>1, <2>3 DEF Before
  <2> QED BY <2>2, <2>3
<1>4. \E x \in refs : \A s \in refs \ {x} : Before(x, s)
  BY <1>3
<1> QED BY <1>4, Zenon DEF First

(* An index within the functions of a module refers to one.                *)
LEMMA FuncRefResolves ==
  ASSUME Typed, Resolved, engine # None, NEW m \in 0..(Len(engine.modules) - 1), NEW x \in Nat,
         x < Len(At(engine.modules, m).image.imports) + Len(At(engine.modules, m).image.functions)
  PROVE  get_func_ref(m, x) \in Ref /\ Resolves(get_func_ref(m, x))
<1>1. PICK md \in Module : md = At(engine.modules, m)
  BY EngineIs
<1>2. /\ Len(md.imports) = Len(md.image.imports) /\ \A i \in 1..Len(md.imports) : Resolves(md.imports[i])
  BY <1>1 DEF Resolved, GoodModule, Modules
<1>3. /\ Len(md.imports) \in Nat /\ Len(md.image.functions) \in Nat /\ m \in Nat
      /\ \A i \in 1..Len(md.imports) : md.imports[i] \in Ref
  BY ModuleIs
<1>4. CASE x < Len(md.imports)
  <2>1. get_func_ref(m, x) = md.imports[x + 1] /\ x + 1 \in 1..Len(md.imports)
    BY <1>1, <1>3, <1>4 DEF get_func_ref, Modules, At
  <2> QED BY <1>2, <1>3, <2>1
<1>5. CASE ~(x < Len(md.imports))
  <2>1. PICK y \in Nat : y = x - Len(md.imports) /\ y < Len(md.image.functions)
    <3>1. x < Len(md.imports) + Len(md.image.functions)
      BY <1>1, <1>2
    <3>2. \A n, k \in Nat : ~(x < n) /\ x < n + k => x - n \in Nat /\ x - n < k
      OBVIOUS
    <3>3. Len(md.imports) \in Nat /\ Len(md.image.functions) \in Nat
      BY <1>3
    <3>4. x - Len(md.imports) \in Nat /\ x - Len(md.imports) < Len(md.image.functions)
      BY <1>5, <3>1, <3>2, <3>3
    <3> QED BY <3>4, Zenon
  <2>2. get_func_ref(m, x) = WasmRef(m, y)
    BY <1>1, <1>5, <2>1 DEF get_func_ref, Modules
  <2>3. HasFunction(m, y)
    BY <1>1, <2>1, EngineIs DEF HasFunction, HasModule, Within, Modules
  <2> QED BY <1>3, <2>2, <2>3 DEF WasmRef, Ref, Resolves
<1> QED BY <1>4, <1>5

(* An export of a module.                                                  *)
LEMMA ExportsAre ==
  ASSUME Typed, engine # None, NEW m \in 0..(Len(engine.modules) - 1), NEW name,
         NEW e \in Exports(m, name)
  PROVE  /\ e.index \in Nat /\ e.kind \in {"Func", "Global"}
         /\ e.index < IF e.kind = "Func"
              THEN Len(At(engine.modules, m).image.imports) + Len(At(engine.modules, m).image.functions)
              ELSE Len(At(engine.modules, m).image.globals)
<1>1. PICK md \in Module : md = At(engine.modules, m)
  BY EngineIs
<1>2. md.image \in Image /\ ValidImage(md.image)
  BY ModuleIs
<1>3. e \in ToSet(md.image.exports)
  BY <1>1 DEF Exports, Modules
<1>4. \A x \in ToSet(md.image.exports) : x \in [name : Names, kind : {"Func", "Global"}, index : Nat]
  <2>1. PICK xs \in Seq([name : Names, kind : {"Func", "Global"}, index : Nat]) : xs = md.image.exports
    BY <1>2 DEF Image
  <2> QED BY <2>1, ElementIn
<1>5. e.index \in Nat /\ e.kind \in {"Func", "Global"}
  BY <1>3, <1>4
<1> QED BY <1>1, <1>2, <1>3, <1>5 DEF ValidImage

LinkErrors == {"FUNCTION_IMPORT_NOT_FOUND", "FUNCTION_IMPORT_TYPE_MISMATCH"}

(* What an import is linked to exists, a host function or a function that  *)
(* a loaded module has or imports; or there is an error.                   *)
LEMMA LinkIs ==
  ASSUME Typed, Resolved, engine # None, NEW import
  PROVE  \/ link_function(import) \in Ref /\ Resolves(link_function(import))
         \/ \E s \in LinkErrors : link_function(import) = NoLink(s)
<1> DEFINE provided == {r \in HostRefs :
             At(engine.hosts, r.module).name = import.module /\ HostFunctionAt(r).name = import.name}
           exporters == {m \in 0..(Len(Modules) - 1) :
             At(Modules, m).name = import.module /\ Exports(m, import.name) # {}}
           m0 == CHOOSE k \in exporters : \A l \in exporters : k <= l
           e0 == CHOOSE x \in Exports(m0, import.name) : TRUE
           ref == IF provided # {} THEN First(provided)
                  ELSE IF exporters = {} THEN NoLink("FUNCTION_IMPORT_NOT_FOUND")
                  ELSE IF e0.kind # "Func" THEN NoLink("FUNCTION_IMPORT_TYPE_MISMATCH")
                  ELSE get_func_ref(m0, e0.index)
<1>1. link_function(import) =
        IF ref.kind = "Error" \/ TypeOf(ref) = import.type THEN ref
        ELSE NoLink("FUNCTION_IMPORT_TYPE_MISMATCH")
  BY DEF link_function
<1> HIDE DEF ref
<1>2. (ref \in Ref /\ Resolves(ref)) \/ \E s \in LinkErrors : ref = NoLink(s)
  <2> HIDE DEF provided, exporters, m0, e0
  <2>3. CASE provided # {}
    <3>1. \A r \in provided : r \in HostRefs
      BY DEF provided
    <3>2. First(provided) \in provided
      BY <2>3, <3>1, HostRefsAre, FirstIsThere
    <3>3. ref \in HostRefs
      BY <2>3, <3>1, <3>2 DEF ref
    <3> QED BY <3>3, HostRefsAre DEF Resolves
  <2>4. CASE provided = {} /\ ~(exporters # {} /\ e0.kind = "Func")
    BY <2>4 DEF ref, LinkErrors
  <2>5. CASE provided = {} /\ exporters # {} /\ e0.kind = "Func"
    <3>1. ref = get_func_ref(m0, e0.index)
      BY <2>5 DEF ref
    <3>2. exporters \in SUBSET Nat
      BY EngineIs DEF exporters, Modules
    <3>3. m0 \in exporters
      <4>1. \E k \in exporters : \A l \in exporters : k <= l
        BY <2>5, <3>2, LeastNumber
      <4> QED BY <4>1, Zenon DEF m0
    <3>4. m0 \in 0..(Len(engine.modules) - 1) /\ Exports(m0, import.name) # {}
      BY <3>3 DEF exporters, Modules
    <3>5. e0 \in Exports(m0, import.name)
      BY <3>4 DEF e0
    <3>6. PICK m \in 0..(Len(engine.modules) - 1) : m = m0
      BY <3>4
    <3>7. PICK e \in Exports(m, import.name) : e = e0
      BY <3>5, <3>6
    <3>8. e.index \in Nat /\ e.kind = "Func"
          /\ e.index < Len(At(engine.modules, m).image.imports) + Len(At(engine.modules, m).image.functions)
      BY <2>5, <3>7, ExportsAre
    <3>9. get_func_ref(m, e.index) \in Ref /\ Resolves(get_func_ref(m, e.index))
      BY <3>8, FuncRefResolves
    <3> QED BY <3>1, <3>6, <3>7, <3>9
  <2> QED BY <2>3, <2>4, <2>5
<1>3. CASE link_function(import) = ref
  BY <1>2, <1>3
<1>4. CASE link_function(import) = NoLink("FUNCTION_IMPORT_TYPE_MISMATCH")
  BY <1>4 DEF LinkErrors
<1> QED BY <1>1, <1>3, <1>4

(* The status of an import tells which of the two it is.                   *)
LEMMA LinkStatusIs ==
  ASSUME Typed, Resolved, engine # None, NEW import
  PROVE  /\ link_status(import) \in {OK} \cup LinkErrors
         /\ link_status(import) = OK =>
              link_function(import) \in Ref /\ Resolves(link_function(import))
<1>1. CASE link_function(import) \in Ref /\ Resolves(link_function(import))
  <2>1. \A r \in Ref : r.kind # "Error"
    BY DEF Ref
  <2> QED BY <1>1, <2>1 DEF link_status
<1>2. CASE \E s \in LinkErrors : link_function(import) = NoLink(s)
  <2>1. PICK s \in LinkErrors : link_function(import) = NoLink(s)
    BY <1>2
  <2>2. link_status(import) = s /\ s # OK
    BY <2>1 DEF link_status, NoLink, LinkErrors, OK
  <2> QED BY <2>2
<1> QED BY <1>1, <1>2, LinkIs

-----------------------------------------------------------------------------
(* The invariant *)

(* The sizes of the host vector and of the engine, as TypeOK has them.     *)
HostSized ==
  host # None => /\ Len(host.modules) <= host.capacity
                 /\ \A h \in ToSet(host.modules) : TypeOfHostModule(h)

EngineSized ==
  engine # None => /\ Len(Modules) <= engine.max_modules /\ engine.max_modules <= ModuleLimit
                   /\ engine.code <= CodeBudget
                   /\ \A h \in ToSet(engine.hosts) : TypeOfHostModule(h)
                   /\ \A m \in ToSet(Modules) : TypeOfGlobals(m)

(* Every allocator is counted, and none is used before it is created.      *)
Counted ==
  /\ AllocatorsCounted
  /\ \A a \in Allocators : allocators[a].handle = "none" => Users(a) = {}

(* What the handles own.                                                   *)
Owning ==
  /\ Typed /\ HostSized /\ EngineSized /\ Resolved /\ Distinct /\ Counted

(* A run executes the pending call, unless a callback reset the engine; a  *)
(* callback is part of a run, which has moved out the closure of that      *)
(* callback only and goes on with a call that exists.  Orderly callbacks   *)
(* leave no run to go on with frames that are gone.                        *)
Interrupted ==
  callback # None =>
    /\ running /\ engine # None /\ callback.ref \in HostRefs
    /\ HasFunction(callback.call.module, callback.call.index)
    /\ ~engine.discarded => engine.call = callback.call

Running ==
  /\ running => engine # None /\ engine.pause = None /\ engine.result = None
  /\ running /\ callback = None /\ ~panicked => engine.call # None /\ ~engine.discarded
  /\ Interrupted
  /\ engine # None /\ Orderly => (engine.discarded => callback # None)
  /\ ~panicked => taken = IF callback = None THEN {} ELSE {callback.ref}

(* A result is there only when no call is pending.                         *)
Calling ==
  engine # None =>
    /\ engine.call # None => HasFunction(engine.call.module, engine.call.index)
    /\ engine.result # None => engine.call = None /\ ~Trapped

IInv == Owning /\ Running /\ Calling

(* Nothing of the engine changes but its code, call, pause and result.     *)
Retains ==
  /\ engine # None /\ engine' \in EngineRecord
  /\ engine'.hosts = engine.hosts /\ engine'.max_modules = engine.max_modules
  /\ engine'.modules = engine.modules

(* None and Null are no values of the model.                               *)
LEMMA Marks ==
  /\ None \notin Host /\ None \notin EngineRecord /\ None \notin Call /\ None \notin Nat
  /\ None \notin Callback /\ None \notin Allocators /\ Null \notin Allocators
BY CApiAssumption

(* What resolves does so in an engine that retains its modules.            *)
LEMMA RetainsGrows ==
  ASSUME Typed, Retains
  PROVE  /\ Grows /\ HostRefs' = HostRefs
         /\ \A a : (Users(a))' = Users(a)
         /\ \A m, x : HasFunction(m, x) => (HasFunction(m, x))'
<1>1. engine' # None /\ engine # None
  BY Marks DEF Retains
<1>2. Grows
  BY <1>1, EngineIs DEF Retains, Grows, SameModule
<1>3. HostRefs' = HostRefs
  BY <1>2 DEF Grows, HostRefs, HostRef, At
<1>4. \A a : (Users(a))' = Users(a)
  BY <1>1 DEF Users, Retains, Modules, At
<1>5. \A m, x : HasFunction(m, x) => (HasFunction(m, x))'
  BY <1>1 DEF HasFunction, HasModule, Within, Retains, Modules, At
<1> QED BY <1>2, <1>3, <1>4, <1>5

(* The handles and what they own stay in order. *)
LEMMA RetainsOwning ==
  ASSUME Owning, Retains, Typed', UNCHANGED <<allocators, host>>, engine'.code <= CodeBudget
  PROVE  Owning'
<1>1. engine # None /\ engine' # None /\ Grows /\ \A a : (Users(a))' = Users(a)
  BY RetainsGrows, Marks DEF Owning, Retains, Grows
<1>2. HostSized'
  BY DEF Owning, HostSized
<1>3. EngineSized'
  BY <1>1 DEF Owning, EngineSized, Retains, Modules
<1>4. Resolved'
  <2>1. ASSUME NEW m \in 0..(Len(engine.modules) - 1) PROVE (GoodModule(m))'
    <3>1. GoodModule(m)
      BY <1>1 DEF Owning, Resolved, Modules
    <3> QED BY <1>1, <3>1, StillGood DEF Owning
  <2> QED BY <2>1 DEF Resolved, Retains, Modules
<1>5. Distinct'
  BY <1>1 DEF Owning, Distinct, Retains, Modules, At
<1>6. Counted'
  BY <1>1 DEF Owning, Counted, AllocatorsCounted
<1> QED BY <1>2, <1>3, <1>4, <1>5, <1>6 DEF Owning

(* The same without an engine. *)
LEMMA NoEngineOwning ==
  ASSUME Owning, engine = None, engine' = None, Typed', UNCHANGED <<allocators, host>>
  PROVE  Owning'
<1>1. \A a : (Users(a))' = Users(a)
  BY DEF Users
<1> QED BY <1>1 DEF Owning, HostSized, EngineSized, Resolved, Distinct, Counted, AllocatorsCounted

(* What is there in an engine that grows stays there.                      *)
LEMMA GrowsIs ==
  ASSUME Typed, Typed', Grows
  PROVE  /\ HostRefs' = HostRefs
         /\ \A c \in Call : HasFunction(c.module, c.index) => (HasFunction(c.module, c.index))'
<1>1. HostRefs' = HostRefs
  BY DEF Grows, HostRefs, HostRef, At
<1>2. ASSUME NEW c \in Call, HasFunction(c.module, c.index)
      PROVE  (HasFunction(c.module, c.index))'
  <2>1. PICK m \in Nat, x \in Nat : m = c.module /\ x = c.index
    BY DEF Call
  <2>2. m < Len(engine.modules) /\ x < Len(At(engine.modules, m).image.functions)
    BY <1>2, <2>1 DEF HasFunction, HasModule, Within, Modules
  <2>3. Len(engine.modules) \in Nat /\ Len(engine'.modules) \in Nat
    BY EngineIs DEF Grows, Typed, EngineRecord
  <2>4. m + 1 \in 1..Len(engine.modules) /\ m < Len(engine'.modules)
    BY <2>2, <2>3 DEF Grows
  <2>5. At(engine'.modules, m).image = At(engine.modules, m).image
    BY <2>4 DEF Grows, SameModule, At
  <2> QED BY <2>1, <2>2, <2>4, <2>5 DEF HasFunction, HasModule, Within, Modules, Grows
<1> QED BY <1>1, <1>2

(* What the interpreter keeps while it calls a host function.              *)
LEMMA CallbackIs ==
  ASSUME Typed, callback # None
  PROVE  callback.ref \in Ref /\ callback.call \in Call /\ callback.call # None
BY Marks DEF Typed, Callback

(* A run goes on as it was when the engine grows and keeps its call.       *)
LEMMA RunningKept ==
  ASSUME IInv, Typed', Grows, UNCHANGED execution,
         engine'.call = engine.call, engine'.pause \in {engine.pause, None},
         engine'.result = engine.result, engine'.discarded = engine.discarded
  PROVE  Running'
<1>1. Typed /\ engine # None /\ engine' # None /\ Running
  BY DEF IInv, Owning, Grows
<1>2. /\ HostRefs' = HostRefs
      /\ \A c \in Call : HasFunction(c.module, c.index) => (HasFunction(c.module, c.index))'
  BY <1>1, GrowsIs
<1>3. running' = running /\ callback' = callback /\ taken' = taken /\ panicked' = panicked
  BY DEF execution
<1>4. Interrupted'
  <2>1. SUFFICES ASSUME callback # None PROVE Interrupted'
    BY <1>3 DEF Interrupted
  <2>2. PICK c \in Call : c = callback.call
    BY <1>1, <2>1, CallbackIs
  <2>3. (HasFunction(callback.call.module, callback.call.index))'
    <3>1. HasFunction(c.module, c.index)
      BY <1>1, <2>1, <2>2 DEF Running, Interrupted
    <3>2. (HasFunction(c.module, c.index))'
      BY <1>2, <3>1
    <3> QED BY <1>3, <2>2, <3>2 DEF HasFunction, HasModule
  <2> QED BY <1>1, <1>2, <1>3, <2>1, <2>3 DEF Running, Interrupted
<1> QED BY <1>1, <1>3, <1>4 DEF Running

(* The engine stays as it is, whatever the other handles do.               *)
LEMMA EngineKept ==
  ASSUME IInv, UNCHANGED <<engine, execution>>, allocators' \in [Allocators -> AllocatorRecord],
         host' \in Host \cup {None}, HostSized', Counted', ~Trapped' \/ UNCHANGED last
  PROVE  IInv'
<1>1. Typed'
  BY DEF IInv, Owning, Typed, execution
<1>2. CASE engine = None
  <2>1. EngineSized' /\ Resolved' /\ Distinct' /\ Calling'
    BY <1>2 DEF EngineSized, Resolved, Distinct, Calling
  <2>2. Running'
    BY <1>2 DEF IInv, Running, Interrupted, execution
  <2> QED BY <1>1, <2>1, <2>2 DEF IInv, Owning
<1>3. CASE engine # None
  <2>1. Retains /\ Typed
    BY <1>3 DEF IInv, Owning, Typed, Retains
  <2>2. HostRefs' = HostRefs /\ \A m, x : HasFunction(m, x) => (HasFunction(m, x))'
    BY <2>1, RetainsGrows
  <2>3. Grows /\ \A m \in 0..(Len(engine.modules) - 1) : GoodModule(m)
    BY <1>3, <2>1, RetainsGrows DEF IInv, Owning, Resolved, Modules
  <2>4. \A m \in 0..(Len(engine.modules) - 1) : (GoodModule(m))'
    BY <1>1, <2>1, <2>3, StillGood
  <2>5. Resolved' /\ Distinct' /\ EngineSized'
    BY <2>4 DEF IInv, Owning, Resolved, Distinct, EngineSized, Modules
  <2>6. Running'
    BY <1>1, <1>3, <2>3, RunningKept
  <2>7. Calling'
    BY <2>2 DEF IInv, Calling, Trapped
  <2> QED BY <1>1, <2>5, <2>6, <2>7 DEF IInv, Owning
<1> QED BY <1>2, <1>3

(* A call that only answers. *)
LEMMA AnswerIs ==
  ASSUME IInv, NEW op, NEW status, NEW out, Answer(op, status, out), op # "run" \/ out = "TRAP_NONE"
  PROVE  IInv'
<1>1. UNCHANGED <<engine, execution>> /\ UNCHANGED <<allocators, host>>
  BY DEF Answer, handles, execution
<1>2. ~Trapped'
  BY DEF Answer, Return, Trapped
<1>3. Counted'
  <2>1. \A a : (Users(a))' = Users(a)
    BY <1>1 DEF Users, Modules, At
  <2> QED BY <1>1, <2>1 DEF IInv, Owning, Counted, AllocatorsCounted
<1>4. allocators' \in [Allocators -> AllocatorRecord] /\ host' \in Host \cup {None} /\ HostSized'
  BY <1>1 DEF IInv, Owning, Typed, HostSized
<1> QED BY <1>1, <1>2, <1>3, <1>4, EngineKept

-----------------------------------------------------------------------------
(* The host vector *)

(* A call that changes the host vector only.                               *)
LEMMA HostChanges ==
  ASSUME IInv, UNCHANGED <<allocators, engine, execution>>, host' \in Host \cup {None}, HostSized',
         ~Trapped'
  PROVE  IInv'
<1>1. Counted'
  <2>1. \A a : (Users(a))' = Users(a)
    BY DEF Users, Modules, At
  <2> QED BY <2>1 DEF IInv, Owning, Counted, AllocatorsCounted
<1>2. allocators' \in [Allocators -> AllocatorRecord]
  BY DEF IInv, Owning, Typed
<1>3. UNCHANGED <<engine, execution>>
  BY DEF execution
<1> QED BY <1>1, <1>2, <1>3, EngineKept

(* spacewasm_host_new gives an empty vector. *)
LEMMA HostNewIs ==
  ASSUME IInv, NEW len \in HostSizes, NEW heap \in Heap, host_new(len, heap)
  PROVE  IInv'
<1>1. [capacity |-> len, modules |-> <<>>] \in Host /\ ToSet(<<>>) = {}
  BY CApiAssumption DEF Host, ToSet
<1>2. UNCHANGED <<allocators, engine, execution>> /\ host' \in Host \cup {None} /\ HostSized'
  BY <1>1, CApiAssumption DEF host_new, IInv, Owning, Typed, HostSized
<1>3. ~Trapped'
  BY DEF host_new, Return, Trapped
<1> QED BY <1>2, <1>3, HostChanges

(* spacewasm_host_destroy drops the vector.                                *)
LEMMA HostDestroyIs ==
  ASSUME IInv, host_destroy
  PROVE  IInv'
<1>1. UNCHANGED <<allocators, engine, execution>> /\ host' \in Host \cup {None} /\ HostSized'
  BY DEF host_destroy, HostSized
<1>2. ~Trapped'
  BY DEF host_destroy, Return, Trapped
<1> QED BY <1>1, <1>2, HostChanges

(* The elements of a sequence with one more.                               *)
LEMMA AppendedElements ==
  ASSUME NEW R, NEW xs \in Seq(R), NEW x \in R
  PROVE  /\ Append(xs, x) \in Seq(R) /\ Len(Append(xs, x)) = Len(xs) + 1
         /\ \A y \in ToSet(Append(xs, x)) : y \in ToSet(xs) \/ y = x
<1>1. PICK ys : ys = Append(xs, x)
  OBVIOUS
<1>2. /\ ys \in Seq(R) /\ Len(ys) = Len(xs) + 1 /\ ys[Len(xs) + 1] = x
      /\ \A i \in 1..Len(xs) : ys[i] = xs[i]
  BY <1>1, AppendProperties
<1>3. ASSUME NEW y \in ToSet(ys) PROVE y \in ToSet(xs) \/ y = x
  <2>1. PICK i \in 1..Len(ys) : y = ys[i]
    BY <1>2 DEF ToSet
  <2>2. CASE i = Len(xs) + 1
    BY <1>2, <2>1, <2>2
  <2>3. CASE i # Len(xs) + 1
    <3>1. i \in 1..Len(xs)
      BY <1>2, <2>3
    <3> QED BY <1>2, <2>1, <3>1 DEF ToSet
  <2> QED BY <2>2, <2>3
<1> QED BY <1>1, <1>2, <1>3

(* A sequence has the element at an index.                                 *)
LEMMA InElements ==
  ASSUME NEW R, NEW xs \in Seq(R), NEW i \in 1..Len(xs)
  PROVE  xs[i] \in ToSet(xs)
BY DEF ToSet

(* A sequence with one element replaced is one.                            *)
LEMMA ReplacedIs ==
  ASSUME NEW R, NEW xs \in Seq(R), NEW i \in 1..Len(xs), NEW x \in R
  PROVE  [xs EXCEPT ![i] = x] \in Seq(R) /\ Len([xs EXCEPT ![i] = x]) = Len(xs)
OBVIOUS

(* The elements of a sequence with one of them replaced.                   *)
LEMMA ReplacedElements ==
  ASSUME NEW R, NEW xs \in Seq(R), NEW i \in 1..Len(xs), NEW x \in R,
         NEW ys \in Seq(R), ys = [xs EXCEPT ![i] = x]
  PROVE  \A y \in ToSet(ys) : y \in ToSet(xs) \/ y = x
<1>1. ASSUME NEW y \in ToSet(ys) PROVE y \in ToSet(xs) \/ y = x
  <2>1. PICK j \in 1..Len(xs) : y = ys[j]
    BY DEF ToSet
  <2> QED BY <2>1, InElements
<1> QED BY <1>1

(* add_host_module appends a module while there is room.                   *)
LEMMA AddHostModuleIs ==
  ASSUME IInv, NEW arg \in ModuleArgs, add_host_module(arg.name, arg.max_functions, arg.heap)
  PROVE  IInv'
<1> DEFINE checks == <<Allocated(arg.heap), cstr(arg.name), host_name(arg.name),
                       ErrorIf(host = None, "NULL_ARG"),
                       ErrorIf(host # None /\ Len(host.modules) >= host.capacity, "CAPACITY")>>
           new == [name |-> arg.name, capacity |-> arg.max_functions, functions |-> <<>>]
<1>1. /\ host' = IF FirstError(checks) = OK THEN [host EXCEPT !.modules = Append(@, new)] ELSE host
      /\ UNCHANGED <<allocators, engine, execution>> /\ ~Trapped'
  BY DEF add_host_module, Return, Trapped
<1>2. DOMAIN checks = 1..5
  OBVIOUS
<1>3. new \in HostModule /\ TypeOfHostModule(new)
  BY CApiAssumption DEF HostModule, TypeOfHostModule, ToSet
<1>4. CASE FirstError(checks) = OK
  <2> HIDE DEF checks
  <2>10. \A i \in 1..5 : checks[i] = OK
    BY <1>2, <1>4, ChecksPass
  <2> USE DEF checks
  <2>1. checks[4] = OK /\ checks[5] = OK
    BY <2>10
  <2>2. host # None /\ ~(Len(host.modules) >= host.capacity)
    BY <2>1 DEF ErrorIf, OK
  <2>3. host \in Host /\ host.modules \in Seq(HostModule) /\ Len(host.modules) \in Nat /\ host.capacity \in Nat
    BY <2>2 DEF IInv, Owning, Typed, Host
  <2> HIDE DEF new
  <2>4. PICK ms \in Seq(HostModule) : /\ ms = Append(host.modules, new) /\ Len(ms) = Len(host.modules) + 1
                                      /\ \A y \in ToSet(ms) : y \in ToSet(host.modules) \/ y = new
    BY <1>3, <2>3, AppendedElements
  <2>5. host' = [host EXCEPT !.modules = ms]
    BY <1>1, <1>4, <2>4
  <2>6. host' \in Host /\ host'.modules = ms /\ host'.capacity = host.capacity
    BY <2>3, <2>5 DEF Host
  <2>7. HostSized'
    BY <1>3, <2>2, <2>3, <2>4, <2>6 DEF IInv, Owning, HostSized, TypeOfHostModule
  <2> QED BY <1>1, <2>6, <2>7, HostChanges
<1>5. CASE FirstError(checks) # OK
  <2>1. host' = host
    BY <1>1, <1>5
  <2>2. HostSized' /\ host' \in Host \cup {None}
    BY <2>1 DEF IInv, Owning, HostSized, Typed
  <2> QED BY <1>1, <2>2, HostChanges
<1> QED BY <1>4, <1>5

(* A signature that try_new accepts is a list of value types, which fit.   *)
LEMMA SignaturePasses ==
  ASSUME NEW s \in Texts, cstr(s) = OK, val_list(s) = OK
  PROVE  TypesOf(s) \in Seq(Types) /\ Len(TypesOf(s)) = Len(s) /\ Len(s) <= MaxParams
<1>1. s \in Seq(Chars) /\ s \notin {Null, BadUtf8}
  BY StringPasses DEF Texts
<1>2. Len(s) \in Nat /\ MaxParams \in Nat /\ DOMAIN s = 1..Len(s)
  BY <1>1, CApiAssumption
<1>3. ~(\E i \in DOMAIN s : i <= MaxParams /\ map_char(s[i]) \notin Types)
  BY <1>1 DEF val_list, OK
<1>4. ~(Len(s) > MaxParams)
  BY <1>1, <1>3 DEF val_list, ErrorIf, OK
<1>5. \A i \in 1..Len(s) : map_char(s[i]) \in Types
  BY <1>2, <1>3, <1>4
<1>6. TypesOf(s) \in [1..Len(s) -> Types]
  BY <1>2, <1>5 DEF TypesOf
<1> QED BY <1>2, <1>4, <1>6

(* add_host_function appends a function to a module with room.             *)
LEMMA AddHostFunctionIs ==
  ASSUME IInv, NEW arg \in FunctionArgs,
         add_host_function(arg.idx, arg.name, arg.params, arg.returns, arg.f, arg.heap)
  PROVE  IInv'
<1> DEFINE checks == <<cstr(arg.name), cstr(arg.params), cstr(arg.returns), host_name(arg.name),
                       val_list(arg.params), val_list(arg.returns),
                       ErrorIf(host = None, "NULL_ARG"), ErrorIf(arg.f = Null, "NULL_ARG"),
                       multi_return(arg.returns), Allocated(arg.heap),
                       ErrorIf(host # None, Room(arg.idx, host.modules))>>
           new == [name |-> arg.name, params |-> TypesOf(arg.params), returns |-> TypesOf(arg.returns)]
<1>1. /\ host' = IF FirstError(checks) = OK
                   THEN [host EXCEPT !.modules[arg.idx + 1].functions = Append(@, new)] ELSE host
      /\ UNCHANGED <<allocators, engine, execution>> /\ ~Trapped'
  BY DEF add_host_function, Return, Trapped
<1>2. DOMAIN checks = 1..11
  OBVIOUS
<1>3. arg.idx \in Nat /\ arg.name \in Strings /\ arg.params \in Texts /\ arg.returns \in Texts
  BY CApiAssumption
<1>4. CASE FirstError(checks) = OK
  <2>1. \A i \in 1..11 : checks[i] = OK
    <3> HIDE DEF checks
    <3> QED BY <1>2, <1>4, ChecksPass
  <2>2. /\ cstr(arg.params) = OK /\ cstr(arg.returns) = OK
        /\ val_list(arg.params) = OK /\ val_list(arg.returns) = OK
    <3>1. checks[2] = OK /\ checks[3] = OK /\ checks[5] = OK /\ checks[6] = OK
      <4> HIDE DEF checks
      <4> QED BY <2>1
    <3> QED BY <3>1
  <2>3. /\ ErrorIf(host = None, "NULL_ARG") = OK /\ multi_return(arg.returns) = OK
        /\ ErrorIf(host # None, Room(arg.idx, host.modules)) = OK
    <3>1. checks[7] = OK /\ checks[9] = OK /\ checks[11] = OK
      <4> HIDE DEF checks
      <4> QED BY <2>1
    <3> QED BY <3>1
  <2>4. host # None /\ Room(arg.idx, host.modules) = OK
    BY <2>3 DEF ErrorIf, OK
  <2>5. new.params \in Seq(Types) /\ Len(new.params) <= MaxParams /\ new.returns \in Seq(Types) /\ Len(new.returns) <= 1
    <3>1. Len(arg.returns) \in Nat
      BY <1>3, <2>2, StringPasses DEF Texts
    <3>2. ~(Len(arg.returns) > 1)
      BY <2>2, <2>3, StringPasses DEF multi_return, ErrorIf, OK
    <3> QED BY <1>3, <2>2, <3>1, <3>2, SignaturePasses
  <2>6. new \in HostFunction
    BY <1>3, <2>5 DEF HostFunction
  <2> HIDE DEF new, checks
  <2>7. host \in Host /\ host.modules \in Seq(HostModule) /\ Len(host.modules) \in Nat /\ host.capacity \in Nat
    BY <2>4 DEF IInv, Owning, Typed, Host
  <2>8. PICK k \in 1..Len(host.modules) : k = arg.idx + 1
    <3>1. Within(arg.idx, host.modules)
      BY <2>4 DEF Room, OK
    <3> QED BY <1>3, <2>7, <3>1 DEF Within
  <2>9. PICK old \in HostModule : old = host.modules[k] /\ old = At(host.modules, arg.idx)
    BY <2>7, <2>8 DEF At
  <2>10. /\ old.functions \in Seq(HostFunction)
         /\ Len(old.functions) \in Nat /\ old.capacity \in Nat /\ Len(old.functions) < old.capacity
    <3>1. /\ old.functions \in Seq(HostFunction)
          /\ Len(old.functions) \in Nat /\ old.capacity \in Nat
      BY DEF HostModule
    <3>2. ~(Len(old.functions) >= old.capacity)
      BY <2>4, <2>9 DEF Room, ErrorIf, OK
    <3> QED BY <3>1, <3>2
  <2>11. PICK fs \in Seq(HostFunction) :
           /\ fs = Append(old.functions, new) /\ Len(fs) = Len(old.functions) + 1
           /\ \A y \in ToSet(fs) : y \in ToSet(old.functions) \/ y = new
    BY <2>6, <2>10, AppendedElements
  <2>12. PICK md \in HostModule : /\ md = [old EXCEPT !.functions = fs]
                                  /\ md.functions = fs /\ md.capacity = old.capacity
    <3>1. PICK md : md = [old EXCEPT !.functions = fs]
      OBVIOUS
    <3>2. md \in HostModule /\ md.functions = fs /\ md.capacity = old.capacity
      BY <3>1 DEF HostModule
    <3> QED BY <3>1, <3>2
  <2>13. TypeOfHostModule(md)
    <3>1. TypeOfHostModule(old)
      <4>1. old \in ToSet(host.modules)
        BY <2>7, <2>9, InElements
      <4> QED BY <2>4, <4>1 DEF IInv, Owning, HostSized
    <3> QED BY <2>5, <2>10, <2>11, <2>12, <3>1 DEF TypeOfHostModule
  <2>14. PICK hm \in Seq(HostModule) : hm = host.modules /\ k \in 1..Len(hm)
    BY <2>7
  <2>15. PICK ms \in Seq(HostModule) :
            /\ ms = [hm EXCEPT ![k] = md] /\ Len(ms) = Len(hm)
            /\ \A y \in ToSet(ms) : y \in ToSet(hm) \/ y = md
    <3>1. PICK j \in 1..Len(hm) : j = k
      BY <2>14
    <3>2. PICK ms : ms = [hm EXCEPT ![j] = md]
      OBVIOUS
    <3>3. ms \in Seq(HostModule) /\ Len(ms) = Len(hm)
      BY <3>2, ReplacedIs
    <3>4. \A y \in ToSet(ms) : y \in ToSet(hm) \/ y = md
      BY <3>2, <3>3, ReplacedElements
    <3> QED BY <3>1, <3>2, <3>3, <3>4, Zenon
  <2>16. host' = [host EXCEPT !.modules = ms]
    BY <1>1, <1>4, <2>7, <2>8, <2>9, <2>11, <2>12, <2>14, <2>15
  <2>17. host' \in Host /\ host'.modules = ms /\ host'.capacity = host.capacity
    BY <2>7, <2>15, <2>16 DEF Host
  <2>18. HostSized'
    BY <2>4, <2>13, <2>14, <2>15, <2>17 DEF IInv, Owning, HostSized, TypeOfHostModule
  <2> QED BY <1>1, <2>17, <2>18, HostChanges
<1>5. CASE FirstError(checks) # OK
  <2>1. host' = host
    BY <1>1, <1>5
  <2>2. HostSized' /\ host' \in Host \cup {None}
    BY <2>1 DEF IInv, Owning, HostSized, Typed
  <2> QED BY <1>1, <2>2, HostChanges
<1> QED BY <1>4, <1>5

-----------------------------------------------------------------------------
(* Allocators *)

(* The memories that came from an allocator are finitely many.             *)
LEMMA UsersAre ==
  ASSUME Typed, NEW a
  PROVE  IsFiniteSet(Users(a)) /\ Cardinality(Users(a)) \in Nat
<1>1. IsFiniteSet(Users(a))
  <2>1. CASE engine = None
    BY <2>1, FS_EmptySet DEF Users
  <2>2. CASE engine # None
    <3>1. PICK n \in Nat : n = Len(engine.modules)
      BY <2>2, EngineIs
    <3>2. n - 1 \in Int
      OBVIOUS
    <3>3. IsFiniteSet(0..(n - 1))
      BY <3>2, FS_Interval
    <3>4. Users(a) \subseteq 0..(n - 1)
      BY <2>2, <3>1 DEF Users, Modules
    <3> QED BY <3>3, <3>4, FS_Subset
  <2> QED BY <2>1, <2>2
<1> QED BY <1>1, FS_CardinalityType

(* The engine stays, so does who uses an allocator.                        *)
LEMMA SameUsers ==
  ASSUME UNCHANGED engine, NEW a
  PROVE  (Users(a))' = Users(a)
BY DEF Users, Modules, At

(* What an allocator that the invariant counts holds. *)
LEMMA CountIs ==
  ASSUME Typed, Counted, NEW a \in Allocators
  PROVE  /\ allocators[a] \in AllocatorRecord
         /\ allocators[a].count = (IF allocators[a].handle = "live" THEN 1 ELSE 0) + Cardinality(Users(a))
         /\ allocators[a].handle = "none" => Cardinality(Users(a)) = 0
         /\ Cardinality(Users(a)) \in Nat
BY UsersAre, FS_EmptySet DEF Typed, Counted, AllocatorsCounted

(* spacewasm_allocator_new creates a handle that nothing uses yet.         *)
LEMMA AllocatorNewIs ==
  ASSUME IInv, NEW a \in Allocators, NEW callbacks \in BOOLEAN, NEW heap \in Heap,
         allocator_new(a, callbacks, heap)
  PROVE  IInv'
<1>1. /\ UNCHANGED <<engine, execution>> /\ UNCHANGED host
      /\ allocators[a].handle = "none"
      /\ \/ allocators' = [allocators EXCEPT ![a] = [handle |-> "live", count |-> 1]]
         \/ allocators' = allocators
  BY DEF allocator_new
<1>2. Typed /\ Counted
  BY DEF IInv, Owning
<1>3. allocators' \in [Allocators -> AllocatorRecord]
  BY <1>1, <1>2 DEF Typed, AllocatorRecord
<1>4. Counted'
  <2>1. ASSUME NEW b \in Allocators
        PROVE  /\ allocators'[b].count =
                    (IF allocators'[b].handle = "live" THEN 1 ELSE 0) + Cardinality(Users(b))
               /\ allocators'[b].handle = "none" => Users(b) = {}
    <3>1. CASE allocators' = allocators
      BY <1>2, <3>1 DEF Counted, AllocatorsCounted
    <3>2. CASE allocators' = [allocators EXCEPT ![a] = [handle |-> "live", count |-> 1]] /\ b = a
      <4>1. allocators'[b].handle = "live" /\ allocators'[b].count = 1
        BY <1>2, <3>2 DEF Typed
      <4>2. Cardinality(Users(b)) = 0
        BY <1>1, <1>2, <3>2, CountIs
      <4> QED BY <4>1, <4>2
    <3>3. CASE allocators' = [allocators EXCEPT ![a] = [handle |-> "live", count |-> 1]] /\ b # a
      <4>1. allocators'[b] = allocators[b]
        BY <1>2, <3>3 DEF Typed
      <4> QED BY <1>2, <4>1 DEF Counted, AllocatorsCounted
    <3> QED BY <1>1, <3>1, <3>2, <3>3
  <2>2. \A b : (Users(b))' = Users(b)
    BY <1>1, SameUsers
  <2> QED BY <2>1, <2>2 DEF Counted, AllocatorsCounted
<1>5. host' \in Host \cup {None} /\ HostSized' /\ ~Trapped'
  BY <1>1 DEF IInv, Owning, Typed, HostSized, allocator_new, Return, Trapped
<1> QED BY <1>1, <1>3, <1>4, <1>5, EngineKept

(* A record with another count.                                            *)
LEMMA CountedRecord ==
  ASSUME NEW r \in AllocatorRecord, NEW c \in Int, NEW s, s = [r EXCEPT !.count = c]
  PROVE  s \in AllocatorRecord /\ s.handle = r.handle /\ s.count = c
BY DEF AllocatorRecord

(* An allocator whose count goes up or down.                               *)
LEMMA CountChanges ==
  ASSUME NEW counts \in [Allocators -> AllocatorRecord], NEW a \in Allocators, NEW n \in Int,
         NEW new, new = [counts EXCEPT ![a].count = n]
  PROVE  /\ new \in [Allocators -> AllocatorRecord]
         /\ new[a].handle = counts[a].handle /\ new[a].count = n
         /\ \A b \in Allocators : b # a => new[b] = counts[b]
<1>1. PICK s : s = [counts[a] EXCEPT !.count = n]
  OBVIOUS
<1>2. s \in AllocatorRecord /\ s.handle = counts[a].handle /\ s.count = n
  BY <1>1, CountedRecord
<1>3. new = [counts EXCEPT ![a] = s]
  BY <1>1
<1> QED BY <1>2, <1>3

(* spacewasm_allocator_destroy gives up the count of the handle.           *)
LEMMA AllocatorDestroyIs ==
  ASSUME IInv, NEW a \in Allocators, allocator_destroy(a)
  PROVE  IInv'
<1>1. /\ UNCHANGED <<engine, execution>> /\ UNCHANGED host
      /\ allocators[a].handle = "live"
      /\ allocators' = Released(a, 1, [allocators EXCEPT ![a].handle = "destroyed"])
  BY DEF allocator_destroy
<1>2. Typed /\ Counted
  BY DEF IInv, Owning
<1>3. PICK old \in AllocatorRecord : old = allocators[a]
  BY <1>2 DEF Typed
<1>4. PICK new : new = [[old EXCEPT !.handle = "destroyed"] EXCEPT !.count = @ - 1]
  OBVIOUS
<1>5. /\ new \in AllocatorRecord /\ new.handle = "destroyed" /\ new.count = old.count - 1
      /\ allocators' = [allocators EXCEPT ![a] = new]
  <2>1. PICK mid \in AllocatorRecord : /\ mid = [old EXCEPT !.handle = "destroyed"]
                                       /\ mid.handle = "destroyed" /\ mid.count = old.count
    <3>1. PICK mid : mid = [old EXCEPT !.handle = "destroyed"]
      OBVIOUS
    <3>2. mid \in AllocatorRecord /\ mid.handle = "destroyed" /\ mid.count = old.count
      BY <3>1 DEF AllocatorRecord
    <3> QED BY <3>1, <3>2, Zenon
  <2>2. new = [mid EXCEPT !.count = @ - 1]
    BY <1>4, <2>1
  <2>3. new \in AllocatorRecord /\ new.handle = "destroyed" /\ new.count = old.count - 1
    <3>1. PICK c \in Int : c = old.count - 1
      BY DEF AllocatorRecord
    <3>2. new = [mid EXCEPT !.count = c]
      BY <2>1, <2>2, <3>1
    <3>3. new \in AllocatorRecord /\ new.handle = mid.handle /\ new.count = c
      BY <3>2, CountedRecord
    <3> QED BY <2>1, <3>1, <3>3
  <2>4. allocators' = [allocators EXCEPT ![a] = new]
    BY <1>1, <1>2, <1>3, <1>4 DEF Released, Typed
  <2> QED BY <2>3, <2>4
<1>6. allocators' \in [Allocators -> AllocatorRecord]
  BY <1>2, <1>5 DEF Typed
<1>7. Counted'
  <2>1. ASSUME NEW b \in Allocators
        PROVE  /\ allocators'[b].count =
                    (IF allocators'[b].handle = "live" THEN 1 ELSE 0) + Cardinality(Users(b))
               /\ allocators'[b].handle = "none" => Users(b) = {}
    <3>1. CASE b = a
      <4>1. allocators'[b] = new
        BY <1>2, <1>5, <3>1 DEF Typed
      <4>2. old.count = 1 + Cardinality(Users(a)) /\ Cardinality(Users(a)) \in Nat
        BY <1>1, <1>2, <1>3, CountIs
      <4> QED BY <1>5, <3>1, <4>1, <4>2
    <3>2. CASE b # a
      <4>1. allocators'[b] = allocators[b]
        BY <1>2, <1>5, <3>2 DEF Typed
      <4> QED BY <1>2, <4>1 DEF Counted, AllocatorsCounted
    <3> QED BY <3>1, <3>2
  <2>2. \A b : (Users(b))' = Users(b)
    BY <1>1, SameUsers
  <2> QED BY <2>1, <2>2 DEF Counted, AllocatorsCounted
<1>8. host' \in Host \cup {None} /\ HostSized' /\ ~Trapped'
  BY <1>1 DEF IInv, Owning, Typed, HostSized, allocator_destroy, Return, Trapped
<1> QED BY <1>1, <1>6, <1>7, <1>8, EngineKept

-----------------------------------------------------------------------------
(* The engine is created *)

(* While there is no engine nothing runs.                                  *)
LEMMA AtRest ==
  ASSUME IInv, engine = None
  PROVE  running = FALSE /\ callback = None /\ \A a : Users(a) = {}
BY DEF IInv, Running, Interrupted, Owning, Typed, Users

(* spacewasm_new creates an engine without modules.                        *)
LEMMA SpacewasmNewIs ==
  ASSUME IInv, NEW n \in StoreSizes, NEW given \in BOOLEAN, NEW out \in Pointer, NEW heap \in Heap,
         spacewasm_new(n, given, out, heap)
  PROVE  IInv'
<1> DEFINE refusal == <<ErrorIf(out = Null, "NULL_ARG"), ErrorIf(n > ModuleLimit, "VEC_TOO_LONG")>>
           refused == FirstError(refusal)
           checks == <<refused, Allocated(heap)>>
           new == [hosts |-> IF given THEN host.modules ELSE <<>>,
                   max_modules |-> n, modules |-> <<>>, code |-> 0,
                   call |-> None, pause |-> None, result |-> None, discarded |-> FALSE]
<1>1. /\ engine = None /\ (given => host # None)
      /\ host' = HostAfterNew(given, refused)
      /\ engine' = IF FirstError(checks) # OK THEN engine ELSE new
      /\ UNCHANGED <<allocators, execution>> /\ ~Trapped'
  BY DEF spacewasm_new, Return, Trapped
<1> HIDE DEF new, checks
<1>2. Typed /\ Counted /\ running = FALSE /\ callback = None /\ \A a : Users(a) = {}
  BY <1>1, AtRest DEF IInv, Owning
<1>3. host' = host \/ host' = None
  BY <1>1 DEF HostAfterNew
<1>4. host' \in Host \cup {None} /\ HostSized'
  BY <1>2, <1>3 DEF IInv, Owning, Typed, HostSized
<1>5. CASE FirstError(checks) # OK
  <2>1. UNCHANGED <<engine, execution>> /\ UNCHANGED allocators
    BY <1>1, <1>5
  <2>2. allocators' \in [Allocators -> AllocatorRecord] /\ Counted'
    BY <1>2, <2>1, SameUsers DEF Typed, Counted, AllocatorsCounted
  <2> QED BY <1>1, <1>4, <2>1, <2>2, EngineKept
<1>6. CASE FirstError(checks) = OK
  <2>1. engine' = new
    BY <1>1, <1>6
  <2>2. n <= ModuleLimit
    <3>1. checks[1] = OK
      <4>1. DOMAIN checks = 1..2
        BY DEF checks
      <4>2. \A i \in 1..2 : checks[i] = OK
        BY <1>6, <4>1, ChecksPass
      <4> QED BY <4>2
    <3>2. refused = OK
      BY <3>1 DEF checks
    <3>3. DOMAIN refusal = 1..2
      OBVIOUS
    <3>4. refusal[2] = OK
      <4> HIDE DEF refusal
      <4>1. \A i \in 1..2 : refusal[i] = OK
        BY <3>2, <3>3, ChecksPass
      <4> QED BY <4>1
    <3>5. ~(n > ModuleLimit)
      BY <3>4 DEF ErrorIf, OK
    <3>6. n \in Nat /\ ModuleLimit \in Nat
      BY CApiAssumption
    <3> QED BY <3>5, <3>6
  <2>3. PICK hs \in Seq(HostModule) : /\ hs = new.hosts
                                      /\ \A h \in ToSet(hs) : TypeOfHostModule(h)
    <3>1. CASE given
      <4>1. new.hosts = host.modules /\ host # None
        BY <1>1, <3>1 DEF new
      <4> QED BY <1>2, <4>1 DEF Typed, Host, IInv, Owning, HostSized
    <3>2. CASE ~given
      <4>1. new.hosts = <<>>
        BY <3>2 DEF new
      <4>2. <<>> \in Seq(HostModule) /\ ToSet(<<>>) = {}
        BY DEF ToSet
      <4> QED BY <4>1, <4>2
    <3> QED BY <3>1, <3>2
  <2>4. n \in Nat /\ CodeBudget \in Nat
    BY CApiAssumption
  <2>5. new \in EngineRecord /\ new # None
    <3>1. new = [hosts |-> hs, max_modules |-> n, modules |-> <<>>, code |-> 0,
                 call |-> None, pause |-> None, result |-> None, discarded |-> FALSE]
      BY <2>3 DEF new
    <3>2. new \in EngineRecord
      BY <2>4, <3>1 DEF EngineRecord
    <3> QED BY <3>2, Marks
  <2>6. /\ new.modules = <<>> /\ Len(new.modules) = 0 /\ new.code = 0 /\ new.max_modules = n
        /\ new.call = None /\ new.result = None
    BY DEF new
  <2>7. Typed'
    BY <1>1, <1>2, <1>4, <2>1, <2>5 DEF Typed, execution
  <2>8. \A a : (Users(a))' = {}
    BY <2>1, <2>6 DEF Users, Modules
  <2>9. Counted'
    BY <1>1, <1>2, <2>8 DEF Counted, AllocatorsCounted
  <2>10. EngineSized'
    <3>1. ToSet(new.modules) = {}
      BY <2>6 DEF ToSet
    <3> QED BY <2>1, <2>2, <2>3, <2>4, <2>6, <3>1 DEF EngineSized, Modules
  <2>11. Resolved' /\ Distinct'
    BY <2>1, <2>6 DEF Resolved, Distinct, Modules
  <2>12. Running'
    <3>1. new.discarded = FALSE
      BY DEF new
    <3> QED BY <1>1, <1>2, <2>1, <3>1 DEF IInv, Running, Interrupted, execution
  <2>13. Calling'
    BY <2>1, <2>6 DEF Calling
  <2> QED BY <1>4, <2>7, <2>9, <2>10, <2>11, <2>12, <2>13 DEF IInv, Owning
<1> QED BY <1>5, <1>6

-----------------------------------------------------------------------------
(* A module is loaded *)

(* The status of a list of checks is that of the first that fails.         *)
LEMMA FirstErrorIs ==
  ASSUME NEW n \in Nat, NEW checks, DOMAIN checks = 1..n, FirstError(checks) # OK
  PROVE  \E i \in 1..n : /\ checks[i] = FirstError(checks) /\ checks[i] # OK
                         /\ \A j \in 1..(i - 1) : checks[j] = OK
<1> DEFINE S == {i \in 1..n : checks[i] # OK}
           P(i) == i \in DOMAIN checks /\ checks[i] # OK /\ \A j \in 1..(i - 1) : checks[j] = OK
           c == CHOOSE i \in DOMAIN checks : checks[i] # OK /\ \A j \in 1..(i - 1) : checks[j] = OK
<1>1. PICK i0 \in DOMAIN checks : checks[i0] # OK
  BY DEF FirstError
<1>2. FirstError(checks) = checks[c]
  BY <1>1, Zenon DEF FirstError
<1>3. S \in SUBSET Nat /\ S # {}
  BY <1>1
<1>4. PICK i \in S : \A k \in S : i <= k
  BY <1>3, LeastNumber
<1>5. i \in DOMAIN checks /\ checks[i] # OK /\ \A k \in 1..(i - 1) : checks[k] = OK
  BY <1>4
<1>6. c \in DOMAIN checks /\ checks[c] # OK /\ \A j \in 1..(c - 1) : checks[j] = OK
  BY <1>5, Zenon
<1> QED BY <1>2, <1>6, Zenon

(* The checks of spacewasm_load_module. *)
LoadChecks(name, read, image, fault) ==
  <<LoadState, cstr(name), ErrorIf(read = Null, "NULL_ARG"),
    ErrorIf(fault.when = "early", parse_status(fault.error)),
    duplicate_name(name),
    FirstError([i \in DOMAIN image.imports |-> link_status(image.imports[i])]),
    ErrorIf(Linked(image.imports) /\ start_status(image) # OK, start_status(image)),
    ErrorIf(fault.when = "late", parse_status(fault.error)),
    ErrorIf(engine.code + image.words > CodeBudget, "OUT_OF_MEMORY"),
    ErrorIf(Len(Modules) >= engine.max_modules, "CAPACITY")>>

(* Their status. *)
LEMMA LoadStatusIs ==
  ASSUME NEW a, NEW name, NEW read, NEW image, NEW fault, a # Null, engine # None
  PROVE  /\ load_status(a, name, read, image, fault) = FirstError(LoadChecks(name, read, image, fault))
         /\ DOMAIN LoadChecks(name, read, image, fault) = 1..10
BY DEF load_status, LoadChecks

(* An image has finitely many imports, each of which has a status.         *)
LEMMA ImportsAre ==
  ASSUME NEW image \in Images
  PROVE  /\ Len(image.imports) \in Nat /\ DOMAIN image.imports = 1..Len(image.imports)
         /\ Len(image.globals) \in Nat /\ DOMAIN image.globals = 1..Len(image.globals)
         /\ image.words \in Nat /\ image.memory \in Nat
BY CApiAssumption DEF Image

(* What a load that succeeds found.                                        *)
LEMMA LoadPasses ==
  ASSUME Typed, NEW a, NEW name, NEW read, NEW image \in Images, NEW fault,
         load_status(a, name, read, image, fault) = OK
  PROVE  /\ a # Null /\ engine # None
         /\ duplicate_name(name) = OK
         /\ \A i \in 1..Len(image.imports) : link_status(image.imports[i]) = OK
         /\ start_status(image) = OK
         /\ ~(engine.code + image.words > CodeBudget) /\ ~(Len(Modules) >= engine.max_modules)
<1> DEFINE checks == LoadChecks(name, read, image, fault)
           links == [i \in DOMAIN image.imports |-> link_status(image.imports[i])]
<1>1. a # Null /\ engine # None
  BY DEF load_status, OK
<1>2. FirstError(checks) = OK /\ DOMAIN checks = 1..10
  BY <1>1, LoadStatusIs
<1> HIDE DEF checks
<1>3. \A i \in 1..10 : checks[i] = OK
  BY <1>2, ChecksPass
<1>4. checks[5] = OK /\ checks[6] = OK /\ checks[7] = OK /\ checks[9] = OK /\ checks[10] = OK
  BY <1>3
<1> USE DEF checks
<1>5. duplicate_name(name) = OK
  BY <1>4 DEF LoadChecks
<1>6. FirstError(links) = OK
  BY <1>4 DEF LoadChecks
<1>7. DOMAIN links = 1..Len(image.imports) /\ Len(image.imports) \in Nat
  BY ImportsAre
<1>8. \A i \in 1..Len(image.imports) : links[i] = OK
  <2> HIDE DEF links
  <2>1. PICK n \in Nat : n = Len(image.imports) /\ DOMAIN links = 1..n
    BY <1>7
  <2> QED BY <1>6, <2>1, ChecksPass
<1>9. \A i \in 1..Len(image.imports) : link_status(image.imports[i]) = OK
  BY <1>7, <1>8
<1>10. start_status(image) = OK
  <2>1. Linked(image.imports)
    BY <1>9, ImportsAre DEF Linked
  <2> QED BY <1>4, <2>1 DEF LoadChecks, ErrorIf
<1>11. ErrorIf(engine.code + image.words > CodeBudget, "OUT_OF_MEMORY") = OK
       /\ ErrorIf(Len(Modules) >= engine.max_modules, "CAPACITY") = OK
  BY <1>4 DEF LoadChecks
<1>12. ~(engine.code + image.words > CodeBudget) /\ ~(Len(Modules) >= engine.max_modules)
  BY <1>11 DEF ErrorIf, OK
<1> QED BY <1>1, <1>5, <1>9, <1>10, <1>12

(* A load that found the store full had room for the code.                 *)
LEMMA CapacityIsLast ==
  ASSUME Typed, Resolved, engine # None, NEW a, NEW l \in LoadArgs,
         load_status(a, l.name, l.read, l.image, l.fault) = "CAPACITY"
  PROVE  ~(engine.code + l.image.words > CodeBudget)
<1> DEFINE checks == LoadChecks(l.name, l.read, l.image, l.fault)
           links == [i \in DOMAIN l.image.imports |-> link_status(l.image.imports[i])]
<1>1. FirstError(checks) = "CAPACITY" /\ DOMAIN checks = 1..10 /\ FirstError(checks) # OK
  <2>1. a # Null
    BY DEF load_status
  <2> QED BY <2>1, LoadStatusIs DEF OK
<1>2. PICK i \in 1..10 : checks[i] = "CAPACITY" /\ \A j \in 1..(i - 1) : checks[j] = OK
  <2> HIDE DEF checks
  <2>1. \E i \in 1..10 : /\ checks[i] = FirstError(checks) /\ checks[i] # OK
                         /\ \A j \in 1..(i - 1) : checks[j] = OK
    BY <1>1, FirstErrorIs
  <2> QED BY <1>1, <2>1
<1>3. parse_status(l.fault.error) # "CAPACITY"
  BY CApiAssumption DEF parse_status, alloc_status, AllocErrors
<1>4. /\ checks[1] # "CAPACITY" /\ checks[3] # "CAPACITY" /\ checks[9] # "CAPACITY"
  BY DEF LoadChecks, ErrorIf, LoadState, OK
<1>5. checks[2] # "CAPACITY"
  BY DEF LoadChecks, cstr, OK
<1>6. checks[4] # "CAPACITY" /\ checks[8] # "CAPACITY"
  BY <1>3 DEF LoadChecks, ErrorIf, OK
<1>7. checks[5] # "CAPACITY"
  BY DEF LoadChecks, duplicate_name, ErrorIf, OK
<1>8. checks[7] # "CAPACITY"
  <2>1. start_status(l.image) # "CAPACITY"
    BY DEF start_status, ErrorIf, OK
  <2> QED BY <2>1 DEF LoadChecks, ErrorIf, OK
<1>9. FirstError(links) # "CAPACITY"
  <2>1. l.image \in Images
    BY CApiAssumption
  <2>2. PICK n \in Nat : n = Len(l.image.imports) /\ DOMAIN links = 1..n
    BY <2>1, ImportsAre
  <2>3. \A k \in 1..n : links[k] \in {OK} \cup LinkErrors
    BY <2>1, <2>2, LinkStatusIs
  <2> HIDE DEF links
  <2>4. CASE FirstError(links) # OK
    <3>1. PICK k \in 1..n : links[k] = FirstError(links)
      BY <2>2, <2>4, FirstErrorIs
    <3> QED BY <2>3, <3>1 DEF LinkErrors, OK
  <2>5. CASE FirstError(links) = OK
    BY <2>5 DEF OK
  <2> QED BY <2>4, <2>5
<1>10. checks[6] # "CAPACITY"
  BY <1>9 DEF LoadChecks
<1> HIDE DEF checks
<1>11. i = 10
  BY <1>2, <1>4, <1>5, <1>6, <1>7, <1>8, <1>10
<1>12. checks[9] = OK
  BY <1>2, <1>11
<1> USE DEF checks
<1>13. ErrorIf(engine.code + l.image.words > CodeBudget, "OUT_OF_MEMORY") = OK
  BY <1>12 DEF LoadChecks
<1> QED BY <1>13 DEF ErrorIf, OK

(* The code of a load fits into the budget, of a refused one too.          *)
LEMMA EmittedFits ==
  ASSUME Typed, Resolved, EngineSized, engine # None, NEW a, NEW l \in LoadArgs,
         NEW n, n \in Emitted(load_status(a, l.name, l.read, l.image, l.fault), l.image, l.fault)
  PROVE  n \in Nat /\ engine.code + n \in Nat /\ engine.code + n <= CodeBudget
<1>1. PICK status : status = load_status(a, l.name, l.read, l.image, l.fault)
  OBVIOUS
<1>2. l.image \in Images
  BY CApiAssumption
<1>3. PICK w \in Nat : w = l.image.words
  BY <1>2, ImportsAre
<1>4. PICK c \in Nat : c = engine.code
  BY EngineIs
<1>5. CodeBudget \in Nat /\ c <= CodeBudget
  BY <1>4, CApiAssumption DEF EngineSized
<1>6. CASE status \in {OK, "CAPACITY"}
  <2>1. ~(c + w > CodeBudget)
    <3>1. CASE status = OK
      BY <1>1, <1>2, <1>3, <1>4, <3>1, LoadPasses
    <3>2. CASE status = "CAPACITY"
      BY <1>1, <1>3, <1>4, <3>2, CapacityIsLast
    <3> QED BY <1>6, <3>1, <3>2
  <2>2. n = w
    BY <1>1, <1>3, <1>6 DEF Emitted
  <2> QED BY <1>3, <1>4, <1>5, <2>1, <2>2
<1>7. CASE status \notin {OK, "CAPACITY"}
  <2> DEFINE room == CodeBudget - engine.code
             compiled == IF l.image.words <= room THEN l.image.words ELSE room
  <2>1. n \in 0..compiled \/ n = room \/ n = 0
    BY <1>1, <1>7 DEF Emitted
  <2>2. room = CodeBudget - c /\ compiled = IF w <= room THEN w ELSE room
    BY <1>3, <1>4
  <2> HIDE DEF room, compiled
  <2> QED BY <1>3, <1>4, <1>5, <2>1, <2>2
<1> QED BY <1>6, <1>7

(* Two counts that are the same. *)
LEMMA SameRecord ==
  ASSUME NEW r \in AllocatorRecord, NEW s \in AllocatorRecord, r.handle = s.handle, r.count = s.count
  PROVE  r = s
BY DEF AllocatorRecord

(* A clone that is dropped leaves the counts as they were.                 *)
LEMMA ClonedAndReleased ==
  ASSUME NEW counts \in [Allocators -> AllocatorRecord], NEW a \in Allocators
  PROVE  Released(a, 1, allocator_clone_rc(a, counts)) = counts
<1>1. PICK n \in Int : n = counts[a].count
  BY DEF AllocatorRecord
<1>2. PICK cloned : cloned = [counts EXCEPT ![a].count = n + 1]
  OBVIOUS
<1>3. n + 1 \in Int
  OBVIOUS
<1>4. /\ cloned \in [Allocators -> AllocatorRecord]
      /\ cloned[a].handle = counts[a].handle /\ cloned[a].count = n + 1
      /\ \A b \in Allocators : b # a => cloned[b] = counts[b]
  BY <1>2, <1>3, CountChanges
<1>5. PICK new : new = [cloned EXCEPT ![a].count = n]
  OBVIOUS
<1>6. /\ new \in [Allocators -> AllocatorRecord]
      /\ new[a].handle = cloned[a].handle /\ new[a].count = n
      /\ \A b \in Allocators : b # a => new[b] = cloned[b]
  BY <1>4, <1>5, CountChanges
<1>7. new[a] = counts[a]
  <2>1. new[a] \in AllocatorRecord /\ counts[a] \in AllocatorRecord
    BY <1>6
  <2>2. new[a].handle = counts[a].handle /\ new[a].count = counts[a].count
    BY <1>1, <1>4, <1>6
  <2> QED BY <2>1, <2>2, SameRecord
<1>8. new = counts
  BY <1>4, <1>6, <1>7
<1>9. allocator_clone_rc(a, counts) = cloned
  BY <1>1, <1>2 DEF allocator_clone_rc
<1>10. Released(a, 1, cloned) = new
  <2>1. cloned[a].count - 1 = n
    BY <1>1, <1>4
  <2> QED BY <1>4, <1>5, <2>1 DEF Released
<1> QED BY <1>8, <1>9, <1>10

(* A step of the program that leaves the pending call and its result.      *)
LEMMA Undisturbed ==
  ASSUME IInv, Typed', Grows, UNCHANGED execution, ~Trapped',
         engine'.call = engine.call, engine'.pause = engine.pause, engine'.result = engine.result,
         engine'.discarded = engine.discarded
  PROVE  Running' /\ Calling'
<1>1. Typed /\ engine # None /\ engine' # None
  BY DEF IInv, Owning, Grows
<1>2. /\ HostRefs' = HostRefs
      /\ \A c \in Call : HasFunction(c.module, c.index) => (HasFunction(c.module, c.index))'
  BY <1>1, GrowsIs
<1>3. Running'
  BY RunningKept
<1>4. Calling'
  <2>1. engine.call # None => engine.call \in Call
    BY <1>1, EngineIs
  <2> QED BY <1>1, <1>2, <2>1 DEF IInv, Calling
<1> QED BY <1>3, <1>4

(* A load that is refused leaves at most code behind.                      *)
LEMMA LoadRefusedIs ==
  ASSUME IInv, NEW a \in Allocators \cup {Null}, NEW l \in LoadArgs,
         load_module(a, l.name, l.read, l.image, l.fault),
         load_status(a, l.name, l.read, l.image, l.fault) # OK
  PROVE  /\ IInv' /\ UNCHANGED allocators
         /\ \/ engine = None /\ engine' = None
            \/ Retains /\ \E n \in Nat : engine' = [engine EXCEPT !.code = n]
<1> DEFINE status == load_status(a, l.name, l.read, l.image, l.fault)
<1>1. /\ UNCHANGED host /\ UNCHANGED execution /\ ~Trapped'
      /\ allocators' = IF a = Null THEN allocators ELSE Released(a, 1, allocator_clone_rc(a, allocators))
      /\ IF engine = None THEN engine' = engine
         ELSE \E n \in Emitted(status, l.image, l.fault) :
                engine' = [engine EXCEPT !.code = @ + n, !.modules = @]
  BY DEF load_module, Return, Trapped
<1>2. Typed /\ Owning
  BY DEF IInv, Owning
<1>3. allocators' = allocators
  <2>1. CASE a = Null
    BY <1>1, <2>1
  <2>2. CASE a # Null
    <3>1. allocators \in [Allocators -> AllocatorRecord] /\ a \in Allocators
      BY <1>2, <2>2 DEF Typed
    <3> QED BY <1>1, <2>2, <3>1, ClonedAndReleased
  <2> QED BY <2>1, <2>2
<1>4. CASE engine = None
  <2>1. UNCHANGED <<allocators, engine, execution>> /\ engine' = None
    BY <1>1, <1>3, <1>4
  <2>2. host' \in Host \cup {None} /\ HostSized'
    BY <1>1, <1>2 DEF Typed, Owning, HostSized
  <2> QED BY <1>1, <1>3, <1>4, <2>1, <2>2, HostChanges
<1>5. CASE engine # None
  <2>1. PICK n \in Emitted(status, l.image, l.fault) :
          engine' = [engine EXCEPT !.code = @ + n, !.modules = @]
    BY <1>1, <1>5
  <2>2. PICK c : c = engine.code + n /\ c \in Nat /\ c <= CodeBudget
    BY <1>2, <1>5, EmittedFits DEF Owning
  <2>3. engine' = [engine EXCEPT !.code = c]
    BY <1>2, <1>5, <2>1, <2>2 DEF Typed, EngineRecord
  <2>4. /\ Retains /\ engine'.code = c
        /\ engine'.call = engine.call /\ engine'.pause = engine.pause /\ engine'.result = engine.result
        /\ engine'.discarded = engine.discarded
    BY <1>2, <1>5, <2>2, <2>3 DEF Typed, EngineRecord, Retains
  <2>5. Typed'
    BY <1>1, <1>2, <1>3, <2>4 DEF Typed, execution, Retains
  <2>6. Owning'
    BY <1>1, <1>2, <1>3, <2>2, <2>4, <2>5, RetainsOwning
  <2>7. Grows
    BY <1>2, <2>4, RetainsGrows
  <2>8. Running' /\ Calling'
    BY <1>1, <2>4, <2>5, <2>7, Undisturbed
  <2> QED BY <1>3, <2>2, <2>3, <2>4, <2>6, <2>8 DEF IInv
<1> QED BY <1>4, <1>5

(* The engine with one more module. *)
LEMMA AppendGrows ==
  ASSUME Typed, engine # None, NEW new \in Module, NEW n \in Nat, NEW ms,
         ms = Append(engine.modules, new),
         engine' = [[engine EXCEPT !.code = n] EXCEPT !.modules = ms]
  PROVE  /\ engine' \in EngineRecord /\ engine'.modules = ms /\ engine'.code = n
         /\ engine'.call = engine.call /\ engine'.pause = engine.pause /\ engine'.result = engine.result
         /\ engine'.discarded = engine.discarded
         /\ engine'.max_modules = engine.max_modules
         /\ Grows /\ Len(ms) = Len(engine.modules) + 1 /\ ms[Len(engine.modules) + 1] = new
         /\ \A i \in 1..Len(engine.modules) : ms[i] = engine.modules[i]
         /\ \A y \in ToSet(ms) : y \in ToSet(engine.modules) \/ y = new
<1>1. engine \in EngineRecord /\ engine.modules \in Seq(Module) /\ Len(engine.modules) \in Nat
  BY EngineIs
<1>2. /\ ms \in Seq(Module) /\ Len(ms) = Len(engine.modules) + 1 /\ ms[Len(engine.modules) + 1] = new
      /\ \A i \in 1..Len(engine.modules) : ms[i] = engine.modules[i]
  BY <1>1, AppendProperties
<1>3. \A y \in ToSet(ms) : y \in ToSet(engine.modules) \/ y = new
  BY <1>1, AppendedElements
<1>4. PICK mid : mid = [engine EXCEPT !.code = n]
  OBVIOUS
<1>5. mid \in EngineRecord /\ mid.code = n /\ mid.hosts = engine.hosts
      /\ mid.call = engine.call /\ mid.pause = engine.pause /\ mid.result = engine.result
      /\ mid.discarded = engine.discarded
      /\ mid.max_modules = engine.max_modules
  BY <1>1, <1>4 DEF EngineRecord
<1>6. engine' \in EngineRecord /\ engine'.modules = ms /\ engine'.code = n /\ engine'.hosts = engine.hosts
      /\ engine'.call = engine.call /\ engine'.pause = engine.pause /\ engine'.result = engine.result
      /\ engine'.discarded = engine.discarded
      /\ engine'.max_modules = engine.max_modules
  BY <1>2, <1>4, <1>5 DEF EngineRecord
<1>7. Grows
  BY <1>1, <1>2, <1>6, Marks DEF Grows, SameModule
<1> QED BY <1>2, <1>3, <1>6, <1>7

(* The references of imports that link, and the module they make.          *)
LEMMA LinkedImports ==
  ASSUME Typed, Resolved, engine # None, NEW image \in Images,
         \A i \in 1..Len(image.imports) : link_status(image.imports[i]) = OK
  PROVE  /\ Link(image.imports) \in Seq(Ref) /\ Len(Link(image.imports)) = Len(image.imports)
         /\ \A i \in 1..Len(image.imports) :
              /\ Link(image.imports)[i] = link_function(image.imports[i])
              /\ Link(image.imports)[i] \in Ref /\ Resolves(Link(image.imports)[i])
<1>1. PICK n \in Nat : n = Len(image.imports) /\ DOMAIN image.imports = 1..n
  BY ImportsAre
<1>2. PICK xs : xs = Link(image.imports)
  OBVIOUS
<1>3. \A i \in 1..n : link_function(image.imports[i]) \in Ref /\ Resolves(link_function(image.imports[i]))
  BY <1>1, LinkStatusIs
<1>4. xs \in [1..n -> Ref] /\ \A i \in 1..n : xs[i] = link_function(image.imports[i])
  BY <1>1, <1>2, <1>3 DEF Link
<1>5. xs \in Seq(Ref) /\ Len(xs) = n
  BY <1>4
<1> QED BY <1>1, <1>2, <1>3, <1>4, <1>5

(* The globals of a module as loaded.                                      *)
LEMMA LoadedGlobals ==
  ASSUME NEW image \in Images, NEW gs,
         gs = [g \in DOMAIN image.globals |-> [tag |-> image.globals[g].ty, v |-> 0]]
  PROVE  /\ gs \in Seq([tag : Types, v : 0..1]) /\ Len(gs) = Len(image.globals)
         /\ \A g \in DOMAIN gs : gs[g].tag = image.globals[g].ty /\ gs[g].v = 0
<1>1. PICK n \in Nat : n = Len(image.globals) /\ DOMAIN image.globals = 1..n
  BY ImportsAre
<1>2. \A g \in 1..n : image.globals[g].ty \in Types
  <2>1. PICK xs \in Seq([ty : Types, mutable : BOOLEAN]) : xs = image.globals
    BY CApiAssumption DEF Image
  <2>2. ASSUME NEW g \in 1..Len(xs) PROVE xs[g].ty \in Types
    <3>1. PICK x \in [ty : Types, mutable : BOOLEAN] : x = xs[g]
      <4> DEFINE R == [ty : Types, mutable : BOOLEAN]
      <4>1. \A i \in 1..Len(xs) : xs[i] \in R
        <5> HIDE DEF R
        <5>1. xs \in Seq(R)
          BY <2>1 DEF R
        <5> QED BY <5>1
      <4> QED BY <4>1
    <3>2. x.ty \in Types
      BY DEF Types
    <3> QED BY <3>1, <3>2
  <2> QED BY <1>1, <2>1, <2>2
<1>3. gs \in [1..n -> [tag : Types, v : 0..1]]
  BY <1>1, <1>2
<1> QED BY <1>1, <1>3

(* The new module is one of the engine like the others.                    *)
LEMMA LoadedIsGood ==
  ASSUME Typed, Typed', Resolved, Grows, NEW image \in Images, NEW new \in Module,
         new.image = image, new.imports = Link(image.imports), Len(new.globals) = Len(image.globals),
         \A i \in 1..Len(image.imports) : link_status(image.imports[i]) = OK,
         start_status(image) = OK,
         NEW m \in Nat, m < Len(engine'.modules), At(engine'.modules, m) = new
  PROVE  (GoodModule(m))'
<1>1. engine # None /\ engine' # None
  BY DEF Grows
<1>2. PICK n \in Nat : n = Len(image.imports) /\ DOMAIN image.imports = 1..n
  BY ImportsAre
<1>3. /\ new.imports \in Seq(Ref) /\ Len(new.imports) = n
      /\ \A i \in 1..n : /\ new.imports[i] = link_function(image.imports[i])
                         /\ new.imports[i] \in Ref /\ Resolves(new.imports[i])
  BY <1>1, <1>2, LinkedImports
<1>4. ASSUME NEW i \in 1..n PROVE (Resolves(new.imports[i]))'
  <2>1. PICK ref \in Ref : ref = new.imports[i] /\ Resolves(ref)
    BY <1>3
  <2>2. (Resolves(ref))'
    BY <2>1, StillResolves
  <2> QED BY <2>1, <2>2
<1>5. ASSUME image.start # None PROVE (Starts(get_func_ref(m, image.start)))'
  <2>1. PICK x \in Nat : x = image.start /\ x < n + Len(image.functions)
    BY <1>2, <1>5, CApiAssumption DEF Image, ValidImage
  <2>2. Len(image.functions) \in Nat
    BY CApiAssumption DEF Image
  <2>3. CASE x < n
    <3>1. PICK i \in 1..n : i = x + 1
      BY <2>3
    <3>2. PICK ref \in Ref : ref = new.imports[i] /\ ref = link_function(image.imports[i]) /\ Resolves(ref)
      BY <1>3
    <3>3. (get_func_ref(m, image.start))' = ref
      BY <1>2, <1>3, <2>1, <2>3, <3>1, <3>2 DEF get_func_ref, Modules, At
    <3>4. link_function(At(image.imports, image.start)) = ref
      BY <2>1, <3>1, <3>2 DEF At
    <3>5. ref.kind # "Host" /\ TypeOf(ref).params = <<>>
      BY <1>2, <1>5, <2>1, <2>3, <3>4 DEF start_status, ErrorIf, OK
    <3>6. ref.kind = "Wasm" /\ FunctionAt(ref).params = <<>>
      BY <3>5 DEF Ref, TypeOf
    <3>7. (Resolves(ref))' /\ (FunctionAt(ref))' = FunctionAt(ref)
      BY <3>2, <3>6, StillResolves
    <3>8. (Starts(ref))'
      BY <3>6, <3>7 DEF Starts
    <3> QED BY <3>3, <3>8
  <2>4. CASE ~(x < n)
    <3>1. PICK y \in Nat : y = x - n /\ y < Len(image.functions)
      <4>1. x - n \in Nat /\ x - n < Len(image.functions)
        BY <2>1, <2>2, <2>4
      <4> QED BY <4>1, Zenon
    <3>2. (get_func_ref(m, image.start))' = WasmRef(m, y)
      BY <1>3, <2>1, <2>4, <3>1 DEF get_func_ref, Modules
    <3>3. At(image.functions, y).params = <<>>
      BY <1>2, <1>5, <2>1, <2>4, <3>1 DEF start_status, ErrorIf, OK
    <3>4. (FunctionAt(WasmRef(m, y)))' = At(image.functions, y)
      BY DEF FunctionAt, WasmRef, Modules
    <3>5. (HasFunction(m, y))'
      BY <1>1, <3>1 DEF HasFunction, HasModule, Within, Modules
    <3>6. (Starts(WasmRef(m, y)))'
      BY <3>3, <3>4, <3>5 DEF Starts, Resolves, WasmRef
    <3> QED BY <3>2, <3>6
  <2> QED BY <2>3, <2>4
<1>6. Len(new.imports) = Len(new.image.imports) /\ Len(new.globals) = Len(new.image.globals)
  BY <1>2, <1>3
<1> QED BY <1>2, <1>3, <1>4, <1>5, <1>6 DEF GoodModule, Modules

(* A load that succeeds adds a module, whose imports it resolved, and its  *)
(* allocator counts the memory.                                            *)
LEMMA LoadSucceedsIs ==
  ASSUME IInv, NEW a \in Allocators \cup {Null}, NEW l \in LoadArgs,
         load_module(a, l.name, l.read, l.image, l.fault),
         load_status(a, l.name, l.read, l.image, l.fault) = OK
  PROVE  IInv'
<1> DEFINE status == load_status(a, l.name, l.read, l.image, l.fault)
           kept == l.image.memory > 0
           cloned == allocator_clone_rc(a, allocators)
           globals == [g \in DOMAIN l.image.globals |-> [tag |-> l.image.globals[g].ty, v |-> 0]]
           new == [name |-> l.name, image |-> l.image, imports |-> Link(l.image.imports),
                   allocator |-> IF kept THEN a ELSE None, globals |-> globals]
           ms == Append(engine.modules, new)
<1>1. Typed /\ Owning /\ EngineSized /\ Resolved /\ Distinct /\ Counted
  BY DEF IInv, Owning
<1>2. l.image \in Images /\ l.name \in Strings
  BY CApiAssumption
<1>3. /\ a \in Allocators /\ engine # None
      /\ duplicate_name(l.name) = OK
      /\ \A i \in 1..Len(l.image.imports) : link_status(l.image.imports[i]) = OK
      /\ start_status(l.image) = OK
      /\ ~(engine.code + l.image.words > CodeBudget) /\ ~(Len(Modules) >= engine.max_modules)
  BY <1>1, <1>2, LoadPasses
<1>4. engine.call = None
  <2> DEFINE checks == LoadChecks(l.name, l.read, l.image, l.fault)
  <2>1. FirstError(checks) = OK /\ DOMAIN checks = 1..10
    BY <1>3, LoadStatusIs, Marks
  <2> HIDE DEF checks
  <2>2. \A i \in 1..10 : checks[i] = OK
    BY <2>1, ChecksPass
  <2>3. checks[1] = OK
    BY <2>2
  <2>4. LoadState = OK
    BY <2>3 DEF checks, LoadChecks
  <2> QED BY <2>4 DEF LoadState, ErrorIf, Idle, OK
<1>5. /\ UNCHANGED host /\ UNCHANGED execution /\ ~Trapped'
      /\ allocators[a].handle = "live"
      /\ allocators' = IF kept THEN cloned ELSE Released(a, 1, cloned)
      /\ \E n \in Emitted(status, l.image, l.fault) :
           engine' = [engine EXCEPT !.code = @ + n, !.modules = ms]
  BY <1>3, Marks DEF load_module, Return, Trapped
<1>6. PICK c \in Nat : c <= CodeBudget /\ engine' = [[engine EXCEPT !.code = c] EXCEPT !.modules = ms]
  <2>1. PICK n \in Emitted(status, l.image, l.fault) :
          engine' = [engine EXCEPT !.code = @ + n, !.modules = ms]
    BY <1>5
  <2>2. PICK c : c = engine.code + n /\ c \in Nat /\ c <= CodeBudget
    BY <1>1, <1>3, EmittedFits
  <2> HIDE DEF ms
  <2> QED BY <1>1, <1>3, <2>1, <2>2
<1>7. PICK md \in Module :
        /\ md = new /\ md.name = l.name /\ md.image = l.image /\ md.imports = Link(l.image.imports)
        /\ md.allocator = (IF kept THEN a ELSE None)
        /\ Len(md.globals) = Len(l.image.globals)
        /\ \A g \in DOMAIN md.globals : md.globals[g].tag = l.image.globals[g].ty /\ md.globals[g].v = 0
  <2>1. PICK gs : gs = globals
    OBVIOUS
  <2>2. /\ gs \in Seq([tag : Types, v : 0..1]) /\ Len(gs) = Len(l.image.globals)
        /\ \A g \in DOMAIN gs : gs[g].tag = l.image.globals[g].ty /\ gs[g].v = 0
    BY <1>2, <2>1, LoadedGlobals
  <2>3. Link(l.image.imports) \in Seq(Ref)
    BY <1>1, <1>2, <1>3, LinkedImports
  <2>4. PICK md : md = new
    OBVIOUS
  <2>5. /\ md.name = l.name /\ md.image = l.image /\ md.imports = Link(l.image.imports)
        /\ md.allocator = (IF kept THEN a ELSE None) /\ md.globals = gs
    BY <2>1, <2>4
  <2>6. md \in Module
    <3> HIDE DEF kept, globals
    <3>1. md = [name |-> l.name, image |-> l.image, imports |-> Link(l.image.imports),
                allocator |-> IF kept THEN a ELSE None, globals |-> gs]
      BY <2>1, <2>4
    <3>2. (IF kept THEN a ELSE None) \in Allocators \cup {None}
      BY <1>3
    <3> QED BY <1>2, <2>2, <2>3, <3>1, <3>2 DEF Module
  <2> HIDE DEF new
  <2> QED BY <2>2, <2>4, <2>5, <2>6, Zenon
<1> HIDE DEF new, globals
<1>8. PICK xs : xs = ms /\ xs = Append(engine.modules, md)
  BY <1>7
<1> HIDE DEF ms
<1>9. engine' = [[engine EXCEPT !.code = c] EXCEPT !.modules = xs]
  BY <1>6, <1>8
<1>10. /\ engine' \in EngineRecord /\ engine'.modules = xs /\ engine'.code = c
       /\ engine'.call = engine.call /\ engine'.pause = engine.pause /\ engine'.result = engine.result
       /\ engine'.discarded = engine.discarded
       /\ engine'.max_modules = engine.max_modules
       /\ Grows /\ Len(xs) = Len(engine.modules) + 1 /\ xs[Len(engine.modules) + 1] = md
       /\ \A i \in 1..Len(engine.modules) : xs[i] = engine.modules[i]
       /\ \A y \in ToSet(xs) : y \in ToSet(engine.modules) \/ y = md
  BY <1>1, <1>3, <1>8, <1>9, AppendGrows
<1>11. PICK n \in Nat : n = Len(engine.modules)
  BY <1>1, <1>3, EngineIs
<1>12. engine' # None /\ \A m \in 0..(n - 1) : At(engine'.modules, m) = At(engine.modules, m)
  <2>1. engine' # None
    BY <1>10, Marks
  <2>2. \A m \in 0..(n - 1) : m + 1 \in 1..n
    OBVIOUS
  <2> QED BY <1>10, <1>11, <2>1, <2>2 DEF At
<1>13. At(engine'.modules, n) = md
  BY <1>10, <1>11 DEF At
<1>14. allocators' \in [Allocators -> AllocatorRecord] /\ \A b \in Allocators :
         /\ allocators'[b].handle = allocators[b].handle
         /\ allocators'[b].count = allocators[b].count + (IF kept /\ b = a THEN 1 ELSE 0)
  <2>1. allocators \in [Allocators -> AllocatorRecord] /\ \A b \in Allocators : allocators[b].count \in Int
    BY <1>1 DEF Typed, AllocatorRecord
  <2>2. CASE kept
    <3>1. PICK k \in Int : k = allocators[a].count + 1
      BY <1>3, <2>1
    <3>2. allocators' = [allocators EXCEPT ![a].count = k]
      BY <1>5, <2>2, <3>1 DEF allocator_clone_rc
    <3>3. /\ allocators' \in [Allocators -> AllocatorRecord]
          /\ allocators'[a].handle = allocators[a].handle /\ allocators'[a].count = k
          /\ \A b \in Allocators : b # a => allocators'[b] = allocators[b]
      BY <1>3, <2>1, <3>2, CountChanges
    <3> QED BY <2>1, <2>2, <3>1, <3>3
  <2>3. CASE ~kept
    <3>1. allocators' = allocators
      BY <1>3, <1>5, <2>1, <2>3, ClonedAndReleased
    <3> QED BY <2>1, <2>3, <3>1
  <2> QED BY <2>2, <2>3
<1>15. Typed'
  BY <1>1, <1>5, <1>10, <1>14 DEF Typed, execution
<1>16. HostSized'
  BY <1>1, <1>5 DEF Owning, HostSized
<1>17. EngineSized'
  <2>1. TypeOfGlobals(md)
    BY <1>7 DEF TypeOfGlobals
  <2>2. n + 1 <= engine.max_modules
    <3>1. engine.max_modules \in Nat
      BY <1>1, <1>3, EngineIs
    <3> QED BY <1>3, <1>11, <3>1 DEF Modules
  <2> QED BY <1>1, <1>3, <1>6, <1>10, <1>11, <1>12, <2>1, <2>2 DEF EngineSized, Modules, Grows
<1>18. Resolved'
  <2>1. ASSUME NEW m \in 0..(n - 1) PROVE (GoodModule(m))'
    <3>1. m \in 0..(Len(engine.modules) - 1) /\ GoodModule(m)
      BY <1>1, <1>3, <1>11 DEF Resolved, Modules
    <3> QED BY <1>1, <1>10, <1>15, <3>1, StillGood
  <2>2. (GoodModule(n))'
    BY <1>1, <1>2, <1>3, <1>7, <1>10, <1>11, <1>13, <1>15, LoadedIsGood
  <2>3. Len(engine'.modules) - 1 = n
    BY <1>10, <1>11
  <2>4. \A m \in 0..n : m \in 0..(n - 1) \/ m = n
    OBVIOUS
  <2> QED BY <1>10, <2>1, <2>2, <2>3, <2>4 DEF Resolved, Modules
<1>19. Distinct'
  <2>1. \A m \in 0..(n - 1) : At(engine.modules, m).name # l.name
    BY <1>3, <1>11 DEF duplicate_name, ErrorIf, OK, Modules
  <2>2. \A m, k \in 0..(n - 1) : m # k => At(engine.modules, m).name # At(engine.modules, k).name
    BY <1>1, <1>3, <1>11 DEF Distinct, Modules
  <2>3. Len(engine'.modules) - 1 = n
    BY <1>10, <1>11
  <2>4. \A m \in 0..n : m \in 0..(n - 1) \/ m = n
    OBVIOUS
  <2>5. ASSUME NEW m \in 0..n, NEW k \in 0..n, m # k
        PROVE  At(engine'.modules, m).name # At(engine'.modules, k).name
    BY <1>7, <1>12, <1>13, <2>1, <2>2, <2>4, <2>5
  <2> QED BY <2>3, <2>5 DEF Distinct, Modules
<1>20. Counted'
  <2>1. ASSUME NEW b \in Allocators
        PROVE  (Users(b))' = Users(b) \cup (IF kept /\ b = a THEN {n} ELSE {}) /\ n \notin Users(b)
    <3>1. b # None
      BY Marks
    <3>2. Users(b) = {m \in 0..(n - 1) : At(engine.modules, m).allocator = b}
      BY <1>3, <1>11 DEF Users, Modules
    <3>3. (Users(b))' = {m \in 0..n : At(engine'.modules, m).allocator = b}
      <4>1. Len(engine'.modules) - 1 = n
        BY <1>10, <1>11
      <4> QED BY <1>12, <4>1 DEF Users, Modules
    <3>4. md.allocator = b <=> kept /\ b = a
      BY <1>7, <3>1
    <3>5. \A m \in 0..n : (m \in 0..(n - 1) /\ m # n) \/ m = n
      OBVIOUS
    <3>6. n \notin 0..(n - 1) /\ \A m \in 0..(n - 1) : m \in 0..n /\ n \in 0..n
      OBVIOUS
    <3>7. n \in 0..n
      OBVIOUS
    <3> HIDE DEF kept
    <3> QED BY <1>12, <1>13, <3>2, <3>3, <3>4, <3>5, <3>6, <3>7
  <2>2. ASSUME NEW b \in Allocators
        PROVE  /\ allocators'[b].count =
                    (IF allocators'[b].handle = "live" THEN 1 ELSE 0) + Cardinality((Users(b))')
               /\ allocators'[b].handle = "none" => (Users(b))' = {}
    <3>1. /\ allocators[b].count = (IF allocators[b].handle = "live" THEN 1 ELSE 0) + Cardinality(Users(b))
          /\ allocators[b].handle = "none" => Users(b) = {}
          /\ Cardinality(Users(b)) \in Nat /\ IsFiniteSet(Users(b))
      BY <1>1, CountIs, UsersAre DEF Counted
    <3>2. CASE kept /\ b = a
      <4>1. (Users(b))' = Users(b) \cup {n} /\ n \notin Users(b)
        BY <2>1, <3>2
      <4>2. Cardinality(Users(b) \cup {n}) = Cardinality(Users(b)) + 1
        BY <3>1, <4>1, FS_AddElement
      <4> QED BY <1>5, <1>14, <3>1, <3>2, <4>1, <4>2
    <3>3. CASE ~(kept /\ b = a)
      <4>1. (Users(b))' = Users(b)
        BY <2>1, <3>3
      <4> QED BY <1>14, <3>1, <3>3, <4>1
    <3> QED BY <3>2, <3>3
  <2> QED BY <2>2 DEF Counted, AllocatorsCounted
<1>21. Running' /\ Calling'
  BY <1>5, <1>10, <1>15, Undisturbed
<1> QED BY <1>15, <1>16, <1>17, <1>18, <1>19, <1>20, <1>21 DEF IInv, Owning

-----------------------------------------------------------------------------
(* The engine is destroyed *)

(* spacewasm_destroy gives up the counts of the memories.                  *)
LEMMA SpacewasmDestroyIs ==
  ASSUME IInv, spacewasm_destroy
  PROVE  IInv'
<1>1. /\ running = FALSE /\ engine' = None /\ UNCHANGED <<host, execution>> /\ ~Trapped'
      /\ allocators' = [a \in Allocators |-> [allocators[a] EXCEPT !.count = @ - Cardinality(Users(a))]]
  BY DEF spacewasm_destroy, destroy_allocators, Return, Trapped, IInv, Owning, Typed
<1>2. Typed /\ Counted /\ callback = None
  BY <1>1 DEF IInv, Owning, Running, Interrupted
<1>3. ASSUME NEW a \in Allocators
      PROVE  /\ allocators'[a] \in AllocatorRecord
             /\ allocators'[a].count = IF allocators'[a].handle = "live" THEN 1 ELSE 0
  <2>1. /\ allocators[a] \in AllocatorRecord
        /\ allocators[a].count = (IF allocators[a].handle = "live" THEN 1 ELSE 0) + Cardinality(Users(a))
        /\ Cardinality(Users(a)) \in Nat
    BY <1>2, CountIs
  <2>2. PICK c \in Int : c = allocators[a].count - Cardinality(Users(a))
    BY <2>1 DEF AllocatorRecord
  <2>3. PICK r \in AllocatorRecord : r = allocators[a]
    BY <2>1
  <2>4. allocators'[a] = [r EXCEPT !.count = c]
    BY <1>1, <2>2, <2>3
  <2>5. allocators'[a] \in AllocatorRecord /\ allocators'[a].handle = r.handle /\ allocators'[a].count = c
    BY <2>4, CountedRecord
  <2> QED BY <2>1, <2>2, <2>3, <2>5
<1>4. DOMAIN allocators' = Allocators /\ allocators' = [a \in Allocators |-> allocators'[a]]
  BY <1>1
<1>5. allocators' \in [Allocators -> AllocatorRecord]
  BY <1>3, <1>4
<1>6. \A a : (Users(a))' = {}
  BY <1>1 DEF Users
<1>7. Typed'
  BY <1>1, <1>2, <1>5 DEF Typed, execution
<1>8. Counted'
  <2>1. Cardinality({}) = 0
    BY FS_EmptySet
  <2>2. ASSUME NEW a \in Allocators
        PROVE  allocators'[a].count =
                 (IF allocators'[a].handle = "live" THEN 1 ELSE 0) + Cardinality((Users(a))')
    BY <1>3, <1>6, <2>1
  <2> QED BY <1>6, <2>2 DEF Counted, AllocatorsCounted
<1>9. HostSized' /\ EngineSized' /\ Resolved' /\ Distinct' /\ Calling'
  BY <1>1 DEF IInv, Owning, HostSized, EngineSized, Resolved, Distinct, Calling
<1>10. Running'
  BY <1>1, <1>2 DEF IInv, Running, Interrupted, execution
<1> QED BY <1>7, <1>8, <1>9, <1>10 DEF IInv, Owning

-----------------------------------------------------------------------------
(* Globals *)

(* The index of an element, counted from 1.                                *)
LEMMA IndexIs ==
  ASSUME NEW R, NEW xs \in Seq(R), NEW i \in Nat, i < Len(xs)
  PROVE  i + 1 \in 1..Len(xs) /\ xs[i + 1] \in R /\ At(xs, i) = xs[i + 1] /\ At(xs, i) \in ToSet(xs)
<1>1. PICK k \in 1..Len(xs) : k = i + 1
  OBVIOUS
<1>2. xs[k] \in R /\ xs[k] \in ToSet(xs)
  BY InElements
<1> QED BY <1>1, <1>2 DEF At

(* What a value passed the checks for.                                     *)
LEMMA SetGlobalPasses ==
  ASSUME NEW m \in Nat, NEW g \in Nat, NEW value \in Value, set_global_status(m, g, value) = OK
  PROVE  /\ engine # None /\ m < Len(engine.modules) /\ g < Len(At(engine.modules, m).globals)
         /\ value.tag \in Types /\ value.tag = At(At(engine.modules, m).image.globals, g).ty
         /\ At(At(engine.modules, m).image.globals, g).mutable
<1> DEFINE type == At(At(Modules, m).image.globals, g)
           checks == <<ErrorIf(~try_to_value(value), "BAD_ARG"),
                       ErrorIf(value.tag # type.ty, "GLOBAL_TYPE_MISMATCH"),
                       ErrorIf(~type.mutable, "GLOBAL_NOT_MUTABLE")>>
<1>1. engine # None /\ HasGlobal(m, g) /\ FirstError(checks) = OK
  BY DEF set_global_status, OK
<1>2. DOMAIN checks = 1..3
  OBVIOUS
<1>3. \A i \in 1..3 : checks[i] = OK
  <2> HIDE DEF checks
  <2> QED BY <1>1, <1>2, ChecksPass
<1>4. checks[1] = OK /\ checks[2] = OK /\ checks[3] = OK
  <2> HIDE DEF checks
  <2> QED BY <1>3
<1>5. try_to_value(value) /\ value.tag = type.ty /\ type.mutable
  BY <1>4 DEF ErrorIf, OK
<1> QED BY <1>1, <1>5 DEF HasGlobal, HasModule, Within, Modules, try_to_value

(* spacewasm_set_global stores a value of the declared type in a variable. *)
LEMMA SetGlobalIs ==
  ASSUME IInv, NEW m \in Nat, NEW g \in Nat, NEW value \in Value, set_global(m, g, value)
  PROVE  IInv'
<1>1. /\ engine' = IF set_global_status(m, g, value) # OK THEN engine
           ELSE [engine EXCEPT !.modules[m + 1].globals[g + 1] = value]
      /\ UNCHANGED <<allocators, host, execution>> /\ ~Trapped'
  BY DEF set_global, Return, Trapped
<1>2. Typed /\ Owning
  BY DEF IInv, Owning
<1>3. CASE set_global_status(m, g, value) # OK
  <2>1. UNCHANGED <<allocators, engine, execution>>
    BY <1>1, <1>3
  <2>2. host' \in Host \cup {None} /\ HostSized'
    BY <1>1, <1>2 DEF Typed, Owning, HostSized
  <2> QED BY <1>1, <2>1, <2>2, HostChanges
<1>4. CASE set_global_status(m, g, value) = OK
  <2>1. /\ engine # None /\ m < Len(engine.modules) /\ g < Len(At(engine.modules, m).globals)
        /\ value.tag \in Types /\ value.tag = At(At(engine.modules, m).image.globals, g).ty
        /\ At(At(engine.modules, m).image.globals, g).mutable
    BY <1>4, SetGlobalPasses
  <2>2. engine \in EngineRecord
    BY <1>2, <2>1, EngineIs
  <2>3. PICK ms \in Seq(Module) : ms = engine.modules /\ m < Len(ms)
    BY <1>2, <2>1, EngineIs
  <2>4. PICK i \in 1..Len(ms) : i = m + 1
    BY <2>3
  <2>5. PICK old \in Module : old = ms[i] /\ old = At(engine.modules, m) /\ old \in ToSet(ms)
    BY <2>3, <2>4, IndexIs
  <2>6. PICK gs \in Seq([tag : Types, v : 0..1]) : gs = old.globals /\ g < Len(gs)
    BY <2>1, <2>5 DEF Module
  <2>7. PICK j \in 1..Len(gs) : j = g + 1
    BY <2>6
  <2>8. value \in [tag : Types, v : 0..1]
    BY <2>1 DEF Value
  <2>9. PICK hs : hs = [gs EXCEPT ![j] = value]
    OBVIOUS
  <2>10. /\ hs \in Seq([tag : Types, v : 0..1]) /\ Len(hs) = Len(gs) /\ DOMAIN hs = 1..Len(gs)
         /\ hs[j] = value /\ \A k \in 1..Len(gs) : k # j => hs[k] = gs[k]
    <3>1. hs \in Seq([tag : Types, v : 0..1]) /\ Len(hs) = Len(gs)
      BY <2>8, <2>9, ReplacedIs
    <3> QED BY <2>9, <3>1
  <2>11. PICK md : md = [old EXCEPT !.globals = hs]
    OBVIOUS
  <2>12. md \in Module /\ md.globals = hs /\ md.name = old.name /\ md.image = old.image
         /\ md.imports = old.imports /\ md.allocator = old.allocator
    BY <2>10, <2>11 DEF Module
  <2>13. TypeOfGlobals(md)
    <3>1. TypeOfGlobals(old)
      BY <1>2, <2>1, <2>3, <2>5 DEF Owning, EngineSized, Modules
    <3>2. old.image.globals[j].ty = value.tag /\ old.image.globals[j].mutable
      BY <2>1, <2>5, <2>7 DEF At
    <3> QED BY <2>6, <2>10, <2>12, <3>1, <3>2 DEF TypeOfGlobals
  <2>14. PICK ns : ns = [ms EXCEPT ![i] = md]
    OBVIOUS
  <2>15. /\ ns \in Seq(Module) /\ Len(ns) = Len(ms) /\ \A y \in ToSet(ns) : y \in ToSet(ms) \/ y = md
    <3>1. ns \in Seq(Module) /\ Len(ns) = Len(ms)
      BY <2>12, <2>14, ReplacedIs
    <3> QED BY <2>12, <2>14, <3>1, ReplacedElements
  <2>16. ns[i] = md /\ \A k \in 1..Len(ms) : k # i => ns[k] = ms[k]
    BY <2>14
  <2>17. engine' = [engine EXCEPT !.modules = ns]
    BY <1>1, <1>4, <2>2, <2>3, <2>4, <2>5, <2>6, <2>7, <2>9, <2>11, <2>14
  <2>18. /\ engine' \in EngineRecord /\ engine'.modules = ns /\ engine'.hosts = engine.hosts
         /\ engine'.code = engine.code /\ engine'.max_modules = engine.max_modules
         /\ engine'.call = engine.call /\ engine'.pause = engine.pause /\ engine'.result = engine.result
         /\ engine'.discarded = engine.discarded
    BY <2>2, <2>15, <2>17 DEF EngineRecord
  <2>19. \A k \in 1..Len(ms) : SameModule(ms[k], ns[k])
    BY <2>5, <2>6, <2>10, <2>12, <2>16 DEF SameModule
  <2>20. Grows
    BY <2>1, <2>3, <2>15, <2>18, <2>19, Marks DEF Grows
  <2>21. Typed'
    BY <1>1, <1>2, <2>18 DEF Typed, execution
  <2>22. HostSized' /\ EngineSized'
    BY <1>1, <1>2, <2>1, <2>3, <2>13, <2>15, <2>18 DEF Owning, HostSized, EngineSized, Modules
  <2>23. Resolved'
    <3>1. ASSUME NEW k \in 0..(Len(engine.modules) - 1) PROVE (GoodModule(k))'
      <4>1. GoodModule(k)
        BY <1>2, <2>1 DEF Owning, Resolved, Modules
      <4> QED BY <1>2, <2>20, <2>21, <4>1, StillGood
    <3> QED BY <2>3, <2>15, <2>18, <3>1 DEF Resolved, Modules
  <2>24. \A k \in 0..(Len(engine.modules) - 1) :
           /\ At(engine'.modules, k).name = At(engine.modules, k).name
           /\ At(engine'.modules, k).allocator = At(engine.modules, k).allocator
    <3>1. \A k \in 0..(Len(ms) - 1) : k + 1 \in 1..Len(ms)
      OBVIOUS
    <3> QED BY <2>3, <2>18, <2>19, <3>1 DEF SameModule, At
  <2>25. Distinct'
    BY <1>2, <2>1, <2>3, <2>15, <2>18, <2>24 DEF Owning, Distinct, Modules
  <2>26. Counted'
    <3>1. ASSUME NEW a PROVE (Users(a))' = Users(a)
      <4>1. engine' # None
        BY <2>20 DEF Grows
      <4> QED BY <2>1, <2>3, <2>15, <2>18, <2>24, <4>1 DEF Users, Modules
    <3> QED BY <1>1, <1>2, <3>1 DEF Owning, Counted, AllocatorsCounted
  <2>27. Running' /\ Calling'
    BY <1>1, <2>18, <2>20, <2>21, Undisturbed
  <2> QED BY <2>21, <2>22, <2>23, <2>25, <2>26, <2>27 DEF IInv, Owning
<1> QED BY <1>3, <1>4

-----------------------------------------------------------------------------
(* Calls *)

(* The call and the result of the engine change, its modules do not.       *)
LEMMA RetainsIs ==
  ASSUME IInv, Retains, UNCHANGED <<allocators, host>>, engine'.code = engine.code,
         callback' \in Callback \cup {None},
         running' \in BOOLEAN, panicked' \in BOOLEAN, Running',
         engine'.call # None => engine'.call \in Call /\ HasFunction(engine'.call.module, engine'.call.index),
         engine'.result # None => engine'.call = None /\ ~Trapped'
  PROVE  IInv'
<1>1. Typed /\ Owning /\ engine # None
  BY DEF IInv, Owning, Retains
<1>2. Typed'
  BY <1>1 DEF Typed, Retains
<1>3. engine'.code <= CodeBudget
  BY <1>1 DEF Owning, EngineSized
<1>4. Owning'
  BY <1>1, <1>2, <1>3, RetainsOwning
<1>5. Calling'
  <2>1. \A m, x : HasFunction(m, x) => (HasFunction(m, x))'
    BY <1>1, RetainsGrows
  <2> QED BY <2>1 DEF Calling
<1> QED BY <1>4, <1>5 DEF IInv

(* The checks of spacewasm_invoke let through a call of a function of the  *)
(* module, on an engine at rest.                                           *)
LEMMA InvokePasses ==
  ASSUME NEW m, NEW x, NEW args, NEW n, invoke_call_status(m, x, args, n) = OK
  PROVE  engine # None /\ Idle /\ HasFunction(m, x)
BY DEF invoke_call_status, OK

(* spacewasm_invoke prepares a call, and drops the result of the last.     *)
LEMMA InvokeIs ==
  ASSUME IInv, NEW m \in Nat, NEW x \in Nat, NEW args, invoke(m, x, args)
  PROVE  IInv'
<1> DEFINE status == invoke_call_status(m, x, args, IF args = Null THEN 1 ELSE Len(args))
<1>1. /\ engine' = IF status = OK THEN Started(m, x) ELSE engine
      /\ UNCHANGED <<allocators, host>> /\ UNCHANGED execution /\ ~Trapped'
  BY DEF invoke, Return, Trapped
<1>2. Typed /\ Owning
  BY DEF IInv, Owning
<1>3. CASE status # OK
  <2>1. UNCHANGED <<allocators, engine, execution>>
    BY <1>1, <1>3
  <2>2. host' \in Host \cup {None} /\ HostSized'
    BY <1>1, <1>2 DEF Typed, Owning, HostSized
  <2> QED BY <1>1, <2>1, <2>2, HostChanges
<1>4. CASE status = OK
  <2>1. engine # None /\ engine.call = None /\ HasFunction(m, x)
    BY <1>4, InvokePasses DEF Idle
  <2> HIDE DEF status
  <2>2. PICK c \in Call : c = [module |-> m, index |-> x] /\ c.module = m /\ c.index = x
    <3>1. [module |-> m, index |-> x] \in Call
      BY DEF Call
    <3> QED BY <3>1
  <2>3. engine' = [[engine EXCEPT !.call = c] EXCEPT !.result = None]
    BY <1>1, <1>4, <2>2 DEF Started
  <2>4. /\ engine' \in EngineRecord /\ engine'.call = c /\ engine'.result = None
        /\ engine'.pause = engine.pause /\ engine'.code = engine.code
        /\ engine'.hosts = engine.hosts /\ engine'.max_modules = engine.max_modules
        /\ engine'.modules = engine.modules /\ engine'.discarded = engine.discarded
    <3>1. PICK mid : mid = [engine EXCEPT !.call = c]
      OBVIOUS
    <3>2. /\ mid \in EngineRecord /\ mid.call = c
          /\ mid.pause = engine.pause /\ mid.code = engine.code
          /\ mid.hosts = engine.hosts /\ mid.max_modules = engine.max_modules
          /\ mid.modules = engine.modules /\ mid.discarded = engine.discarded
      BY <1>2, <2>1, <3>1, EngineIs DEF EngineRecord
    <3> QED BY <2>3, <3>1, <3>2 DEF EngineRecord
  <2>5. Retains
    BY <2>1, <2>4 DEF Retains
  <2>6. Running /\ UNCHANGED <<running, callback, taken, panicked>> /\ Embedder
    BY <1>1 DEF IInv, execution, invoke
  <2>7. Running'
    <3>1. engine' # None /\ HostRefs' = HostRefs
          /\ \A k, y : HasFunction(k, y) => (HasFunction(k, y))'
      BY <1>2, <2>5, RetainsGrows DEF Grows
    <3>2. ASSUME callback # None PROVE engine.discarded
      BY <1>2, <2>1, <2>6, <3>2, CallbackIs DEF Running, Interrupted
    <3>3. Interrupted'
      <4>1. SUFFICES ASSUME callback # None PROVE Interrupted'
        BY <2>6 DEF Interrupted
      <4> QED BY <2>4, <2>6, <3>1, <3>2, <4>1 DEF Running, Interrupted, HasFunction, HasModule
    <3>4. running /\ callback = None /\ ~panicked => FALSE
      BY <2>1, <2>6 DEF Running
    <3> QED BY <1>2, <2>1, <2>4, <2>6, <3>1, <3>3, <3>4 DEF Running
  <2>8. /\ callback' \in Callback \cup {None}
        /\ running' \in BOOLEAN /\ panicked' \in BOOLEAN
    BY <1>1, <1>2 DEF Typed, execution
  <2> QED BY <1>1, <2>1, <2>2, <2>4, <2>5, <2>7, <2>8, RetainsIs
<1> QED BY <1>3, <1>4

(* spacewasm_resume clears the pause. *)
LEMMA ResumeIs ==
  ASSUME IInv, NEW value, resume(value)
  PROVE  IInv'
<1> DEFINE status == resume_call_status(value)
<1>1. /\ engine' = IF engine = None THEN None ELSE Resumed(status)
      /\ UNCHANGED <<allocators, host>> /\ UNCHANGED execution /\ ~Trapped'
  BY DEF resume, Return, Trapped
<1>2. Typed /\ Owning
  BY DEF IInv, Owning
<1>3. CASE engine = None \/ status # OK
  <2>1. UNCHANGED <<allocators, engine, execution>>
    BY <1>1, <1>3 DEF Resumed
  <2>2. host' \in Host \cup {None} /\ HostSized'
    BY <1>1, <1>2 DEF Typed, Owning, HostSized
  <2> QED BY <1>1, <2>1, <2>2, HostChanges
<1>4. CASE engine # None /\ status = OK
  <2>1. engine' = [engine EXCEPT !.pause = None]
    BY <1>1, <1>4 DEF Resumed
  <2> HIDE DEF status
  <2>2. /\ engine' \in EngineRecord /\ engine'.call = engine.call /\ engine'.result = engine.result
        /\ engine'.pause = None /\ engine'.code = engine.code
        /\ engine'.discarded = engine.discarded
        /\ engine'.hosts = engine.hosts /\ engine'.max_modules = engine.max_modules
        /\ engine'.modules = engine.modules
    BY <1>2, <1>4, <2>1, EngineIs DEF EngineRecord
  <2>3. Retains
    BY <1>4, <2>2 DEF Retains
  <2>4. Grows /\ Typed'
    BY <1>1, <1>2, <2>3, RetainsGrows DEF Typed, Retains, execution
  <2>5. Running'
    BY <1>1, <2>2, <2>4, RunningKept
  <2>6. /\ callback' \in Callback \cup {None}
        /\ running' \in BOOLEAN /\ panicked' \in BOOLEAN
    BY <1>1, <1>2 DEF Typed, execution
  <2>7. engine'.call # None => engine'.call \in Call /\ HasFunction(engine'.call.module, engine'.call.index)
    BY <1>2, <1>4, <2>2, EngineIs DEF IInv, Calling
  <2>8. engine'.result # None => engine'.call = None /\ ~Trapped'
    BY <1>1, <1>4, <2>2 DEF IInv, Calling
  <2> QED BY <1>1, <2>2, <2>3, <2>5, <2>6, <2>7, <2>8, RetainsIs
<1> QED BY <1>3, <1>4

(* spacewasm_reset forgets the call, the pause and the result.             *)
LEMMA ResetIs ==
  ASSUME IInv, reset
  PROVE  IInv'
<1>1. /\ Embedder
      /\ engine' = IF engine = None THEN None
           ELSE [engine EXCEPT !.call = None, !.pause = None, !.result = None,
                               !.discarded = running]
      /\ UNCHANGED <<allocators, host>> /\ UNCHANGED execution /\ ~Trapped'
  BY DEF reset, Return, Trapped
<1>2. Typed /\ Owning /\ Running /\ UNCHANGED <<running, callback, taken, panicked>>
  BY <1>1 DEF IInv, Owning, execution
<1>3. CASE engine = None
  <2>1. UNCHANGED <<allocators, engine, execution>>
    BY <1>1, <1>3
  <2>2. host' \in Host \cup {None} /\ HostSized'
    BY <1>1, <1>2 DEF Typed, Owning, HostSized
  <2> QED BY <1>1, <2>1, <2>2, HostChanges
<1>4. CASE engine # None
  <2>1. engine \in EngineRecord
    BY <1>2, <1>4, EngineIs
  <2>2. PICK mid : mid = [engine EXCEPT !.call = None]
    OBVIOUS
  <2>3. PICK rest : rest = [mid EXCEPT !.pause = None]
    OBVIOUS
  <2>4. PICK cleared : cleared = [rest EXCEPT !.result = None]
    OBVIOUS
  <2>5. engine' = [cleared EXCEPT !.discarded = running]
    BY <1>1, <1>4, <2>2, <2>3, <2>4
  <2>6. /\ mid \in EngineRecord /\ mid.call = None /\ mid.code = engine.code
        /\ mid.hosts = engine.hosts /\ mid.max_modules = engine.max_modules
        /\ mid.modules = engine.modules
    BY <2>1, <2>2 DEF EngineRecord
  <2>7. /\ rest \in EngineRecord /\ rest.call = None /\ rest.pause = None /\ rest.code = engine.code
        /\ rest.hosts = engine.hosts /\ rest.max_modules = engine.max_modules
        /\ rest.modules = engine.modules
    BY <2>3, <2>6 DEF EngineRecord
  <2>8. /\ cleared \in EngineRecord /\ cleared.call = None /\ cleared.pause = None /\ cleared.result = None
         /\ cleared.code = engine.code
         /\ cleared.hosts = engine.hosts /\ cleared.max_modules = engine.max_modules
         /\ cleared.modules = engine.modules
    BY <2>4, <2>7 DEF EngineRecord
  <2>9. /\ engine' \in EngineRecord /\ engine'.call = None /\ engine'.pause = None
        /\ engine'.result = None /\ engine'.discarded = running
        /\ engine'.code = engine.code
        /\ engine'.hosts = engine.hosts /\ engine'.max_modules = engine.max_modules
        /\ engine'.modules = engine.modules
    BY <1>2, <2>5, <2>8 DEF EngineRecord, Typed
  <2>10. Retains
    BY <1>4, <2>9 DEF Retains
  <2>11. Running'
    <3>1. engine' # None /\ HostRefs' = HostRefs
          /\ \A k, y : HasFunction(k, y) => (HasFunction(k, y))'
      BY <1>2, <2>10, RetainsGrows DEF Grows
    <3>2. Interrupted'
      <4>1. SUFFICES ASSUME callback # None PROVE Interrupted'
        BY <1>2 DEF Interrupted
      <4> QED BY <1>2, <2>9, <3>1, <4>1 DEF Running, Interrupted, HasFunction, HasModule
    <3> QED BY <1>1, <1>2, <2>9, <3>1, <3>2 DEF Running, Embedder
  <2>12. /\ callback' \in Callback \cup {None}
         /\ running' \in BOOLEAN /\ panicked' \in BOOLEAN
    BY <1>1, <1>2 DEF Typed, execution
  <2> QED BY <1>1, <2>9, <2>10, <2>11, <2>12, RetainsIs
<1> QED BY <1>3, <1>4

-----------------------------------------------------------------------------
(* Runs and callbacks *)

(* A function of a module, or of the host, returns values of its types.    *)
LEMMA FunctionReturns ==
  ASSUME Typed, NEW c \in Call, HasFunction(c.module, c.index)
  PROVE  FunctionAt(c).returns \in Seq(Types)
<1>1. PICK m \in Nat, x \in Nat : m = c.module /\ x = c.index
  BY DEF Call
<1>2. engine # None /\ m < Len(engine.modules) /\ x < Len(At(engine.modules, m).image.functions)
  BY <1>1 DEF HasFunction, HasModule, Within, Modules
<1>3. PICK md \in Module : md = At(engine.modules, m)
  <2>1. engine.modules \in Seq(Module)
    BY <1>2, EngineIs
  <2> QED BY <1>2, <2>1, IndexIs
<1>4. PICK fs \in Seq([params : Seq(Types), returns : Seq(Types), stack : Nat]) : fs = md.image.functions
  <2>1. md.image \in Image
    BY ModuleIs
  <2> QED BY <2>1 DEF Image
<1>5. At(fs, x) \in [params : Seq(Types), returns : Seq(Types), stack : Nat]
  <2>1. x < Len(fs)
    BY <1>2, <1>3, <1>4
  <2> DEFINE R == [params : Seq(Types), returns : Seq(Types), stack : Nat]
  <2>2. fs \in Seq(R)
    BY <1>4
  <2> HIDE DEF R
  <2>3. At(fs, x) \in R
    BY <2>1, <2>2, IndexIs
  <2> QED BY <2>3 DEF R
<1>6. FunctionAt(c) = At(fs, x)
  BY <1>1, <1>3, <1>4 DEF FunctionAt, Modules
<1> QED BY <1>5, <1>6

(* The same of a host function. *)
LEMMA HostReturns ==
  ASSUME Typed, engine # None, NEW ref \in HostRefs
  PROVE  HostFunctionAt(ref).returns \in Seq(Types)
<1>1. PICK h \in 0..(Len(engine.hosts) - 1) :
         ref \in {HostRef(h, f) : f \in 0..(Len(At(engine.hosts, h).functions) - 1)}
  BY DEF HostRefs
<1>2. PICK f \in 0..(Len(At(engine.hosts, h).functions) - 1) : ref = HostRef(h, f)
  BY <1>1
<1>3. engine.hosts \in Seq(HostModule) /\ Len(engine.hosts) \in Nat
  BY EngineIs
<1>4. h \in Nat /\ h < Len(engine.hosts)
  BY <1>3
<1>5. PICK hm \in HostModule : hm = At(engine.hosts, h)
  BY <1>3, <1>4, IndexIs
<1>6. hm.functions \in Seq(HostFunction) /\ Len(hm.functions) \in Nat
  BY DEF HostModule
<1>7. f \in Nat /\ f < Len(hm.functions)
  BY <1>2, <1>5, <1>6
<1>8. At(hm.functions, f) \in HostFunction
  BY <1>6, <1>7, IndexIs
<1>9. HostFunctionAt(ref) = At(hm.functions, f)
  BY <1>2, <1>5 DEF HostFunctionAt, HostRef
<1> QED BY <1>8, <1>9 DEF HostFunction

(* A step of a run that does not end it leaves what the program owns.      *)
LEMMA RunGoesOn ==
  ASSUME IInv, engine # None, UNCHANGED handles, UNCHANGED last,
         callback' \in Callback \cup {None},
         running' \in BOOLEAN, panicked' \in BOOLEAN, Running'
  PROVE  IInv'
<1>1. Typed /\ UNCHANGED <<allocators, host>> /\ engine' = engine
  BY DEF IInv, Owning, handles
<1>2. Retains /\ engine'.code = engine.code
  BY <1>1 DEF Retains, Typed
<1>3. engine'.call # None => engine'.call \in Call /\ HasFunction(engine'.call.module, engine'.call.index)
  BY <1>1, EngineIs DEF IInv, Calling
<1>4. engine'.result # None => engine'.call = None /\ ~Trapped'
  BY <1>1 DEF IInv, Calling, Trapped
<1> QED BY <1>1, <1>2, <1>3, <1>4, RetainsIs

(* spacewasm_run starts or goes on.                                        *)
LEMMA RunBeginsIs ==
  ASSUME IInv, ~panicked, run_begins
  PROVE  IInv'
<1>1. /\ engine # None /\ engine.call # None /\ engine.pause = None /\ UNCHANGED handles
      /\ running' = TRUE /\ panicked' = (callback # None \/ engine.discarded)
      /\ UNCHANGED <<callback, taken>> /\ UNCHANGED last
  BY DEF run_begins, Idle
<1>2. engine' = engine /\ Typed
  BY <1>1 DEF handles, IInv, Owning
<1>3. HostRefs' = HostRefs
  BY <1>2 DEF HostRefs, HostRef, At
<1>4. Running'
  <2>1. Running /\ engine.result = None /\ callback' = callback /\ running' = TRUE
    BY <1>1 DEF IInv, Running, Calling
  <2>2. callback # None => (HasFunction(callback.call.module, callback.call.index))'
    BY <1>2, <2>1 DEF Running, Interrupted, HasFunction, HasModule, Modules
  <2>3. Interrupted'
    BY <1>1, <1>2, <1>3, <2>1, <2>2 DEF Running, Interrupted
  <2> QED BY <1>1, <1>2, <2>1, <2>3 DEF Running
<1>5. callback' \in Callback \cup {None} /\ running' \in BOOLEAN /\ panicked' \in BOOLEAN
  BY <1>1, <1>2, EngineIs DEF Typed
<1> QED BY <1>1, <1>4, <1>5, RunGoesOn

(* The guest calls a host function, whose closure is there.                *)
LEMMA CallHostFnIs ==
  ASSUME IInv, ~panicked, NEW ref \in HostRefs, NEW m \in 0..(Len(Modules) - 1), Executing,
         call_host_fn([ref |-> ref, module |-> m, call |-> engine.call])
  PROVE  IInv' /\ ~panicked'
<1>1. PICK c : c = [ref |-> ref, module |-> m, call |-> engine.call]
  OBVIOUS
<1>2. /\ running = TRUE /\ callback = None /\ UNCHANGED handles
      /\ running' = running /\ panicked' = (ref \in taken) /\ taken' = taken \cup {ref}
      /\ callback' = c /\ UNCHANGED last
      /\ c.ref = ref /\ c.call = engine.call
  BY <1>1 DEF call_host_fn, Executing, IInv, Owning, Typed
<1>3. /\ engine # None /\ engine' = engine /\ Typed /\ taken = {} /\ Running
      /\ engine.call # None /\ ~engine.discarded
  BY <1>2 DEF handles, IInv, Owning, Running
<1>4. ref \in Ref /\ m \in Nat /\ engine.call \in Call
  BY <1>3, HostRefsAre, EngineIs DEF Modules
<1>5. HasFunction(engine.call.module, engine.call.index)
  BY <1>3 DEF IInv, Calling
<1>6. c \in Callback
  BY <1>1, <1>4 DEF Callback
<1>7. HostRefs' = HostRefs
  BY <1>3 DEF HostRefs, HostRef, At
<1>8. callback' # None
  BY <1>2, <1>6, Marks
<1>9. Interrupted'
  <2>1. (HasFunction(callback.call.module, callback.call.index))'
    BY <1>2, <1>3, <1>5 DEF HasFunction, HasModule, Modules
  <2> QED BY <1>2, <1>3, <1>7, <2>1 DEF Interrupted
<1>10. Running'
  BY <1>2, <1>3, <1>8, <1>9 DEF Running
<1>11. callback' \in Callback \cup {None} /\ running' \in BOOLEAN /\ panicked' \in BOOLEAN
  BY <1>2, <1>3, <1>6 DEF Typed
<1>12. ~panicked'
  BY <1>2, <1>3
<1> QED BY <1>2, <1>3, <1>10, <1>11, <1>12, RunGoesOn

(* A callback is part of a run; the engine executes the call that run      *)
(* keeps, unless the callback reset it.                                    *)
LEMMA InCallback ==
  ASSUME IInv, ~panicked, callback # None
  PROVE  /\ running = TRUE /\ engine # None /\ engine \in EngineRecord /\ Running /\ Typed
         /\ engine.pause = None /\ engine.result = None /\ engine.discarded \in BOOLEAN
         /\ callback.call \in Call /\ callback.call # None
         /\ HasFunction(callback.call.module, callback.call.index)
         /\ ~engine.discarded => engine.call = callback.call
         /\ callback.ref \in HostRefs /\ taken = {callback.ref}
BY EngineIs, CallbackIs DEF IInv, Owning, Typed, Running, Interrupted

(* A callback returns and the run goes on: the closure is back.            *)
LEMMA CallbackContinuesIs ==
  ASSUME IInv, ~panicked, NEW value, callback_continues(value)
  PROVE  IInv' /\ (Orderly => ~panicked')
<1>1. /\ callback # None /\ callback' = None /\ taken' = taken \ {callback.ref}
      /\ UNCHANGED handles /\ UNCHANGED running /\ UNCHANGED last
      /\ (Orderly => ~engine.discarded) /\ (engine.discarded => panicked')
  BY DEF callback_continues, finish_call
<1>2. /\ running = TRUE /\ engine # None /\ engine.pause = None /\ engine.result = None
      /\ callback.call # None /\ (~engine.discarded => engine.call = callback.call)
      /\ engine.discarded \in BOOLEAN /\ taken = {callback.ref}
  BY <1>1, InCallback
<1>3. panicked' \in BOOLEAN /\ (Orderly => ~panicked')
  BY <1>2 DEF callback_continues
<1>4. engine' = engine /\ taken' = {}
  BY <1>1, <1>2 DEF handles
<1>5. Running'
  BY <1>1, <1>2, <1>3, <1>4 DEF Running, Interrupted
<1> QED BY <1>1, <1>2, <1>3, <1>5, RunGoesOn

(* An engine whose run has ended, with its call gone and a result.         *)
LEMMA StoppedIs ==
  ASSUME Typed, engine # None, NEW result \in Seq(Types) \cup {None}, engine' = Stopped(result)
  PROVE  /\ Retains /\ engine'.code = engine.code /\ engine'.call = None /\ engine'.result = result
         /\ engine'.discarded = FALSE
<1>1. engine \in EngineRecord
  BY EngineIs
<1>2. PICK mid : mid = [engine EXCEPT !.call = None]
  OBVIOUS
<1>3. /\ mid \in EngineRecord /\ mid.call = None /\ mid.code = engine.code
      /\ mid.hosts = engine.hosts /\ mid.max_modules = engine.max_modules
      /\ mid.modules = engine.modules
  BY <1>1, <1>2 DEF EngineRecord
<1>4. PICK rest : rest = [mid EXCEPT !.result = result]
  OBVIOUS
<1>5. /\ rest \in EngineRecord /\ rest.call = None /\ rest.code = engine.code
      /\ rest.hosts = engine.hosts /\ rest.max_modules = engine.max_modules
      /\ rest.modules = engine.modules /\ rest.result = result
  BY <1>3, <1>4 DEF EngineRecord
<1>6. engine' = [rest EXCEPT !.discarded = FALSE]
  BY <1>2, <1>4 DEF Stopped
<1>7. /\ engine' \in EngineRecord /\ engine'.call = None /\ engine'.code = engine.code
      /\ engine'.hosts = engine.hosts /\ engine'.max_modules = engine.max_modules
      /\ engine'.modules = engine.modules /\ engine'.result = result
      /\ engine'.discarded = FALSE
  BY <1>5, <1>6 DEF EngineRecord
<1> QED BY <1>7 DEF Retains

(* A run ends with a result, or by a trap without one.                     *)
LEMMA RunStops ==
  ASSUME IInv, engine # None, NEW result \in Seq(Types) \cup {None}, engine' = Stopped(result),
         UNCHANGED <<allocators, host>>, running' = FALSE, callback' = None, panicked' \in BOOLEAN,
         ~panicked' => taken' = {}, result # None => ~Trapped'
  PROVE  IInv'
<1>1. Typed
  BY DEF IInv, Owning
<1>2. /\ Retains /\ engine'.code = engine.code /\ engine'.call = None /\ engine'.result = result
      /\ engine'.discarded = FALSE
  BY <1>1, StoppedIs
<1>3. Running'
  BY <1>2 DEF Running, Interrupted
<1>4. /\ callback' \in Callback \cup {None} /\ running' \in BOOLEAN
  OBVIOUS
<1>5. engine'.result # None => engine'.call = None /\ ~Trapped'
  BY <1>2
<1>6. engine'.call # None => engine'.call \in Call /\ HasFunction(engine'.call.module, engine'.call.index)
  BY <1>2
<1> QED BY <1>2, <1>3, <1>4, <1>5, <1>6, RetainsIs

(* The run is in progress and no callback is.                              *)
LEMMA InRun ==
  ASSUME IInv, ~panicked, Executing
  PROVE  /\ running = TRUE /\ callback = None /\ engine # None /\ engine \in EngineRecord
         /\ engine.call \in Call /\ HasFunction(engine.call.module, engine.call.index)
         /\ engine.pause = None /\ engine.result = None /\ ~engine.discarded /\ taken = {} /\ Typed
BY EngineIs DEF IInv, Owning, Typed, Running, Calling, Executing

(* The call finishes, traps, or runs out of fuel.                          *)
LEMMA FinishesIs ==
  ASSUME IInv, ~panicked, finishes
  PROVE  IInv'
<1>1. /\ Executing /\ running' = FALSE /\ engine' = Stopped(FunctionAt(engine.call).returns)
      /\ UNCHANGED <<allocators, host>> /\ UNCHANGED <<callback, taken, panicked>> /\ ~Trapped'
  BY DEF finishes, RunEnds, Return, Trapped
<1>2. /\ engine # None /\ engine.call \in Call /\ HasFunction(engine.call.module, engine.call.index)
      /\ taken = {} /\ callback = None /\ Typed
  BY <1>1, InRun
<1>3. FunctionAt(engine.call).returns \in Seq(Types) \cup {None}
  BY <1>2, FunctionReturns
<1> QED BY <1>1, <1>2, <1>3, RunStops DEF Typed

(* The call traps: no result is there.                                     *)
LEMMA TrapsIs ==
  ASSUME IInv, ~panicked, traps
  PROVE  IInv'
<1>1. /\ Executing /\ running' = FALSE /\ engine' = Stopped(engine.result)
      /\ UNCHANGED <<allocators, host>> /\ UNCHANGED <<callback, taken, panicked>>
  BY DEF traps, RunEnds
<1>2. /\ engine # None /\ engine.result = None
      /\ taken = {} /\ callback = None /\ Typed
  BY <1>1, InRun
<1> QED BY <1>1, <1>2, RunStops DEF Typed

(* The call is still pending when the fuel is used up.                     *)
LEMMA RunsOutIs ==
  ASSUME IInv, ~panicked, runs_out_of_fuel
  PROVE  IInv'
<1>1. /\ Executing /\ running' = FALSE /\ engine' = engine
      /\ UNCHANGED <<allocators, host>> /\ UNCHANGED <<callback, taken, panicked>> /\ ~Trapped'
  BY DEF runs_out_of_fuel, RunEnds, Return, Trapped
<1>2. /\ engine # None /\ engine \in EngineRecord /\ engine.call \in Call
      /\ HasFunction(engine.call.module, engine.call.index)
      /\ taken = {} /\ callback = None /\ Typed /\ engine.result = None /\ ~engine.discarded
  BY <1>1, InRun
<1>3. Retains /\ engine'.code = engine.code
  BY <1>1, <1>2 DEF Retains
<1>4. Running'
  BY <1>1, <1>2 DEF Running, Interrupted
<1>5. callback' \in Callback \cup {None} /\ running' \in BOOLEAN /\ panicked' \in BOOLEAN
  BY <1>1, <1>2 DEF Typed
<1>6. engine'.call # None => engine'.call \in Call /\ HasFunction(engine'.call.module, engine'.call.index)
  BY <1>1, <1>2
<1>7. engine'.result # None => engine'.call = None /\ ~Trapped'
  BY <1>1, <1>2
<1> QED BY <1>1, <1>3, <1>4, <1>5, <1>6, <1>7, RetainsIs

(* A callback ends the run by a trap. *)
LEMMA CallbackTrapsIs ==
  ASSUME IInv, ~panicked, callback_traps
  PROVE  IInv'
<1>1. /\ callback # None /\ running' = FALSE /\ engine' = Stopped(engine.result)
      /\ UNCHANGED <<allocators, host>> /\ UNCHANGED panicked
      /\ callback' = None /\ taken' = taken \ {callback.ref}
  BY DEF callback_traps, RunEnds, finish_call
<1>2. engine # None /\ engine.result = None /\ taken = {callback.ref} /\ Typed
  BY <1>1, InCallback
<1>3. taken' = {}
  BY <1>1, <1>2
<1> QED BY <1>1, <1>2, <1>3, RunStops DEF Typed

(* A callback pauses the run. *)
LEMMA CallbackPausesIs ==
  ASSUME IInv, ~panicked, callback_pauses
  PROVE  IInv' /\ ~panicked'
<1> DEFINE types == HostFunctionAt(callback.ref).returns
<1>1. /\ callback # None /\ running' = FALSE /\ (Orderly => ~engine.discarded)
      /\ engine' = [engine EXCEPT !.pause = types, !.call = callback.call]
      /\ UNCHANGED <<allocators, host>> /\ panicked' = (engine.pause # None)
      /\ callback' = None /\ taken' = taken \ {callback.ref} /\ ~Trapped'
  BY DEF callback_pauses, RunEnds, finish_call, Return, Trapped
<1>2. /\ engine # None /\ engine \in EngineRecord /\ engine.pause = None /\ engine.result = None
      /\ taken = {callback.ref} /\ callback.ref \in HostRefs /\ callback.call \in Call /\ Typed
      /\ HasFunction(callback.call.module, callback.call.index)
  BY <1>1, InCallback
<1>3. taken' = {} /\ panicked' = FALSE
  BY <1>1, <1>2
<1>4. types \in Seq(Types)
  BY <1>2, HostReturns
<1>5. PICK c \in Call : c = callback.call
  BY <1>2
<1> HIDE DEF types
<1>6. PICK mid : mid = [engine EXCEPT !.pause = types]
  OBVIOUS
<1>7. /\ mid \in EngineRecord /\ mid.code = engine.code /\ mid.result = None
      /\ mid.hosts = engine.hosts /\ mid.max_modules = engine.max_modules
      /\ mid.modules = engine.modules /\ mid.discarded = engine.discarded
  BY <1>2, <1>4, <1>6 DEF EngineRecord
<1>8. engine' = [mid EXCEPT !.call = c]
  BY <1>1, <1>5, <1>6
<1>9. /\ engine' \in EngineRecord /\ engine'.call = c /\ engine'.code = engine.code
      /\ engine'.hosts = engine.hosts /\ engine'.max_modules = engine.max_modules
      /\ engine'.modules = engine.modules /\ engine'.result = None
      /\ engine'.discarded = engine.discarded
  BY <1>7, <1>8 DEF EngineRecord
<1>10. Retains
  BY <1>2, <1>9 DEF Retains
<1>11. Running'
  BY <1>1, <1>3, <1>9 DEF Running, Interrupted
<1>12. engine'.call # None => engine'.call \in Call /\ HasFunction(engine'.call.module, engine'.call.index)
  BY <1>2, <1>5, <1>9
<1>13. callback' \in Callback \cup {None} /\ running' \in BOOLEAN /\ panicked' \in BOOLEAN
  BY <1>1, <1>3
<1>14. engine'.result # None => engine'.call = None /\ ~Trapped'
  BY <1>9
<1> QED BY <1>1, <1>3, <1>9, <1>10, <1>11, <1>12, <1>13, <1>14, RetainsIs

-----------------------------------------------------------------------------
(* Every step *)

(* A call that only answers leaves everything as it is.                    *)
LEMMA LookupsAnswer ==
  ASSUME Lookups
  PROVE  \E op, status, out : op \notin {"run", "new"} /\ Answer(op, status, out)
BY DEF Lookups, Report

(* The calls for allocators keep the invariant.                            *)
LEMMA AllocatorCallsAre ==
  ASSUME IInv, AllocatorCalls
  PROVE  IInv' /\ UNCHANGED panicked
<1>1. PICK a \in Allocators :
         \/ \E callbacks \in BOOLEAN, heap \in Heap : allocator_new(a, callbacks, heap)
         \/ allocator_destroy(a)
  BY DEF AllocatorCalls
<1>2. CASE \E callbacks \in BOOLEAN, heap \in Heap : allocator_new(a, callbacks, heap)
  <2>1. PICK callbacks \in BOOLEAN, heap \in Heap : allocator_new(a, callbacks, heap)
    BY <1>2
  <2>2. IInv'
    BY <2>1, AllocatorNewIs
  <2> QED BY <2>1, <2>2 DEF allocator_new, execution
<1>3. CASE allocator_destroy(a)
  BY <1>3, AllocatorDestroyIs DEF allocator_destroy, execution
<1> QED BY <1>1, <1>2, <1>3

(* Those for the host vector do.                                           *)
LEMMA HostCallsAre ==
  ASSUME IInv, HostCallsOfC
  PROVE  IInv' /\ UNCHANGED panicked
<1>1. CASE \E len \in HostSizes, heap \in Heap : host_new(len, heap)
  <2>1. PICK len \in HostSizes, heap \in Heap : host_new(len, heap)
    BY <1>1
  <2>2. IInv'
    BY <2>1, HostNewIs
  <2> QED BY <2>1, <2>2 DEF host_new, execution
<1>2. CASE \E m \in ModuleArgs : add_host_module(m.name, m.max_functions, m.heap)
  <2>1. PICK m \in ModuleArgs : add_host_module(m.name, m.max_functions, m.heap)
    BY <1>2
  <2>2. IInv'
    BY <2>1, AddHostModuleIs
  <2> QED BY <2>1, <2>2 DEF add_host_module, execution
<1>3. CASE \E f \in FunctionArgs :
             add_host_function(f.idx, f.name, f.params, f.returns, f.f, f.heap)
  <2>1. PICK f \in FunctionArgs :
          add_host_function(f.idx, f.name, f.params, f.returns, f.f, f.heap)
    BY <1>3
  <2>2. IInv'
    BY <2>1, AddHostFunctionIs
  <2>3. UNCHANGED execution
    BY <2>1 DEF add_host_function
  <2> QED BY <2>2, <2>3 DEF execution
<1>4. CASE host_destroy
  BY <1>4, HostDestroyIs DEF host_destroy, execution
<1> QED BY <1>1, <1>2, <1>3, <1>4 DEF HostCallsOfC

(* An index is a number. *)
LEMMA IndicesAre ==
  Indices \subseteq Nat
BY CApiAssumption DEF Indices

(* Those for the engine do.                                                *)
LEMMA EngineCallsAre ==
  ASSUME IInv, EngineCalls
  PROVE  IInv' /\ UNCHANGED panicked
<1>1. CASE \E n \in StoreSizes, given \in BOOLEAN, out \in Pointer, heap \in Heap :
             spacewasm_new(n, given, out, heap)
  <2>1. PICK n \in StoreSizes, given \in BOOLEAN, out \in Pointer, heap \in Heap :
          spacewasm_new(n, given, out, heap)
    BY <1>1
  <2>2. IInv'
    BY <2>1, SpacewasmNewIs
  <2>3. UNCHANGED execution
    BY <2>1 DEF spacewasm_new
  <2> QED BY <2>2, <2>3 DEF execution
<1>2. CASE \E a \in Allocators \cup {Null}, l \in LoadArgs :
             load_module(a, l.name, l.read, l.image, l.fault)
  <2>1. PICK a \in Allocators \cup {Null}, l \in LoadArgs :
          load_module(a, l.name, l.read, l.image, l.fault)
    BY <1>2
  <2>2. IInv'
    BY <2>1, LoadRefusedIs, LoadSucceedsIs
  <2>3. UNCHANGED execution
    BY <2>1 DEF load_module
  <2> QED BY <2>2, <2>3 DEF execution
<1>3. CASE spacewasm_destroy
  BY <1>3, SpacewasmDestroyIs DEF spacewasm_destroy, execution
<1>4. CASE \E m, g \in Indices, value \in Value : set_global(m, g, value)
  <2>1. PICK m \in Nat, g \in Nat, value \in Value : set_global(m, g, value)
    BY <1>4, IndicesAre
  <2>2. IInv'
    BY <2>1, SetGlobalIs
  <2> QED BY <2>1, <2>2 DEF set_global, execution
<1>5. CASE \E m, x \in Indices, args \in Arguments \cup {Null} : invoke(m, x, args)
  <2>1. PICK m \in Nat, x \in Nat, args \in Arguments \cup {Null} : invoke(m, x, args)
    BY <1>5, IndicesAre
  <2>2. IInv'
    BY <2>1, InvokeIs
  <2> QED BY <2>1, <2>2 DEF invoke, execution
<1>6. CASE \E value \in Value \cup {None} : resume(value)
  <2>1. PICK value \in Value \cup {None} : resume(value)
    BY <1>6
  <2>2. IInv'
    BY <2>1, ResumeIs
  <2> QED BY <2>1, <2>2 DEF resume, execution
<1>7. CASE reset
  BY <1>7, ResetIs DEF reset, execution
<1> QED BY <1>1, <1>2, <1>3, <1>4, <1>5, <1>6, <1>7 DEF EngineCalls

(* Running the guest does, and aborts nothing when callbacks are orderly.  *)
LEMMA RunsAre ==
  ASSUME IInv, ~panicked, Runs
  PROVE  IInv' /\ (Orderly => ~panicked')
<1>1. CASE run_begins
  <2>1. IInv'
    BY <1>1, RunBeginsIs
  <2>2. engine # None /\ Orderly => (engine.discarded => callback # None)
    BY DEF IInv, Running
  <2> QED BY <1>1, <2>1, <2>2 DEF run_begins
<1>2. CASE run_refused
  <2>1. IInv'
    BY <1>2, AnswerIs DEF run_refused
  <2> QED BY <1>2, <2>1 DEF run_refused, Answer, execution
<1>3. CASE finishes
  BY <1>3, FinishesIs DEF finishes
<1>4. CASE traps
  BY <1>4, TrapsIs DEF traps
<1>5. CASE runs_out_of_fuel
  BY <1>5, RunsOutIs DEF runs_out_of_fuel
<1>6. CASE Executing /\ \E ref \in HostRefs, m \in 0..(Len(Modules) - 1) :
                          call_host_fn([ref |-> ref, module |-> m, call |-> engine.call])
  BY <1>6, CallHostFnIs
<1>7. CASE \E value \in Value \cup {None} : callback_continues(value)
  BY <1>7, CallbackContinuesIs
<1>8. CASE callback_traps
  BY <1>8, CallbackTrapsIs DEF callback_traps
<1>9. CASE callback_pauses
  BY <1>9, CallbackPausesIs
<1> QED BY <1>1, <1>2, <1>3, <1>4, <1>5, <1>6, <1>7, <1>8, <1>9 DEF Runs

(* The program starts with no handle. *)
LEMMA InitIs ==
  ASSUME Init
  PROVE  IInv /\ ~panicked
<1>1. Typed
  <2>1. [handle |-> "none", count |-> 0] \in AllocatorRecord
    BY DEF AllocatorRecord
  <2>2. allocators \in [Allocators -> AllocatorRecord]
    BY <2>1 DEF Init
  <2> QED BY <2>2 DEF Init, Typed
<1>2. \A a : Users(a) = {}
  BY DEF Init, Users
<1>3. Counted
  BY <1>2, FS_EmptySet DEF Init, Counted, AllocatorsCounted
<1>4. HostSized /\ EngineSized /\ Resolved /\ Distinct /\ Running /\ Calling
  BY DEF Init, HostSized, EngineSized, Resolved, Distinct, Running, Interrupted, Calling
<1> QED BY <1>1, <1>3, <1>4 DEF IInv, Owning, Init

(* Every step keeps the invariant, and none of orderly callbacks aborts.   *)
LEMMA NextIs ==
  ASSUME IInv, Next
  PROVE  IInv' /\ (Orderly => ~panicked')
<1>1. ~panicked
  BY DEF Next
<1>2. CASE AllocatorCalls
  BY <1>1, <1>2, AllocatorCallsAre
<1>3. CASE HostCallsOfC
  BY <1>1, <1>3, HostCallsAre
<1>4. CASE EngineCalls
  BY <1>1, <1>4, EngineCallsAre
<1>5. CASE Lookups
  <2>1. PICK op, status, out : op # "run" /\ Answer(op, status, out)
    BY <1>5, LookupsAnswer
  <2>2. IInv'
    BY <2>1, AnswerIs
  <2> QED BY <1>1, <2>1, <2>2 DEF Answer, execution
<1>6. CASE Runs
  BY <1>1, <1>6, RunsAre
<1> QED BY <1>2, <1>3, <1>4, <1>5, <1>6 DEF Next

(* A step that changes nothing keeps it.                                   *)
LEMMA StutterIs ==
  ASSUME IInv, UNCHANGED vars
  PROVE  IInv'
<1>1. UNCHANGED <<engine, execution>> /\ UNCHANGED <<allocators, host, last>>
  BY DEF vars, execution
<1>2. Typed /\ Owning
  BY DEF IInv, Owning
<1>3. allocators' \in [Allocators -> AllocatorRecord] /\ host' \in Host \cup {None} /\ HostSized'
  BY <1>1, <1>2 DEF Typed, Owning, HostSized
<1>4. Counted'
  <2>1. \A a : (Users(a))' = Users(a)
    BY <1>1, SameUsers
  <2> QED BY <1>1, <1>2, <2>1 DEF Owning, Counted, AllocatorsCounted
<1> QED BY <1>1, <1>3, <1>4, EngineKept

(* The invariant of the interface: every handle, count, index and call is  *)
(* in order after any calls, successful or refused, from outside or from   *)
(* within a callback.                                                      *)
THEOREM CApiInvariant == Spec => []IInv
<1>1. Init => IInv
  BY InitIs
<1>2. IInv /\ [Next]_vars => IInv'
  BY NextIs, StutterIs
<1> QED BY <1>1, <1>2, PTL DEF Spec

-----------------------------------------------------------------------------
(* The properties *)

(* The vectors and the counts are in order.                                *)
LEMMA TypesOK ==
  ASSUME IInv
  PROVE  TypeOK
<1>1. ASSUME NEW a \in Allocators
      PROVE  allocators[a].handle \in {"none", "live", "destroyed"} /\ allocators[a].count \in Nat
  <2>1. /\ allocators[a] \in AllocatorRecord /\ Cardinality(Users(a)) \in Nat
        /\ allocators[a].count = (IF allocators[a].handle = "live" THEN 1 ELSE 0) + Cardinality(Users(a))
    BY CountIs DEF IInv, Owning
  <2>2. allocators[a].handle \in {"none", "live", "destroyed"}
    BY <2>1 DEF AllocatorRecord
  <2> QED BY <2>1, <2>2
<1>2. HostSized /\ EngineSized /\ running \in BOOLEAN /\ panicked \in BOOLEAN
  BY DEF IInv, Owning, Typed
<1> QED BY <1>1, <1>2 DEF TypeOK, HostSized, EngineSized

(* A name that a lookup was given.                                         *)
LEMMA LookedUp ==
  ASSUME engine # None, NEW m \in Nat, NEW name, NEW kind,
         find_in_module(m, name, "pointer", kind).status = OK
  PROVE  find_in_module(m, name, "pointer", kind) = find_export(m, name, kind)
<1>1. CASE cstr(name) # OK
  <2>1. find_in_module(m, name, "pointer", kind) = Lookup(cstr(name), None)
    BY <1>1, CApiAssumption DEF find_in_module
  <2> QED BY <1>1, <2>1 DEF Lookup
<1>2. CASE cstr(name) = OK /\ ~HasModule(m)
  <2>1. find_in_module(m, name, "pointer", kind) = Lookup("NOT_FOUND", None)
    BY <1>2, CApiAssumption DEF find_in_module
  <2> QED BY <2>1 DEF Lookup, OK
<1>3. CASE cstr(name) = OK /\ HasModule(m)
  BY <1>3, CApiAssumption DEF find_in_module
<1> QED BY <1>1, <1>2, <1>3

(* What find_export finds is an export of that kind.                       *)
LEMMA FoundExport ==
  ASSUME NEW m \in Nat, NEW name, NEW kind, find_export(m, name, kind).status = OK
  PROVE  \E e \in Exports(m, name) :
           LET imported == IF kind = "Func" THEN Len(At(Modules, m).imports) ELSE 0
           IN e.kind = kind /\ ~(e.index < imported) /\ find_export(m, name, kind).out = e.index - imported
<1> DEFINE found == {e \in Exports(m, name) : e.kind = kind}
           c == CHOOSE e \in found : TRUE
           imported == IF kind = "Func" THEN Len(At(Modules, m).imports) ELSE 0
<1>1. find_export(m, name, kind) =
        IF found = {} \/ c.index < imported THEN Lookup("NOT_FOUND", None)
        ELSE Lookup(OK, c.index - imported)
  BY DEF find_export
<1> HIDE DEF c, imported
<1>2. ~(found = {} \/ c.index < imported)
  BY <1>1 DEF Lookup, OK
<1>3. find_export(m, name, kind).out = c.index - imported
  BY <1>1, <1>2 DEF Lookup
<1>4. c \in found
  BY <1>2 DEF c
<1> QED BY <1>2, <1>3, <1>4 DEF imported

(* A function that is found can be invoked.                                *)
LEMMA FunctionFound ==
  ASSUME IInv, engine # None, NEW m \in 0..(Len(Modules) - 1), NEW name,
         find_export_func(m, name, "pointer").status = OK
  PROVE  HasFunction(m, find_export_func(m, name, "pointer").out)
<1>1. Typed /\ m \in 0..(Len(engine.modules) - 1) /\ m \in Nat /\ GoodModule(m)
  BY EngineIs DEF IInv, Owning, Modules, Resolved
<1>2. find_export_func(m, name, "pointer") = find_export(m, name, "Func")
  BY <1>1, LookedUp DEF find_export_func
<1>3. PICK e \in Exports(m, name) :
        /\ e.kind = "Func" /\ ~(e.index < Len(At(Modules, m).imports))
        /\ find_export(m, name, "Func").out = e.index - Len(At(Modules, m).imports)
  BY <1>1, <1>2, FoundExport
<1>4. PICK md \in Module : md = At(engine.modules, m)
  BY <1>1, EngineIs
<1>5. /\ e.index \in Nat
      /\ e.index < Len(md.image.imports) + Len(md.image.functions)
  BY <1>1, <1>3, <1>4, ExportsAre
<1>6. /\ Len(md.image.functions) \in Nat /\ Len(md.imports) \in Nat
      /\ Len(md.imports) = Len(md.image.imports)
  BY <1>1, <1>4, ModuleIs DEF GoodModule, Modules
<1>7. \A i, n, k \in Nat : i < n + k => i - n < k
  OBVIOUS
<1>8. e.index - Len(md.imports) < Len(md.image.functions)
  BY <1>5, <1>6, <1>7
<1>9. HasFunction(m, e.index - Len(md.imports))
  BY <1>1, <1>4, <1>8, EngineIs DEF HasFunction, HasModule, Within, Modules
<1> QED BY <1>2, <1>3, <1>4, <1>9 DEF Modules

(* A global that is found can be read.                                     *)
LEMMA GlobalFound ==
  ASSUME IInv, engine # None, NEW m \in 0..(Len(Modules) - 1), NEW name,
         find_global(m, name, "pointer").status = OK
  PROVE  get_global(m, find_global(m, name, "pointer").out, "pointer").status = OK
<1>1. Typed /\ m \in 0..(Len(engine.modules) - 1) /\ m \in Nat /\ GoodModule(m)
  BY EngineIs DEF IInv, Owning, Modules, Resolved
<1>2. find_global(m, name, "pointer") = find_export(m, name, "Global")
  BY <1>1, LookedUp DEF find_global
<1>3. PICK e \in Exports(m, name) : e.kind = "Global" /\ find_export(m, name, "Global").out = e.index - 0
  BY <1>1, <1>2, FoundExport
<1>4. e.index \in Nat /\ e.index < Len(At(engine.modules, m).image.globals)
  BY <1>1, <1>3, ExportsAre
<1>5. find_export(m, name, "Global").out = e.index
  BY <1>3, <1>4
<1>6. HasGlobal(m, e.index)
  BY <1>1, <1>4, EngineIs DEF HasGlobal, HasModule, Within, Modules, GoodModule
<1>7. Null # "pointer"
  BY CApiAssumption
<1> QED BY <1>2, <1>5, <1>6, <1>7 DEF get_global, Lookup

(* The first module of a name is the only one.                             *)
LEMMA ModuleFound ==
  ASSUME IInv, engine # None, NEW m \in 0..(Len(Modules) - 1), At(Modules, m).name \in Names
  PROVE  find_module(At(Modules, m).name, "pointer") = Lookup(OK, m)
<1> DEFINE name == At(Modules, m).name
           named == {k \in 0..(Len(Modules) - 1) : At(Modules, k).name = name}
<1>1. named = {m}
  BY DEF IInv, Owning, Distinct
<1>2. (CHOOSE k \in named : \A j \in named : k <= j) = m
  <2> HIDE DEF named
  <2>1. m <= m
    BY EngineIs DEF IInv, Owning, Modules
  <2> QED BY <1>1, <2>1
<1>3. cstr(name) = OK /\ Null # "pointer"
  BY CApiAssumption DEF cstr, OK
<1> HIDE DEF name
<1>4. find_module(name, "pointer") =
        IF named = {} THEN [status |-> "NOT_FOUND", out |-> None]
        ELSE [status |-> OK, out |-> CHOOSE k \in named : \A j \in named : k <= j]
  BY <1>3 DEF find_module
<1> HIDE DEF named
<1>5. find_module(name, "pointer") = Lookup(OK, m)
  BY <1>1, <1>2, <1>4 DEF Lookup
<1> QED BY <1>5 DEF name

(* A start function that is found runs without arguments.                  *)
LEMMA StartFound ==
  ASSUME IInv, engine # None, NEW m \in 0..(Len(Modules) - 1), module_start(m, "pointer").status = OK
  PROVE  LET s == module_start(m, "pointer")
         IN /\ s.out.kind = "Wasm" /\ HasFunction(s.out.module, s.out.index)
            /\ FunctionAt(s.out).params = <<>>
<1>1. GoodModule(m)
  BY DEF IInv, Owning, Resolved, Modules
<1>2. Null # "pointer"
  BY CApiAssumption
<1>3. ~(~HasModule(m) \/ At(Modules, m).image.start = None)
  BY <1>2 DEF module_start, Lookup, OK
<1>4. module_start(m, "pointer") = Lookup(OK, get_func_ref(m, At(Modules, m).image.start))
  BY <1>2, <1>3 DEF module_start
<1>5. Starts(get_func_ref(m, At(Modules, m).image.start))
  BY <1>1, <1>3 DEF GoodModule
<1> QED BY <1>4, <1>5 DEF Starts, Resolves, Lookup

(* Every index a lookup wrote can be used.                                 *)
LEMMA IndicesUsable ==
  ASSUME IInv
  PROVE  FoundIsUsable
<1>1. TypeOK
  BY TypesOK
<1>2. ASSUME engine # None, NEW m \in 0..(Len(Modules) - 1), NEW name \in Names
      PROVE  /\ LET f == find_export_func(m, name, "pointer")
                IN f.status = OK => HasFunction(m, f.out)
             /\ LET g == find_global(m, name, "pointer")
                IN g.status = OK => get_global(m, g.out, "pointer").status = OK
             /\ name = At(Modules, m).name => find_module(name, "pointer") = Lookup(OK, m)
  BY <1>2, FunctionFound, GlobalFound, ModuleFound
<1>3. ASSUME engine # None, NEW m \in 0..(Len(Modules) - 1)
      PROVE  LET s == module_start(m, "pointer")
             IN s.status = OK => /\ s.out.kind = "Wasm" /\ HasFunction(s.out.module, s.out.index)
                                 /\ FunctionAt(s.out).params = <<>>
  BY <1>3, StartFound
<1> QED BY <1>1, <1>2, <1>3 DEF FoundIsUsable

(* The count of an allocator is its handle and the memories that came from *)
(* it, however loads fail and handles are destroyed, for any number of     *)
(* allocators and modules (alloc.rs, spacewasm_load_module).               *)
THEOREM CApiAllocatorsCounted == Spec => []AllocatorsCounted
<1>1. IInv => AllocatorsCounted
  BY DEF IInv, Owning, Counted
<1> QED BY <1>1, CApiInvariant, PTL

(* What a lookup found can be passed to the call it is meant for, for any  *)
(* modules and any chain of imports (find_export_func, module_start).      *)
THEOREM CApiFoundIsUsable == Spec => []FoundIsUsable
<1>1. IInv => FoundIsUsable
  BY IndicesUsable
<1> QED BY <1>1, CApiInvariant, PTL

(* A result is that of the call that finished last (spacewasm_get_result). *)
THEOREM CApiResultIsOfLastCall == Spec => []ResultIsOfLastCall
<1>1. IInv => ResultIsOfLastCall
  BY DEF IInv, Calling, ResultIsOfLastCall, Idle
<1> QED BY <1>1, CApiInvariant, PTL

(* Callbacks that answer as they declared, do not call run, and trap once  *)
(* they have reset the engine never abort the process, whatever else they  *)
(* call, and no run goes on with frames that are gone (call_host_fn).      *)
THEOREM CApiNoPanic == ASSUME Orderly PROVE Spec => []NoPanic
<1>1. Init => IInv /\ ~panicked
  BY InitIs
<1>2. (IInv /\ ~panicked) /\ [Next]_vars => (IInv /\ ~panicked)'
  <2>1. ASSUME IInv, ~panicked, UNCHANGED vars PROVE ~panicked'
    BY <2>1 DEF vars
  <2> QED BY <2>1, NextIs, StutterIs
<1>3. IInv /\ ~panicked => NoPanic
  BY DEF NoPanic
<1> QED BY <1>1, <1>2, <1>3, PTL DEF Spec

(* What a callback discarded stays discarded while it runs.                *)
LEMMA StaysDiscarded ==
  ASSUME IInv, Next, callback # None, callback' = callback, engine.discarded = TRUE
  PROVE  engine'.discarded = TRUE
<1>1. running = TRUE /\ engine # None /\ engine \in EngineRecord /\ engine.discarded = TRUE
  BY InCallback DEF Next
<1>2. CASE AllocatorCalls \/ HostCallsOfC
  BY <1>1, <1>2 DEF AllocatorCalls, HostCallsOfC, allocator_new, allocator_destroy,
              host_new, add_host_module, add_host_function, host_destroy
<1>3. CASE Lookups
  BY <1>1, <1>3, LookupsAnswer DEF Answer, handles
<1>4. CASE Runs
  BY <1>1, <1>4 DEF Runs, run_begins, run_refused, Answer, handles, finishes, traps, runs_out_of_fuel,
                    Executing, callback_continues, callback_traps, callback_pauses
<1>5. CASE EngineCalls
  <2>1. ASSUME NEW a, NEW name, NEW read, NEW image, NEW fault, load_module(a, name, read, image, fault)
        PROVE  engine'.discarded = TRUE
    <3>1. PICK n, ms : engine' = [engine EXCEPT !.code = n, !.modules = ms]
      BY <1>1, <2>1 DEF load_module
    <3> QED BY <1>1, <3>1 DEF EngineRecord
  <2>2. ASSUME NEW m, NEW g, NEW value, set_global(m, g, value) PROVE engine'.discarded = TRUE
    <3>1. PICK ms : engine' = engine \/ engine' = [engine EXCEPT !.modules = ms]
      BY <2>2 DEF set_global
    <3> QED BY <1>1, <3>1 DEF EngineRecord
  <2>3. ASSUME NEW m, NEW x, NEW args, invoke(m, x, args) PROVE engine'.discarded = TRUE
    BY <1>1, <2>3 DEF invoke, Started, EngineRecord
  <2>4. ASSUME NEW value, resume(value) PROVE engine'.discarded = TRUE
    BY <1>1, <2>4 DEF resume, Resumed, EngineRecord
  <2>5. ASSUME reset PROVE engine'.discarded = TRUE
    BY <1>1, <2>5 DEF reset, EngineRecord
  <2>6. ~spacewasm_destroy /\ \A n, given, out, heap : ~spacewasm_new(n, given, out, heap)
    BY <1>1 DEF spacewasm_destroy, spacewasm_new
  <2> QED BY <1>5, <2>1, <2>2, <2>3, <2>4, <2>5, <2>6 DEF EngineCalls
<1> QED BY <1>2, <1>3, <1>4, <1>5 DEF Next

(* While a callback runs that has not reset the engine, the engine keeps   *)
(* its call and its modules.                                               *)
LEMMA UndisturbedCall ==
  ASSUME IInv, Next, callback # None, callback' = callback, ~engine'.discarded
  PROVE  /\ engine.call = callback.call
         /\ engine' # None
         /\ engine'.call = engine.call /\ engine'.pause = engine.pause
         /\ engine'.result = engine.result
         /\ Len(engine'.modules) = Len(engine.modules)
<1>1. /\ running = TRUE /\ engine # None /\ engine \in EngineRecord /\ engine.call # None
      /\ engine.pause = None /\ engine.call = callback.call
  BY InCallback, StaysDiscarded DEF Next
<1>2. SUFFICES ASSUME engine' # engine
               PROVE  /\ engine' # None
                      /\ engine'.call = engine.call /\ engine'.pause = engine.pause
                      /\ engine'.result = engine.result
                      /\ Len(engine'.modules) = Len(engine.modules)
  BY <1>1
<1>3. ~AllocatorCalls /\ ~HostCallsOfC
  BY <1>2 DEF AllocatorCalls, HostCallsOfC, allocator_new, allocator_destroy,
              host_new, add_host_module, add_host_function, host_destroy
<1>4. ~Lookups
  BY <1>2, LookupsAnswer DEF Answer, handles
<1>5. ~Runs
  BY <1>1, <1>2 DEF Runs, run_begins, run_refused, Answer, handles, finishes, traps, runs_out_of_fuel,
                    Executing, callback_continues, callback_traps, callback_pauses
<1>6. EngineCalls
  BY <1>3, <1>4, <1>5 DEF Next
<1>7. CASE \E a \in Allocators \cup {Null}, l \in LoadArgs :
             load_module(a, l.name, l.read, l.image, l.fault)
  <2>1. PICK a \in Allocators \cup {Null}, l \in LoadArgs :
          load_module(a, l.name, l.read, l.image, l.fault)
    BY <1>7
  <2>2. load_status(a, l.name, l.read, l.image, l.fault) # OK
    <3> DEFINE checks == LoadChecks(l.name, l.read, l.image, l.fault)
    <3>1. SUFFICES ASSUME load_status(a, l.name, l.read, l.image, l.fault) = OK PROVE FALSE
      OBVIOUS
    <3>2. a # Null
      BY <3>1 DEF load_status, OK
    <3>3. FirstError(checks) = OK /\ DOMAIN checks = 1..10
      BY <1>1, <3>1, <3>2, LoadStatusIs
    <3>4. \A i \in 1..10 : checks[i] = OK
      <4> HIDE DEF checks
      <4> QED BY <3>3, ChecksPass
    <3>5. checks[1] = OK
      <4> HIDE DEF checks
      <4> QED BY <3>4
    <3> QED BY <1>1, <3>5 DEF LoadChecks, LoadState, ErrorIf, Idle, OK
  <2>3. Retains /\ \E n \in Nat : engine' = [engine EXCEPT !.code = n]
    BY <1>1, <2>1, <2>2, LoadRefusedIs
  <2> QED BY <1>1, <2>3, Marks DEF Retains, EngineRecord
<1>8. CASE \E m, g \in Indices, value \in Value : set_global(m, g, value)
  <2>1. PICK m \in Nat, g \in Nat, value \in Value : set_global(m, g, value)
    BY <1>8, IndicesAre
  <2>2. engine' = [engine EXCEPT !.modules[m + 1].globals[g + 1] = value]
    BY <1>2, <2>1 DEF set_global
  <2>3. engine.modules \in Seq(Module)
    BY <1>1 DEF EngineRecord
  <2>4. PICK ms : ms = [engine.modules EXCEPT ![m + 1].globals[g + 1] = value]
    OBVIOUS
  <2>5. Len(ms) = Len(engine.modules)
    BY <2>3, <2>4
  <2>6. engine' = [engine EXCEPT !.modules = ms]
    BY <2>2, <2>4
  <2>7. /\ engine'.call = engine.call /\ engine'.pause = engine.pause /\ engine'.result = engine.result
        /\ engine'.modules = ms
    BY <1>1, <2>6 DEF EngineRecord
  <2>8. engine' # None
    <3>1. IInv'
      BY <2>1, SetGlobalIs
    <3>2. running' = TRUE
      BY <1>1, <2>1 DEF set_global, execution
    <3> QED BY <3>1, <3>2 DEF IInv, Running
  <2> QED BY <2>5, <2>7, <2>8
<1>9. ASSUME NEW m, NEW x, NEW args, invoke(m, x, args) PROVE FALSE
  <2>1. invoke_call_status(m, x, args, IF args = Null THEN 1 ELSE Len(args)) = OK
    BY <1>2, <1>9 DEF invoke
  <2> QED BY <1>1, <2>1, InvokePasses DEF Idle
<1>10. ASSUME NEW value, resume(value) PROVE FALSE
  <2>1. resume_call_status(value) = OK
    BY <1>1, <1>2, <1>10 DEF resume, Resumed
  <2> QED BY <1>1, <2>1 DEF resume_call_status, resume_status, OK
<1>11. ASSUME NEW n, NEW given, NEW out, NEW heap, spacewasm_new(n, given, out, heap) PROVE FALSE
  BY <1>1, <1>11 DEF spacewasm_new
<1>12. ~spacewasm_destroy /\ ~reset
  BY <1>1 DEF spacewasm_destroy, reset, EngineRecord
<1> QED BY <1>6, <1>7, <1>8, <1>9, <1>10, <1>11, <1>12 DEF EngineCalls

(* Calls from within a callback other than spacewasm_reset cannot disturb  *)
(* the interpreter that called it, in any order and any number (is_idle,   *)
(* Engine::invoke).                                                        *)
THEOREM CApiCallbacksCannotDisturb == Spec => CallbacksCannotDisturb
<1> DEFINE A == (callback # None /\ callback' = callback /\ ~engine'.discarded) =>
                  /\ engine.call = callback.call
                  /\ engine' # None
                  /\ engine'.call = engine.call /\ engine'.pause = engine.pause
                  /\ engine'.result = engine.result
                  /\ Len(engine'.modules) = Len(engine.modules)
<1>1. IInv /\ [Next]_vars => [A]_vars
  BY UndisturbedCall
<1> HIDE DEF A
<1>2. Spec => [][A]_vars
  BY <1>1, CApiInvariant, PTL DEF Spec
<1> QED BY <1>2 DEF CallbacksCannotDisturb, A

(* A refused call changes nothing. *)
Unchanged ==
  /\ allocators' = allocators
  /\ Lasting(engine') = Lasting(engine)
  /\ last'.op # "new" => host' = host

Refused == last'.status \notin {OK} \cup RunStatuses

(* Two engines that differ in their code only last as one.                 *)
LEMMA SameButCode ==
  ASSUME NEW e \in EngineRecord, NEW n \in Nat
  PROVE  [[e EXCEPT !.code = n] EXCEPT !.code = 0] = [e EXCEPT !.code = 0]
<1>1. PICK f : f = [e EXCEPT !.code = n]
  OBVIOUS
<1>2. f \in EngineRecord /\ \A x \in {"hosts", "max_modules", "modules", "call", "pause", "result", "discarded"} : f[x] = e[x]
  BY <1>1 DEF EngineRecord
<1> QED BY <1>1, <1>2 DEF EngineRecord

(* The calls for allocators and the host vector.                           *)
LEMMA RefusedHandleCalls ==
  ASSUME AllocatorCalls \/ HostCallsOfC, Refused
  PROVE  Unchanged
<1>1. CASE AllocatorCalls
  BY <1>1 DEF AllocatorCalls, allocator_new, allocator_destroy, Return, Refused, Unchanged, OK
<1>2. CASE HostCallsOfC
  <2>1. UNCHANGED <<allocators, engine>>
    BY <1>2 DEF HostCallsOfC, host_new, add_host_module, add_host_function, host_destroy
  <2>2. host' = host
    <3>1. ASSUME NEW len, NEW heap, host_new(len, heap) PROVE host' = host
      BY <3>1 DEF host_new, Return, Refused, Allocated, OK
    <3>2. ASSUME NEW name, NEW n, NEW heap, add_host_module(name, n, heap) PROVE host' = host
      BY <3>2 DEF add_host_module, Return, Refused, OK
    <3>3. ASSUME NEW idx, NEW name, NEW params, NEW returns, NEW f, NEW heap,
                 add_host_function(idx, name, params, returns, f, heap)
          PROVE  host' = host
      BY <3>3 DEF add_host_function, Return, Refused, OK
    <3>4. ~host_destroy
      BY DEF host_destroy, Return, Refused, OK
    <3> QED BY <1>2, <3>1, <3>2, <3>3, <3>4 DEF HostCallsOfC
  <2> QED BY <2>1, <2>2 DEF Unchanged
<1> QED BY <1>1, <1>2

(* Those for the engine. *)
LEMMA RefusedEngineCalls ==
  ASSUME IInv, EngineCalls, Refused
  PROVE  Unchanged
<1>1. ASSUME NEW n, NEW given \in BOOLEAN, NEW out, NEW heap, spacewasm_new(n, given, out, heap)
      PROVE  Unchanged
  <2>1. engine' = engine /\ allocators' = allocators
    BY <1>1 DEF spacewasm_new, Return, Refused
  <2>2. CASE given
    <3>1. last'.op = "new"
      BY <1>1, <2>2 DEF spacewasm_new, Return
    <3> QED BY <2>1, <3>1 DEF Unchanged
  <2>3. CASE ~given
    <3>1. host' = host
      BY <1>1, <2>3 DEF spacewasm_new, HostAfterNew
    <3> QED BY <2>1, <3>1 DEF Unchanged
  <2> QED BY <2>2, <2>3
<1>2. ASSUME NEW a \in Allocators \cup {Null}, NEW l \in LoadArgs,
             load_module(a, l.name, l.read, l.image, l.fault)
      PROVE  Unchanged
  <2>1. load_status(a, l.name, l.read, l.image, l.fault) # OK /\ host' = host
    BY <1>2 DEF load_module, Return, Refused
  <2>2. /\ UNCHANGED allocators
        /\ \/ engine = None /\ engine' = None
           \/ Retains /\ \E n \in Nat : engine' = [engine EXCEPT !.code = n]
    BY <1>2, <2>1, LoadRefusedIs
  <2>3. CASE engine = None /\ engine' = None
    BY <2>1, <2>2, <2>3 DEF Unchanged
  <2>4. CASE Retains /\ \E n \in Nat : engine' = [engine EXCEPT !.code = n]
    <3>1. PICK n \in Nat : engine' = [engine EXCEPT !.code = n]
      BY <2>4
    <3>2. engine # None /\ engine \in EngineRecord /\ engine' # None
      BY <2>4, EngineIs, Marks DEF IInv, Owning, Retains
    <3>3. Lasting(engine') = Lasting(engine)
      BY <3>1, <3>2, SameButCode DEF Lasting
    <3> QED BY <2>1, <2>2, <3>3 DEF Unchanged
  <2> QED BY <2>2, <2>3, <2>4
<1>3. ~spacewasm_destroy
  BY DEF spacewasm_destroy, Return, Refused, OK
<1>4. ASSUME NEW m, NEW g, NEW value, set_global(m, g, value) PROVE Unchanged
  BY <1>4 DEF set_global, Return, Refused, Unchanged
<1>5. ASSUME NEW m, NEW x, NEW args, invoke(m, x, args) PROVE Unchanged
  BY <1>5 DEF invoke, Return, Refused, Unchanged
<1>6. ASSUME NEW value, resume(value) PROVE Unchanged
  BY <1>6 DEF resume, Resumed, Return, Refused, Unchanged
<1>7. CASE reset
  <2>1. engine = None
    BY <1>7 DEF reset, Return, Refused, ErrorIf, OK
  <2> QED BY <1>7, <2>1 DEF reset, Unchanged
<1> QED BY <1>1, <1>2, <1>3, <1>4, <1>5, <1>6, <1>7 DEF EngineCalls

(* And running the guest. *)
LEMMA RefusedRuns ==
  ASSUME Runs \/ Lookups, Refused
  PROVE  Unchanged
<1>1. CASE UNCHANGED handles
  BY <1>1 DEF handles, Unchanged
<1>2. CASE Lookups
  BY <1>1, <1>2, LookupsAnswer DEF Answer
<1>3. run_refused => UNCHANGED handles
  BY DEF run_refused, Answer
<1>4. run_begins => UNCHANGED handles
  BY DEF run_begins
<1>5. ~finishes /\ ~traps /\ ~runs_out_of_fuel /\ ~callback_traps /\ ~callback_pauses
  BY DEF finishes, traps, runs_out_of_fuel, callback_traps, callback_pauses, RunEnds, Return,
         Refused, RunStatuses
<1>6. ASSUME NEW c, call_host_fn(c) PROVE UNCHANGED handles
  BY <1>6 DEF call_host_fn
<1>7. ASSUME NEW value, callback_continues(value) PROVE UNCHANGED handles
  BY <1>7 DEF callback_continues
<1> QED BY <1>1, <1>2, <1>3, <1>4, <1>5, <1>6, <1>7 DEF Runs

(* A call that is refused changes no handle, count, module, global, pause  *)
(* or result (the early returns of every function of capi.rs).             *)
THEOREM CApiRefusedCallsChangeNothing == Spec => RefusedCallsChangeNothing
<1> DEFINE A == last'.status \notin {OK} \cup RunStatuses =>
                  /\ allocators' = allocators
                  /\ Lasting(engine') = Lasting(engine)
                  /\ last'.op # "new" => host' = host
<1>1. IInv /\ [Next]_vars => [A]_vars
  <2>1. ASSUME IInv, Next PROVE A
    <3>1. SUFFICES ASSUME Refused PROVE Unchanged
      BY DEF Refused, Unchanged
    <3> QED BY <2>1, <3>1, RefusedHandleCalls, RefusedEngineCalls, RefusedRuns DEF Next
  <2> QED BY <2>1
<1> HIDE DEF A
<1>2. Spec => [][A]_vars
  BY <1>1, CApiInvariant, PTL DEF Spec
<1> QED BY <1>2 DEF RefusedCallsChangeNothing, A

(* What the status of spacewasm_new says of the host vector.               *)
LEMMA NewTells ==
  ASSUME NEW n \in StoreSizes, NEW given \in BOOLEAN, NEW out \in Pointer, NEW heap \in Heap,
         spacewasm_new(n, given, out, heap), last'.op = "new"
  PROVE  host' # None <=> last'.status \in {"NULL_ARG", "VEC_TOO_LONG"}
<1> DEFINE refusal == <<ErrorIf(out = Null, "NULL_ARG"), ErrorIf(n > ModuleLimit, "VEC_TOO_LONG")>>
           refused == FirstError(refusal)
           checks == <<refused, Allocated(heap)>>
<1>1. /\ given /\ host # None /\ host' = HostAfterNew(given, refused) /\ last'.status = FirstError(checks)
  BY DEF spacewasm_new, Return
<1>2. DOMAIN refusal = 1..2 /\ DOMAIN checks = 1..2
  OBVIOUS
<1>3. refusal[1] \in {OK, "NULL_ARG"} /\ refusal[2] \in {OK, "VEC_TOO_LONG"}
  BY DEF ErrorIf
<1>4. checks[1] = refused /\ checks[2] \in {OK, "ALLOC_FAILED", "OUT_OF_MEMORY"}
  <2>1. Allocated(heap) \in {OK, "ALLOC_FAILED", "OUT_OF_MEMORY"}
    BY CApiAssumption DEF Allocated, alloc_status, AllocErrors, OK
  <2> HIDE DEF refused
  <2> QED BY <2>1
<1> HIDE DEF refusal
<1>5. refused \in {OK, "NULL_ARG", "VEC_TOO_LONG"}
  <2>1. CASE FirstError(refusal) # OK
    <3>1. \E i \in 1..2 : /\ refusal[i] = FirstError(refusal) /\ refusal[i] # OK
                          /\ \A j \in 1..(i - 1) : refusal[j] = OK
      BY <1>2, <2>1, FirstErrorIs
    <3> QED BY <1>3, <3>1
  <2>2. CASE FirstError(refusal) = OK
    BY <2>2
  <2> QED BY <2>1, <2>2
<1> HIDE DEF refused, checks
<1>6. CASE FirstError(checks) = OK
  <2>1. \A i \in 1..2 : checks[i] = OK
    BY <1>2, <1>6, ChecksPass
  <2>2. refused = OK
    BY <1>4, <2>1
  <2> QED BY <1>1, <1>6, <2>2 DEF HostAfterNew, OK
<1>7. CASE FirstError(checks) # OK
  <2>1. PICK i \in 1..2 : /\ checks[i] = FirstError(checks) /\ checks[i] # OK
                          /\ \A j \in 1..(i - 1) : checks[j] = OK
    BY <1>2, <1>7, FirstErrorIs
  <2>2. CASE i = 1
    <3>1. FirstError(checks) = refused /\ refused # OK
      BY <1>4, <2>1, <2>2
    <3> QED BY <1>1, <1>5, <3>1 DEF HostAfterNew
  <2>3. CASE i = 2
    <3>1. checks[1] = OK /\ FirstError(checks) \in {"ALLOC_FAILED", "OUT_OF_MEMORY"}
      BY <1>4, <2>1, <2>3
    <3>2. refused = OK
      BY <1>4, <3>1
    <3> QED BY <1>1, <3>1, <3>2 DEF HostAfterNew, OK
  <2> QED BY <2>2, <2>3
<1> QED BY <1>6, <1>7

(* Only spacewasm_new answers as "new" while there is no engine.           *)
LEMMA OnlyNew ==
  ASSUME IInv, Next, last'.op = "new", engine = None
  PROVE  \E n \in StoreSizes, given \in BOOLEAN, out \in Pointer, heap \in Heap :
           spacewasm_new(n, given, out, heap)
<1>1. running = FALSE /\ callback = None
  BY AtRest
<1>2. ~AllocatorCalls /\ ~HostCallsOfC
  <2>1. \A op, status, out : Return(op, status, out) => op = "new"
    BY DEF Return
  <2>2. ~AllocatorCalls
    BY <2>1 DEF AllocatorCalls, allocator_new, allocator_destroy
  <2>3. /\ \A len, heap : ~host_new(len, heap)
        /\ \A name, n, heap : ~add_host_module(name, n, heap)
        /\ ~host_destroy
    BY <2>1 DEF host_new, add_host_module, host_destroy
  <2>4. \A idx, name, params, returns, f, heap : ~add_host_function(idx, name, params, returns, f, heap)
    BY <2>1 DEF add_host_function
  <2> QED BY <2>2, <2>3, <2>4 DEF HostCallsOfC
<1>3. ~Lookups
  BY LookupsAnswer DEF Answer, Return
<1>4. ~Runs
  BY <1>1 DEF Runs, run_begins, run_refused, Answer, Return, finishes, traps, runs_out_of_fuel,
              Executing, callback_continues, callback_traps, callback_pauses
<1>5. /\ \A a, name, read, image, fault : ~load_module(a, name, read, image, fault)
      /\ ~spacewasm_destroy /\ ~reset
  BY DEF load_module, spacewasm_destroy, reset, Return
<1>6. /\ \A m, g, value : ~set_global(m, g, value)
      /\ \A m, x, args : ~invoke(m, x, args)
      /\ \A value : ~resume(value)
  BY DEF set_global, invoke, resume, Return
<1> QED BY <1>2, <1>3, <1>4, <1>5, <1>6 DEF Next, EngineCalls

(* A program that tells by the status whether it still owns the host       *)
(* vector is right, on every path (spacewasm_new, spacewasm.h).            *)
THEOREM CApiHostConsumedAsDocumented == Spec => HostConsumedAsDocumented
<1> DEFINE A == (last'.op = "new" /\ engine = None) =>
                  (host' # None <=> last'.status \in {"NULL_ARG", "VEC_TOO_LONG"})
<1>1. IInv /\ [Next]_vars => [A]_vars
  <2>1. ASSUME IInv, Next, last'.op = "new", engine = None
        PROVE  host' # None <=> last'.status \in {"NULL_ARG", "VEC_TOO_LONG"}
    BY <2>1, OnlyNew, NewTells
  <2> QED BY <2>1
<1> HIDE DEF A
<1>2. Spec => [][A]_vars
  BY <1>1, CApiInvariant, PTL DEF Spec
<1> QED BY <1>2 DEF HostConsumedAsDocumented, A
=============================================================================
