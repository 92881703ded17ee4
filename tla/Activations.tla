----------------------------- MODULE Activations -----------------------------
(***************************************************************************)
(* What the engine promises a guest: WebAssembly execution as a stack of   *)
(* activations.  Every call has locals and operands of its own, nothing a  *)
(* callee does reaches those of its callers, a return hands the declared   *)
(* result to the caller just after the call, and a paused host call is     *)
(* completed by exactly one value.  There is no memory layout, no frame    *)
(* word, no stack size here: a call may fail (Trap) at any time.           *)
(***************************************************************************)
EXTENDS Integers, Sequences

CONSTANTS
  Funcs, ParamWords, LocalWords, ResultWords,   \* signatures, in words
  Hosts, HostParams, HostResult,
  Values, Zero,
  Offsets,          \* positions of instructions in a body
  None

VARIABLES
  acts,     \* the activations, outermost first
  waiting,  \* words a paused host call still owes its caller, or None
  answer    \* the words of the last finished call, or None

avars == <<acts, waiting, answer>>

(* fn: the function; at: the instruction it executes, or, in a caller, its  *)
(* call instruction; locals: parameters then locals; operands: its own.     *)
Activation(f, args) ==
  [fn |-> f, at |-> 0,
   locals |-> args \o [i \in 1..LocalWords[f] |-> Zero],
   operands |-> <<>>]

Depth == Len(acts)
Callee == acts[Depth]
Calling == acts # <<>>

Tuples(n) == [1..n -> Values]
First(s, n) == SubSeq(s, 1, Len(s) - n)           \* all but the last n
LastOf(s, n) == SubSeq(s, Len(s) - n + 1, Len(s))

(* The current activation becomes a. *)
Becomes(a) == acts' = [acts EXCEPT ![Depth] = a]

Init == acts = <<>> /\ waiting = None /\ answer = None

Begin(f) ==
  /\ ~Calling
  /\ \E args \in Tuples(ParamWords[f]) : acts' = <<Activation(f, args)>>
  /\ answer' = None
  /\ UNCHANGED waiting

(* The callee goes on elsewhere in its body with p operands fewer and then *)
(* q new ones; a branch keeps some of the ones it drops.                   *)
Compute(p, q) ==
  /\ \E words \in Tuples(q), at \in Offsets :
       Becomes([Callee EXCEPT !.operands = First(@, p) \o words, !.at = at])
  /\ UNCHANGED <<waiting, answer>>

GetLocal(w) ==
  /\ \E i \in 1..(Len(Callee.locals) - w + 1), at \in Offsets :
       Becomes([Callee EXCEPT !.at = at,
                  !.operands = @ \o SubSeq(Callee.locals, i, i + w - 1)])
  /\ UNCHANGED <<waiting, answer>>

SetLocal(w, keep) ==
  /\ w <= Len(Callee.operands)
  /\ \E i \in 1..(Len(Callee.locals) - w + 1), at \in Offsets :
       Becomes([Callee EXCEPT !.at = at,
                  !.operands = First(@, w - keep),
                  !.locals = [j \in DOMAIN @ |->
                     IF j \in i..(i + w - 1)
                     THEN LastOf(Callee.operands, w)[j - i + 1] ELSE @[j]]])
  /\ UNCHANGED <<waiting, answer>>

Branch(selector, depth, arity) ==
  /\ \E at \in Offsets :
       Becomes([Callee EXCEPT !.at = at,
                  !.operands = First(@, selector + depth)
                                 \o LastOf(First(@, selector), arity)])
  /\ UNCHANGED <<waiting, answer>>

(* The arguments move from the caller's operands to the callee's locals. *)
Enter(f, index) ==
  /\ LET rest == First(Callee.operands, index)
         args == LastOf(rest, ParamWords[f])
     IN acts' = Append([acts EXCEPT ![Depth].operands = First(rest, ParamWords[f])],
                       Activation(f, args))
  /\ UNCHANGED <<waiting, answer>>

(* The result goes to the caller, which resumes after its two-word call. *)
Leave(selector) ==
  LET words == LastOf(First(Callee.operands, selector), ResultWords[Callee.fn])
      caller == acts[Depth - 1]
  IN /\ \/ /\ Depth = 1
           /\ acts' = <<>> /\ answer' = words
        \/ /\ Depth > 1
           /\ acts' = [SubSeq(acts, 1, Depth - 1) EXCEPT
                         ![Depth - 1].operands = @ \o words,
                         ![Depth - 1].at = @ + 2]
           /\ UNCHANGED answer
     /\ UNCHANGED waiting

AskHost(h, index) ==
  /\ waiting = None
  /\ waiting' = HostResult[h]
  /\ Becomes([Callee EXCEPT !.operands = First(@, index + HostParams[h]),
                            !.at = @ + 2])
  /\ UNCHANGED answer

Answer ==
  /\ waiting # None
  /\ \E words \in Tuples(waiting) : Becomes([Callee EXCEPT !.operands = @ \o words])
  /\ waiting' = None
  /\ UNCHANGED answer

Trap == acts' = <<>> /\ UNCHANGED <<waiting, answer>>

Abandon == acts' = <<>> /\ waiting' = None /\ answer' = None

Operand(n) == n <= Len(Callee.operands)

(* While a host call waits, the guest does not move. *)
Next ==
  \/ \E f \in Funcs : Begin(f)
  \/ /\ Calling /\ waiting = None
     /\ \/ \E p \in 0..Len(Callee.operands), q \in 0..2 : Compute(p, q)
        \/ \E w \in 1..2 : GetLocal(w) \/ SetLocal(w, 0) \/ SetLocal(w, w)
        \/ \E s \in 0..1, d \in 0..Len(Callee.operands), a \in 0..2 :
             Operand(s + d) /\ a <= d /\ Branch(s, d, a)
        \/ \E f \in Funcs, i \in 0..1 : Operand(i + ParamWords[f]) /\ Enter(f, i)
        \/ \E s \in 0..1 : Operand(s + ResultWords[Callee.fn]) /\ Leave(s)
        \/ \E h \in Hosts, i \in 0..1 : Operand(i + HostParams[h]) /\ AskHost(h, i)
        \/ Trap
  \/ Calling /\ Answer
  \/ Abandon

Spec == Init /\ [][Next]_avars
=============================================================================
