------------------------------- MODULE Roots -------------------------------
(* What keeps an object alive: a machine whose frames, transfers, saved     *)
(* bindings and debug records hold references to the heap, a collector that *)
(* runs at safe points from the roots gc.rs lists, and the auxiliary        *)
(* evaluation (aux_eval.rs) that sets the whole machine aside and runs the  *)
(* program's own to_string at a stop.                                       *)
(*                                                                          *)
(* A frame has one local; which transition comes next is left to the        *)
(* program.  The handles are the set of values the table roots (see         *)
(* HandleTable).                                                            *)
EXTENDS Heap

CONSTANTS
  RingCapacity, \* of the ring of elided frames (64)
  GcMinBytes,   \* floor of the collection threshold (2^20)
  HeapLimit,    \* Limits::heap_bytes
  MaxObjects,   \* bound: objects ever allocated
  MaxFrames,    \* bound: frames of the program, without the one an evaluation pushes
  MaxConts,     \* bound: pending continuations of a frame
  MaxHandles    \* bound: values the host holds

ASSUME RootsAssumption ==
  /\ RingCapacity \in Nat \ {0} /\ GcMinBytes \in Nat /\ HeapLimit \in Nat
  /\ MaxObjects \in Nat \ {0} /\ MaxFrames \in Nat \ {0}
  /\ MaxConts \in Nat /\ MaxHandles \in Nat

VARIABLES
  stress,       \* gc_every_safe_point: collect at each of them
  heap,         \* Instance::heap
  threshold,    \* gc_threshold
  frames,       \* Machine::frames
  reg,          \* the result register
  unwind,       \* the raise in flight
  handling,     \* the exceptions whose rescue bodies run
  ring,         \* the elided callables, the most recent first
  dyn,          \* dyn_stack: the values that withs have saved
  param,        \* the module cell of a dynamic parameter
  foreignRoots, \* arguments of native calls that are running
  pending,      \* arguments of the parked capability request
  handles,      \* values the host holds
  traced,       \* those it has read from a trace
  raised,       \* raised_value and raised_trace
  turn,         \* who is to act, or how the instance ended
  aux,          \* what an auxiliary evaluation has set aside
  finalized     \* history: how often each object's finalizer has run

vars == <<stress, heap, threshold, frames, reg, unwind, handling, ring, dyn, param,
          foreignRoots, pending, handles, traced, raised, turn, aux, finalized>>

NoTrace == [frames |-> <<>>, tail |-> <<>>]
NoUnwind == [armed |-> FALSE, value |-> Scalar, trace |-> NoTrace, trapped |-> FALSE]
Raise(v, t) == [armed |-> TRUE, value |-> v, trace |-> t, trapped |-> FALSE]
NoRaise == [value |-> Scalar, trace |-> NoTrace]

Frame(cal, local) == [cal |-> cal, local |-> local, conts |-> <<>>]
Cont(kind, val, mark) == [kind |-> kind, val |-> val, mark |-> mark]
NoAux == [on |-> FALSE]

\* The implementation of Stringable, which only the protocol registry holds.
Stringable == [slot |-> 1, serial |-> 1]

Init ==
  /\ stress \in BOOLEAN
  /\ heap = Alloc(EmptyHeap, "Callable", <<>>)
  /\ threshold = GcMinBytes
  /\ frames = <<Frame(Scalar, Scalar)>>
  /\ reg = Scalar /\ unwind = NoUnwind /\ handling = <<>> /\ ring = <<>>
  /\ dyn = <<>> /\ param = Scalar /\ foreignRoots = <<>> /\ pending = <<>>
  /\ handles = {} /\ traced = {} /\ raised = NoRaise /\ turn = "Running" /\ aux = NoAux
  /\ finalized = <<>>

----------------------------------------------------------------------------
(* The roots, in the order of gc.rs, and the safe point that collects.      *)

FrameRefs(f) == {f.cal, f.local} \cup {c.val : c \in ToSet(f.conts)}
TraceRefs(t) == ToSet(t.frames) \cup ToSet(t.tail)

\* Defect: the values withs have saved are no roots.
HandlingRefs == {e.value : e \in ToSet(handling)}
SavedRefs == ToSet(dyn) \cup {e.value : e \in ToSet(handling)}

RootRefs ==
  (UNION {FrameRefs(f) : f \in ToSet(frames)}) \cup {reg, raised.value}
    \cup TraceRefs(raised.trace) \cup {unwind.value} \cup ToSet(ring) \cup handles
    \cup traced \cup {param} \cup {Stringable} \cup ToSet(pending) \cup ToSet(foreignRoots)
    \cup SavedRefs

RootSlots == {r.slot : r \in RootRefs} \ {0}

\* Objects whose finalizers run now.
Finalize(serials) ==
  finalized' = [n \in DOMAIN finalized |->
                  finalized[n] + (IF n \in serials THEN 1 ELSE 0)]

\* An object with a finalizer has been made.
Watched(serial) ==
  [n \in DOMAIN finalized \cup {serial} |-> IF n = serial THEN 0 ELSE finalized[n]]

Top == Last(frames)
WithTop(f) == Append(Front(frames), f)
Base == IF aux.on THEN aux.base ELSE 0
Nested == \E f \in ToSet(frames) : \E c \in ToSet(f.conts) : c.kind = "Native"

\* Where a safe point leaves the machine that neither faults nor panics.
Onward ==
  IF frames' = <<>> /\ ~aux.on THEN {"Completed"}
  ELSE IF aux.on \/ Nested' THEN {"Running"} ELSE {"Running", "Paused"}

\* Defect: the limit does not ask for a collection.
DueAboveThreshold(h) == stress \/ h.bytes > threshold

\* A collection is due above the lower of threshold and limit.
Due(h) == stress \/ h.bytes > Min({threshold, HeapLimit})

\* The settings and accounts of the collector.
collector == <<stress, threshold, finalized>>

\* Where it leaves the heap: a heap above the limit is a fault.
Left(h) == heap' = h /\ IF h.bytes > HeapLimit THEN turn' = "OutOfHeap" ELSE turn' \in Onward

\* A root that names a free slot is a panic; the threshold is armed anew from what is left.
Collect(h, marked) ==
  IF marked \cap Holes(h) # {}
  THEN heap' = h /\ turn' = "Panicked" /\ UNCHANGED <<threshold, finalized>>
  ELSE /\ \E after \in {Sweep(h, marked)} :
            Left(after) /\ threshold' = Max({2 * after.bytes, GcMinBytes})
       /\ Finalize(Finalizers(h, Swept(h, marked)))

\* safe_point, at the end of a transition that leaves the heap h.
SafePoint(h) ==
  /\ IF Due(h) THEN \E marked \in {Marked(h, RootSlots')} : Collect(h, marked)
     ELSE Left(h) /\ UNCHANGED <<threshold, finalized>>
  /\ UNCHANGED stress

----------------------------------------------------------------------------
(* The program: what a transition without a transfer does.                  *)

Runs == turn = "Running" /\ ~unwind.armed /\ Len(frames) > Base

\* Everything but the frames, the register and the heap.
contexts == <<unwind, handling, ring, dyn, param, foreignRoots, pending>>
host == <<handles, traced, raised, aux>>

Seat(kind) == Top.conts # <<>> /\ Last(Top.conts).kind = kind
Room == Len(Top.conts) < MaxConts
Push(kind, val, mark) == [Top EXCEPT !.conts = Append(@, Cont(kind, val, mark))]
Popped == [Top EXCEPT !.conts = Front(@)]

\* A statement begins: the register is cleared.
Statement ==
  /\ Runs /\ ~Seat("Call") /\ ~Seat("Native")
  /\ reg' = Scalar
  /\ UNCHANGED <<frames, contexts, host>>
  /\ SafePoint(heap)

\* An expression makes an object: a callable captures the local.
Make ==
  /\ Runs /\ ~Seat("Native") /\ reg = Scalar /\ heap.serial < MaxObjects
  /\ \E kind \in Kinds :
       LET holds == IF kind = "Callable" /\ Top.local # Scalar THEN <<Top.local>> ELSE <<>>
       IN /\ heap' = Alloc(heap, kind, holds)
          /\ finalized' = IF kind = "Foreign" THEN Watched(heap.serial + 1) ELSE finalized
  /\ reg' = NextRef(heap)
  /\ UNCHANGED <<stress, frames, turn, threshold, contexts, host>>

\* An expression reads the local, the parameter, or what the local's object holds.
Read ==
  /\ Runs /\ ~Seat("Native") /\ reg = Scalar
  /\ \/ reg' \in {Top.local, param}
     \/ Top.local # Scalar /\ reg' \in ToSet(Object(heap, Top.local).refs)
  /\ UNCHANGED <<heap, frames, turn, collector, contexts, host>>

\* The register is bound to the local.
Bind ==
  /\ Runs /\ ~Seat("Native") /\ ~Seat("Call")
  /\ frames' = WithTop([Top EXCEPT !.local = reg])
  /\ reg' = Scalar
  /\ UNCHANGED <<heap, turn, collector, contexts, host>>

\* The register is appended to a list.
AppendItem ==
  /\ Runs /\ ~Seat("Native") /\ Is(heap, Top.local, "List") /\ reg # Scalar
  /\ Object(heap, Top.local).refs = <<>> \* bound: one item
  /\ heap' = ListPush(heap, Top.local, reg)
  /\ reg' = Scalar
  /\ UNCHANGED <<frames, turn, collector, contexts, host>>

\* The callee is in the register: it waits in a continuation for its argument.
GotCallee ==
  /\ Runs /\ ~Seat("Native") /\ ~Seat("Call") /\ Is(heap, reg, "Callable")
  /\ frames' = WithTop(Push("Call", reg, 0))
  /\ reg' = Scalar
  /\ UNCHANGED <<heap, turn, collector, contexts, host>>

\* apply, on a frame of its own: a call entry is a safe point.
Call ==
  /\ Runs /\ Seat("Call") /\ Len(frames) < MaxFrames
  /\ frames' = Append(WithTop(Popped), Frame(Last(Top.conts).val, reg))
  /\ reg' = Scalar
  /\ UNCHANGED <<contexts, host>>
  /\ SafePoint(heap)

Record(r) == SubSeq(<<r>> \o ring, 1, Min({RingCapacity, Len(ring) + 1}))

\* apply, in the frame of the caller, which the ring remembers.
TailCall ==
  /\ Runs /\ Seat("Call") /\ Len(Top.conts) = 1 /\ Top.cal # Scalar
  /\ ring' = Record(Top.cal)
  /\ frames' = WithTop(Frame(Last(Top.conts).val, reg))
  /\ reg' = Scalar
  /\ UNCHANGED <<heap, unwind, handling, dyn, param, foreignRoots, pending, turn,
                 collector, host>>

\* A body ends: a function yields its value, a procedure or a module none.  (A function that
\* has no value raises in its caller: Return, then RaiseValue of an object Make has made.)
Return ==
  /\ Runs /\ Top.conts = <<>>
  /\ frames' = Front(frames)
  /\ reg' \in IF Top.cal = Scalar /\ Len(frames) = 1 THEN {Scalar} ELSE {reg, Scalar}
  /\ UNCHANGED <<contexts, host>>
  /\ SafePoint(heap)

\* A native call takes the register for its argument, which it roots.
EnterNative ==
  /\ Runs /\ ~Seat("Native") /\ ~Seat("Call") /\ Room
  /\ foreignRoots' = Append(foreignRoots, reg)
  /\ frames' = WithTop(Push("Native", Scalar, Len(foreignRoots)))
  /\ reg' = Scalar
  /\ UNCHANGED <<heap, unwind, handling, ring, dyn, param, pending, turn, collector, host>>

\* It invokes its block with what its argument holds now.
InvokeBlock ==
  /\ Runs /\ Seat("Native") /\ Len(frames) < MaxFrames
  /\ \E item \in {Scalar} \cup (IF Last(foreignRoots) = Scalar THEN {}
                               ELSE ToSet(Object(heap, Last(foreignRoots)).refs)) :
       frames' = Append(frames, Frame(Scalar, item))
  /\ UNCHANGED <<reg, contexts, host>>
  /\ SafePoint(heap)

\* It returns: a native procedure yields no value.
LeaveNative ==
  /\ Runs /\ Seat("Native")
  /\ foreignRoots' = SubSeq(foreignRoots, 1, Last(Top.conts).mark)
  /\ frames' = WithTop(Popped)
  /\ reg' = Scalar
  /\ UNCHANGED <<heap, unwind, handling, ring, dyn, param, pending, turn, collector, host>>

\* with: the parameter's value is saved and replaced by the register.
EnterWith ==
  /\ Runs /\ ~Seat("Native") /\ ~Seat("Call") /\ Room
  /\ dyn' = Append(dyn, param)
  /\ param' = reg
  /\ frames' = WithTop(Push("With", Scalar, Len(dyn)))
  /\ reg' = Scalar
  /\ UNCHANGED <<heap, unwind, handling, ring, foreignRoots, pending, turn, collector, host>>

EnterTry ==
  /\ Runs /\ ~Seat("Native") /\ ~Seat("Call") /\ Room
  /\ frames' = WithTop(Push("Try", Scalar, 0))
  /\ UNCHANGED <<heap, reg, turn, collector, contexts, host>>

\* What leaving continuations undoes: discard_cont, of each from the top.
Mark(kind, conts, n) == Min({n} \cup {c.mark : c \in {d \in ToSet(conts) : d.kind = kind}})
Rescues(conts) == {i \in DOMAIN conts : conts[i].kind = "Handler"}

\* Defect: the exceptions in hand stay.
HandlingKept(conts) == handling
HandlingWithout(conts) == SubSeq(handling, 1, Len(handling) - Cardinality(Rescues(conts)))

\* Defect: the saved bindings are dropped, not written back.
ParamKept(n) == param

\* restore: the parameter as it was when n bindings were in force.
ParamAt(n) == IF n < Len(dyn) THEN dyn[n + 1] ELSE param

Undo(conts) ==
  LET mark == Mark("With", conts, Len(dyn))
  IN /\ dyn' = SubSeq(dyn, 1, mark)
     /\ param' = ParamAt(mark)
     /\ foreignRoots' = SubSeq(foreignRoots, 1, Mark("Native", conts, Len(foreignRoots)))

\* The body of a try, a rescue or a with ends.
EndBody ==
  /\ Runs /\ (Seat("Try") \/ Seat("Handler") \/ Seat("With"))
  /\ handling' = HandlingWithout(<<Last(Top.conts)>>)
  /\ Undo(<<Last(Top.conts)>>)
  /\ frames' = WithTop(Popped)
  /\ UNCHANGED <<heap, reg, unwind, ring, pending, turn, collector, host>>

\* A return statement leaves the frame of its callable, whatever is pending there.
Exit ==
  /\ Runs /\ Top.cal # Scalar /\ Top.conts # <<>> /\ ~Seat("Call") /\ ~Seat("Native")
  /\ handling' = HandlingWithout(Top.conts)
  /\ Undo(Top.conts)
  /\ frames' = Front(frames)
  /\ UNCHANGED <<reg, unwind, ring, pending, host>>
  /\ SafePoint(heap)

----------------------------------------------------------------------------
(* Raises.                                                                  *)

\* capture_trace: the callables of the frames and of the ring.
Capture ==
  LET callables == SelectSeq(frames, LAMBDA f : f.cal # Scalar)
  IN [frames |-> Reverse([i \in DOMAIN callables |-> callables[i].cal]), tail |-> ring]

RaiseValue ==
  /\ Runs /\ ~Seat("Native")
  /\ unwind' = Raise(reg, Capture)
  /\ reg' = Scalar
  /\ UNCHANGED <<heap, frames, handling, ring, dyn, param, foreignRoots, pending, turn,
                 collector, host>>

\* A bare raise, in a rescue body: the exception in hand with its own trace.
Reraise ==
  /\ Runs /\ \E c \in ToSet(Top.conts) : c.kind = "Handler"
  /\ ~Seat("Native") /\ ~Seat("Call")
  /\ unwind' = Raise(Last(handling).value, Last(handling).trace)
  /\ UNCHANGED <<heap, frames, reg, handling, ring, dyn, param, foreignRoots, pending, turn,
                 collector, host>>

\* The drive stops on the raise before it unwinds.
TrapRaise ==
  /\ turn = "Running" /\ unwind.armed /\ ~unwind.trapped /\ ~aux.on /\ ~Nested
  /\ unwind' = [unwind EXCEPT !.trapped = TRUE]
  /\ turn' = "Paused"
  /\ UNCHANGED <<heap, frames, reg, handling, ring, dyn, param, foreignRoots, pending,
                 collector, host>>

Unwinds == turn = "Running" /\ unwind.armed /\ Len(frames) > Base
Handlers == {i \in DOMAIN Top.conts : Top.conts[i].kind = "Try"}

\* raise_unwind reaches a handler: the rescue variable is bound and the exception is in hand.
Catch ==
  /\ Unwinds /\ Handlers # {}
  /\ LET at == Max(Handlers)
         left == SubSeq(Top.conts, at + 1, Len(Top.conts))
         rescue == Append(SubSeq(Top.conts, 1, at - 1), Cont("Handler", Scalar, 0))
     IN /\ Undo(left)
        /\ handling' = Append(HandlingWithout(left),
                              [value |-> unwind.value, trace |-> unwind.trace])
        /\ frames' = WithTop([Top EXCEPT !.local = unwind.value, !.conts = rescue])
  /\ unwind' = NoUnwind
  /\ UNCHANGED <<heap, reg, ring, pending, turn, collector, host>>

\* It does not: the frame is abandoned, and the last one ends the program.
Abandon ==
  /\ Unwinds /\ Handlers = {}
  /\ handling' = HandlingWithout(Top.conts)
  /\ Undo(Top.conts)
  /\ frames' = Front(frames)
  /\ IF Len(frames) = 1 /\ ~aux.on
     THEN /\ raised' = [value |-> unwind.value, trace |-> unwind.trace]
          /\ unwind' = NoUnwind
          /\ turn' = "Raised"
     ELSE UNCHANGED <<raised, unwind, turn>>
  /\ UNCHANGED <<heap, reg, ring, pending, collector, handles, traced, aux>>

----------------------------------------------------------------------------
(* The host.                                                                *)

\* A capability takes the register for its argument and parks; its request gives the
\* host a handle to it.  Inside a nested drive that is a fault.
Suspend ==
  /\ Runs /\ ~Seat("Native") /\ Cardinality(handles) < MaxHandles
  /\ reg' = Scalar
  /\ IF aux.on \/ Nested
     THEN turn' = "Faulted" /\ UNCHANGED <<pending, handles>>
     ELSE /\ turn' = "Suspended"
          /\ pending' = <<reg>>
          /\ handles' = handles \cup ({reg} \ {Scalar})
  /\ UNCHANGED <<heap, frames, unwind, handling, ring, dyn, param, foreignRoots,
                 collector, raised, traced, aux>>

Faults == turn \in {"Faulted", "OutOfHeap"}
Stops == ~aux.on /\ (turn \in {"Paused", "Suspended", "Completed", "Raised"} \/ Faults)

Resume ==
  /\ turn = "Paused" /\ ~aux.on
  /\ turn' = "Running"
  /\ UNCHANGED <<heap, frames, reg, collector, contexts, host>>

\* The capability is answered with a value, or with a raise of one.
Resolve ==
  /\ turn = "Suspended" /\ ~aux.on
  /\ turn' = "Running"
  /\ pending' = <<>>
  /\ \E v \in handles \cup {Scalar} :
       \/ reg' = v /\ UNCHANGED unwind
       \/ unwind' = Raise(v, Capture) /\ UNCHANGED reg
  /\ UNCHANGED <<heap, frames, handling, ring, dyn, param, foreignRoots, collector, host>>

\* The host takes a handle to a callable or a local of a frame, or to the exception.
Hold ==
  /\ Stops /\ Cardinality(handles) < MaxHandles
  /\ \E v \in (UNION {{f.cal, f.local} : f \in ToSet(frames)}) \cup {raised.value} :
       v # Scalar /\ handles' = handles \cup {v}
  /\ UNCHANGED <<heap, frames, reg, turn, collector, contexts, raised, traced, aux>>

\* It takes one to a callable of the trace; for an elided one the reader looks into it.
ReadTrace ==
  /\ Stops /\ Cardinality(traced) < MaxHandles
  /\ \/ /\ \E v \in ToSet(raised.trace.frames) : traced' = traced \cup {v}
        /\ UNCHANGED turn
     \/ \E v \in ToSet(raised.trace.tail) :
          IF Object(heap, v) = Hole THEN turn' = "Panicked" /\ UNCHANGED traced
          ELSE traced' = traced \cup {v} /\ UNCHANGED turn
  /\ UNCHANGED <<heap, frames, reg, collector, contexts, handles, raised, aux>>

Release ==
  /\ Stops
  /\ \/ \E v \in handles : handles' = handles \ {v} /\ UNCHANGED traced
     \/ \E v \in traced : traced' = traced \ {v} /\ UNCHANGED handles
  /\ UNCHANGED <<heap, frames, reg, turn, collector, contexts, raised, aux>>

\* The instance is dropped: finalize_all.
Destroy ==
  /\ Stops \/ turn = "Panicked"
  /\ turn' = "Destroyed"
  /\ heap' = FinalizeAll(heap)
  /\ Finalize(Finalizers(heap, SlotsOf(heap)))
  /\ UNCHANGED <<stress, threshold, frames, reg, contexts, host>>

----------------------------------------------------------------------------
(* Auxiliary evaluation.                                                    *)

\* What foreign_roots holds in place of the fields that are set aside.
Kept == <<reg, unwind.value>> \o pending

\* eval_to_string: the machine is set aside and the implementation's frame pushed.  A fault
\* has ended the native calls that were running.
BeginAux ==
  /\ Stops
  /\ LET roots == IF Faults THEN <<>> ELSE foreignRoots
     IN /\ aux' = [on |-> TRUE, reg |-> reg, unwind |-> unwind, pending |-> pending,
                   ring |-> ring, threshold |-> threshold, turn |-> turn,
                   base |-> Len(frames), handling |-> Len(handling), dyn |-> Len(dyn),
                   foreign |-> Len(roots),
                   was |-> [frames |-> frames, handling |-> handling, dyn |-> dyn,
                            param |-> param, foreignRoots |-> roots]]
        /\ foreignRoots' = roots \o Kept
  /\ unwind' = NoUnwind
  /\ pending' = <<>>
  /\ \E v \in handles : frames' = Append(frames, Frame(Stringable, v))
  /\ turn' = "Running"
  /\ UNCHANGED <<heap, reg, handling, ring, dyn, param, collector, handles, traced, raised>>

\* Its own budget runs out.
AuxBudget ==
  /\ aux.on /\ turn = "Running" /\ Len(frames) > Base
  /\ turn' = "Faulted"
  /\ UNCHANGED <<heap, frames, reg, collector, contexts, host>>

\* It has returned, raised to its boundary, or faulted: everything is put back, and its
\* result, if it has one, becomes the host's.
EndAux ==
  /\ aux.on /\ (Faults \/ (turn = "Running" /\ Len(frames) = Base))
  /\ frames' = SubSeq(frames, 1, aux.base)
  /\ dyn' = SubSeq(dyn, 1, aux.dyn) /\ param' = ParamAt(aux.dyn)
  /\ handling' = SubSeq(handling, 1, aux.handling)
  /\ foreignRoots' = SubSeq(foreignRoots, 1, aux.foreign)
  /\ threshold' = aux.threshold
  /\ reg' = aux.reg /\ unwind' = aux.unwind
  /\ pending' = aux.pending /\ ring' = aux.ring
  /\ turn' = aux.turn /\ aux' = NoAux
  /\ handles' = handles \cup
       (IF Faults THEN {}
        ELSE {IF unwind.armed THEN unwind.value ELSE reg} \ {Scalar})
  /\ UNCHANGED <<stress, heap, raised, traced, finalized>>

----------------------------------------------------------------------------
Next ==
  \/ Statement \/ Make \/ Read \/ Bind \/ AppendItem
  \/ GotCallee \/ Call \/ TailCall \/ Return \/ Exit
  \/ EnterNative \/ InvokeBlock \/ LeaveNative
  \/ EnterWith \/ EnterTry \/ EndBody
  \/ RaiseValue \/ Reraise \/ TrapRaise \/ Catch \/ Abandon
  \/ Suspend \/ Resume \/ Resolve \/ Hold \/ ReadTrace \/ Release \/ Destroy
  \/ BeginAux \/ AuxBudget \/ EndAux

Spec == Init /\ [][Next]_vars

----------------------------------------------------------------------------
(* Properties.                                                              *)

\* Every variable has its type.
TypeOK ==
  /\ stress \in BOOLEAN /\ threshold \in Nat
  /\ heap.bytes \in Nat /\ heap.serial \in 1 .. MaxObjects
  /\ Len(frames) <= MaxFrames + 1 /\ Len(ring) <= RingCapacity
  /\ turn \in {"Running", "Paused", "Suspended", "Completed", "Raised", "Faulted",
               "OutOfHeap", "Panicked", "Destroyed"}
  /\ DOMAIN finalized \subseteq 1 .. heap.serial

\* The values in use: what the machine will still read, what a running auxiliary
\* evaluation has set aside, what the host holds.
InUse ==
  (UNION {FrameRefs(f) : f \in ToSet(frames)})
    \cup {reg, unwind.value, param} \cup ToSet(dyn) \cup ToSet(foreignRoots)
    \cup {e.value : e \in ToSet(handling)}
    \cup handles \cup ToSet(pending) \cup {raised.value}
    \cup (IF aux.on THEN {aux.reg, aux.unwind.value} \cup ToSet(aux.pending) ELSE {})

Held == UNION {ToSet(heap.slots[i].refs) : i \in SlotsOf(heap)}

\* No collection, at whatever safe point of whatever drive, frees a value in use or one that
\* a live object holds; nor is its slot given to another object (gc.rs, aux_eval.rs 128).
NothingInUseIsFreed == \A r \in InUse \cup Held : Live(heap, r)

\* The free list has the holes in the order of their slots, so that allocation is the same
\* in every run, and the account is what the live objects were charged (slab.rs, heap.rs).
SlabExact ==
  /\ ToSet(heap.free) = Holes(heap)
  /\ \A m, n \in DOMAIN heap.free : m < n => heap.free[m] < heap.free[n]
  /\ heap.bytes = Charges(heap, SlotsOf(heap) \ Holes(heap))

\* A finalizer runs once: when a collection frees its object, or else at the end of the
\* instance (heap/gc.rs sweep_all, heap.rs finalize_all).
FinalizedOnce ==
  \A n \in DOMAIN finalized :
    LET alive == \E i \in SlotsOf(heap) : heap.slots[i].serial = n
    IN finalized[n] = IF alive /\ turn # "Destroyed" THEN 0 ELSE 1

\* What every sweep and every end of the instance leaves of the slab: see SlabExact and
\* FinalizedOnce.
SlabSound == TypeOK /\ SlabExact /\ FinalizedOnce

\* The continuations of a kind, each by its frame and its place there.
Places(fs, kind) ==
  UNION {{i} \X {n \in DOMAIN fs[i].conts : fs[i].conts[n].kind = kind} : i \in DOMAIN fs}
Count(kind) == Cardinality(Places(frames, kind))

\* However a body is left, what it set up is undone: there are as many exceptions in hand as
\* rescue bodies pending and as many saved bindings as withs, and beneath the first of them
\* the parameter has its own value (cleanup.rs discard_cont; L 12.2).
BindingsUndone ==
  turn # "Panicked" =>
    /\ Len(handling) = Count("Handler") /\ Len(dyn) = Count("With")
    /\ (IF dyn = <<>> THEN param ELSE Head(dyn)) = Scalar

\* An auxiliary evaluation, however it ends, leaves the stop it began at as it was
\* (aux_eval.rs 6-14).
PauseIntact ==
  [][aux.on /\ ~aux'.on =>
       /\ [frames |-> frames', handling |-> handling', dyn |-> dyn', param |-> param',
           foreignRoots |-> foreignRoots'] = aux.was
       /\ <<reg', unwind', pending', ring', threshold', turn'>> =
            <<aux.reg, aux.unwind, aux.pending, aux.ring, aux.threshold, aux.turn>>]_vars

\* A safe point faults on the heap limit only when what is left is in use: a program that
\* drops garbage goes on (limits.rs 118).
HeapFaultIsReal ==
  [][turn' = "OutOfHeap" /\ turn = "Running" /\ aux' = aux
       => /\ SlotsOf(heap)' \ Holes(heap)' \subseteq Marked(heap, RootSlots)'
          /\ heap'.bytes > HeapLimit]_vars

=============================================================================
