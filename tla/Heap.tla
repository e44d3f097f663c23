------------------------------- MODULE Heap --------------------------------
(* The heap (heap.rs, heap/slab.rs, heap/gc.rs) as operators on a record:   *)
(* the slots of a slab, the list of free ones, the account of bytes and the *)
(* allocation counter.  The ten slabs of the code, one for each kind of     *)
(* object, are one here: a value names its kind, so an index is never used  *)
(* with another slab.  A callable holds its captured values directly; the   *)
(* cells between are left out.                                              *)
(*                                                                          *)
(* The code's reference is a slot alone.  Here it carries the serial of the *)
(* object it was taken to as well, which no operator looks at but Live: a   *)
(* reference whose slot has been freed, or used again, is not live.         *)
EXTENDS Integers, Sequences, FiniteSets, SequencesExt, FiniteSetsExt, TLC

\* The sum of a sequence of numbers.
Total(s) ==
  LET upto[n \in 0 .. Len(s)] == IF n = 0 THEN 0 ELSE upto[n - 1] + s[n]
  IN upto[Len(s)]

\* The sequence of the members of a finite set of numbers, in their order.
Ascending(S) ==
  CHOOSE s \in [1 .. Cardinality(S) -> S] :
    \A m, n \in 1 .. Cardinality(S) : m < n => s[m] < s[n]

----------------------------------------------------------------------------
Kinds == {"Callable", "List", "Foreign"}

Hole == [kind |-> "Hole", serial |-> 0, refs |-> <<>>, finalizer |-> FALSE]
Scalar == [slot |-> 0, serial |-> 0] \* nil, a number, no value: nothing in the heap

EmptyHeap == [slots |-> <<>>, free |-> <<>>, bytes |-> 0, serial |-> 0]

SlotsOf(h) == 1 .. Len(h.slots)
Holes(h) == {i \in SlotsOf(h) : h.slots[i] = Hole}
Object(h, r) == h.slots[r.slot]
Live(h, r) ==
  \/ r = Scalar
  \/ r.slot \in SlotsOf(h) /\ Object(h, r).serial = r.serial
Is(h, r, kind) == r # Scalar /\ r.slot \in SlotsOf(h) /\ Object(h, r).kind = kind

----------------------------------------------------------------------------
(* Allocation: the first free slot is used again, and every object is       *)
(* charged an overhead and its payload.                                     *)

Overhead == 1
Charge(o) == Overhead + Len(o.refs)

\* What the objects of the slots S were charged.
Charges(h, S) == Total([i \in SlotsOf(h) |-> IF i \in S THEN Charge(h.slots[i]) ELSE 0])

NextSlot(h) == IF h.free = <<>> THEN Len(h.slots) + 1 ELSE Head(h.free)
NextRef(h) == [slot |-> NextSlot(h), serial |-> h.serial + 1]

Alloc(h, kind, refs) ==
  LET o == [kind |-> kind, serial |-> h.serial + 1, refs |-> refs,
            finalizer |-> kind = "Foreign"]
  IN [slots |-> IF h.free = <<>> THEN Append(h.slots, o)
                ELSE [h.slots EXCEPT ![NextSlot(h)] = o],
      free |-> IF h.free = <<>> THEN <<>> ELSE Tail(h.free),
      bytes |-> h.bytes + Charge(o),
      serial |-> h.serial + 1]

\* list_push charges for the place it takes.
ListPush(h, list, value) ==
  [h EXCEPT !.slots[list.slot].refs = Append(@, value), !.bytes = @ + 1]

----------------------------------------------------------------------------
(* Collection: mark what can be reached from the roots, sweep the rest.     *)

Children(h, i) == {r.slot : r \in ToSet(h.slots[i].refs)} \ {0}
Closed(h, S) == \A i \in S : Children(h, i) \subseteq S

\* What the mark phase marks: the smallest closed set with the roots.
Marked(h, roots) ==
  LET closed == {S \in SUBSET SlotsOf(h) : roots \subseteq S /\ Closed(h, S)}
  IN {i \in SlotsOf(h) : \A S \in closed : i \in S}

\* Defect: the last slot is passed over.
SweptButLast(h, marked) == (SlotsOf(h) \ {Len(h.slots)}) \ (marked \cup Holes(h))
Swept(h, marked) == SlotsOf(h) \ (marked \cup Holes(h))
Freed(h, marked) == Charges(h, Swept(h, marked))

\* The free list is built anew, in the order of the slots.
FreeList(h, marked) == Ascending(SlotsOf(h) \ marked)

Sweep(h, marked) ==
  [slots |-> [i \in SlotsOf(h) |-> IF i \in marked THEN h.slots[i] ELSE Hole],
   free |-> FreeList(h, marked),
   bytes |-> h.bytes - Freed(h, marked),
   serial |-> h.serial]

\* The objects a sweep, or the end of the instance, takes a finalizer from.
Finalizers(h, slots) == {h.slots[i].serial : i \in {j \in slots : h.slots[j].finalizer}}

\* At the end of the instance every object loses its own.
FinalizeAll(h) ==
  [h EXCEPT !.slots = [i \in DOMAIN @ |-> [@[i] EXCEPT !.finalizer = FALSE]]]

=============================================================================
