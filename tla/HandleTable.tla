---------------------------- MODULE HandleTable ----------------------------
(* The handle table of an instance (machine/handle.rs), in a debug build:   *)
(* slots that live handles name by index and generation, a free list of the *)
(* slots to use again, and a reference count in each live one.  Indexes     *)
(* count from 1 here, so that 0 can stand for the end of the free list.     *)
(*                                                                          *)
(* minted and turn are history: what the host was given and still counts on, *)
(* and how often each slot has been freed.  The generation of a slot is its *)
(* turn modulo the width of the field, so a handle kept through that many   *)
(* turns of its slot would read as live again; Recent is the assumption that *)
(* the host forgets it before.                                              *)
EXTENDS HandleBounds, Sequences, SequencesExt

VARIABLES
  slots,    \* HandleTable::slots
  freeHead, \* HandleTable::free_head
  answer,   \* of which reference the last operation was, and what it answered
  minted,   \* history: the handles minted, in order, with what they stand for
  turn      \* history: how often each slot has been freed

vars == <<slots, freeHead, answer, minted, turn>>

Occupied(v, g, r) == [kind |-> "Occupied", value |-> v, generation |-> g, refs |-> r]
Free(g, next) == [kind |-> "Free", generation |-> g, next |-> next]
Handle(i, g) == [id |-> Id, index |-> i, generation |-> g]

Answer(n, what) == [of |-> n, is |-> what]

FreeIds == {i \in 1 .. Len(slots) : slots[i].kind = "Free"}
Live == (1 .. Len(slots)) \ FreeIds
RootValues == {slots[i].value : i \in Live}

Init ==
  /\ slots = <<>> /\ freeHead = 0 /\ answer = Answer(0, "Done")
  /\ minted = <<>> /\ turn = <<>>

----------------------------------------------------------------------------
(* The operations.                                                          *)

\* Defect: the generation is not compared.
NamesSlot(h) == h.index \in Live

\* live_index: the index and generation name a live slot; then the id decides.
Names(h) ==
  /\ h.index \in Live
  /\ slots[h.index].generation = h.generation
Own(h) == Names(h) /\ h.id = Id
Refusal(h) == IF Names(h) THEN "ForeignInstance" ELSE "Stale"

\* Defect: the generation is bumped only where the slot is used again.
BumpedNot(g) == g

Bumped(g) == IF g = LastGeneration THEN 1 ELSE g + 1

Mint(v, i, g, t) ==
  minted' = Append(minted, [handle |-> Handle(i, g), turn |-> t, value |-> v, held |-> 1])

Reuse(v) ==
  LET slot == slots[freeHead] IN
  /\ freeHead # 0
  /\ freeHead' = slot.next
  /\ slots' = [slots EXCEPT ![freeHead] = Occupied(v, slot.generation, 1)]
  /\ Mint(v, freeHead, slot.generation, turn[freeHead])
  /\ UNCHANGED turn

Grow(v) ==
  /\ freeHead = 0
  /\ Len(slots) < MaxSlots
  /\ slots' = Append(slots, Occupied(v, 1, 1))
  /\ turn' = Append(turn, 0)
  /\ Mint(v, Len(slots) + 1, 1, 0)
  /\ UNCHANGED freeHead

Intern(v) ==
  /\ Len(minted) < MaxMinted
  /\ answer' = Answer(Len(minted) + 1, "Done")
  /\ Reuse(v) \/ Grow(v)

\* One reference less: the last one frees the slot under its next generation.
Drop(i) ==
  IF slots[i].refs > 1
  THEN /\ slots' = [slots EXCEPT ![i].refs = @ - 1]
       /\ UNCHANGED <<freeHead, turn>>
  ELSE /\ slots' = [slots EXCEPT ![i] = Free(Bumped(slots[i].generation), freeHead)]
       /\ freeHead' = i
       /\ turn' = [turn EXCEPT ![i] = @ + 1]

Counted(n, held) == minted' = [minted EXCEPT ![n].held = held]

Retain(n) ==
  LET h == minted[n].handle IN
  /\ Own(h) /\ minted[n].held < MaxRefs
  /\ slots' = [slots EXCEPT ![h.index].refs = @ + 1]
  /\ Counted(n, minted[n].held + 1)
  /\ answer' = Answer(n, "Done")
  /\ UNCHANGED <<freeHead, turn>>

Release(n) ==
  LET h == minted[n].handle IN
  /\ Own(h)
  /\ Drop(h.index)
  /\ Counted(n, minted[n].held - 1)
  /\ answer' = Answer(n, "Done")

Resolve(n) ==
  LET h == minted[n].handle IN
  /\ Own(h)
  /\ answer' = Answer(n, slots[h.index].value)
  /\ UNCHANGED <<slots, freeHead, minted, turn>>

\* A host callback's reply: the value is read, then the reference is released.
Consume(n) ==
  LET h == minted[n].handle IN
  /\ Own(h)
  /\ answer' = Answer(n, slots[h.index].value)
  /\ Drop(h.index)
  /\ Counted(n, minted[n].held - 1)

\* n is the reference, or 0 for a handle that another instance minted.
Refuse(h, n) ==
  /\ ~Own(h)
  /\ answer' = Answer(n, Refusal(h))
  /\ UNCHANGED <<slots, freeHead, minted, turn>>

----------------------------------------------------------------------------
(* The host.                                                                *)

\* Bound: the slot has not gone through all generations since the handle.
Recent(n) == turn[minted[n].handle.index] - minted[n].turn < LastGeneration

Foreign == [id : OtherIds, index : 1 .. MaxSlots, generation : 1 .. LastGeneration]

Next ==
  \/ \E v \in Values : Intern(v)
  \/ \E n \in 1 .. Len(minted) :
       /\ Recent(n)
       /\ \/ Retain(n) \/ Release(n) \/ Resolve(n) \/ Consume(n)
          \/ Refuse(minted[n].handle, n)
  \/ \E h \in Foreign : Refuse(h, 0)

Spec == Init /\ [][Next]_vars

----------------------------------------------------------------------------
(* Properties.                                                              *)

Slots ==
  [kind : {"Occupied"}, value : Values, generation : 1 .. LastGeneration, refs : 1 .. MaxRefs]
    \cup [kind : {"Free"}, generation : 1 .. LastGeneration, next : 0 .. MaxSlots]
Minted ==
  [handle : [id : {Id}, index : 1 .. MaxSlots, generation : 1 .. LastGeneration],
   turn : Nat, value : Values, held : 0 .. MaxRefs]

\* The types of the state.  No generation is 0, so that no live handle packs to the
\* bits the boundary keeps for "no handle", not even after the field has wrapped.
TypeOK ==
  /\ slots \in Seq(Slots) /\ Len(slots) <= MaxSlots
  /\ freeHead \in 0 .. Len(slots)
  /\ minted \in Seq(Minted)
  /\ turn \in Seq(Nat) /\ Len(turn) = Len(slots)

Chain(list) ==
  /\ IsInjective(list)
  /\ freeHead = IF Len(list) = 0 THEN 0 ELSE list[1]
  /\ \A k \in 1 .. Len(list) :
       slots[list[k]].next = IF k = Len(list) THEN 0 ELSE list[k + 1]

\* The links from free_head visit every free slot, each once, and end: no slot is
\* lost, none is given out twice, and intern never meets an occupied one.
FreeListExact ==
  \E list \in SeqOf(FreeIds, Len(slots)) : Chain(list) /\ Range(list) = FreeIds

\* A handle the host was given yields its own value while the host holds a reference
\* and is stale once it has released the last, however often the slot is used again.
HandlesAreExact ==
  \A n \in 1 .. Len(minted) : Recent(n) =>
    LET h == minted[n].handle IN
    IF minted[n].held > 0
    THEN Own(h) /\ slots[h.index].value = minted[n].value
    ELSE Refusal(h) = "Stale"

\* What the table keeps from the collector is what the host holds: no value it still
\* counts on is dropped, none that it has released stays rooted.
RootsAreHeld ==
  RootValues = {minted[n].value : n \in {m \in 1 .. Len(minted) : minted[m].held > 0}}

\* What the table is trusted with: see FreeListExact, HandlesAreExact and RootsAreHeld.
TableSound == TypeOK /\ FreeListExact /\ HandlesAreExact /\ RootsAreHeld

\* The host cannot tell the table from references that are never used again.
References == INSTANCE References WITH
  refs <- [n \in 1 .. Len(minted) |-> [value |-> minted[n].value, held |-> minted[n].held]]
Implements == References!Spec
=============================================================================
