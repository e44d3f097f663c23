------------------------- MODULE HandleTableProofs -------------------------
(* Proofs about HandleTable, for every value of its constants.              *)
EXTENDS HandleTable, StackLemmas, FiniteSetTheorems, TLAPS

\* The count in a live slot is the host's; a handle it has released is of an earlier
\* turn of its slot.
Counting ==
  \A n \in 1 .. Len(minted) :
    LET i == minted[n].handle.index IN
    /\ i <= Len(slots)
    /\ minted[n].held > 0 =>
         /\ minted[n].turn = turn[i]
         /\ slots[i] = Occupied(minted[n].value, slots[i].generation, minted[n].held)
    /\ minted[n].held = 0 => minted[n].turn < turn[i]

\* No two references share a slot.
HeldOnce ==
  \A m, n \in 1 .. Len(minted) :
    /\ minted[m].held > 0 /\ minted[n].held > 0
    /\ minted[m].handle.index = minted[n].handle.index
    => m = n

\* Every live slot is live for a reference.
Backed ==
  \A i \in Live : \E n \in 1 .. Len(minted) :
    minted[n].held > 0 /\ minted[n].handle.index = i

\* The generation of a slot runs ahead of its handles' by the turns since, wrapped
\* around at most once while they are recent.
Passed(n) == turn[minted[n].handle.index] - minted[n].turn
Generations ==
  \A n \in 1 .. Len(minted) : Passed(n) < LastGeneration =>
    LET g == slots[minted[n].handle.index].generation IN
    \/ g = minted[n].handle.generation + Passed(n)
    \/ g = minted[n].handle.generation + Passed(n) - LastGeneration

IInv == TypeOK /\ FreeListExact /\ Counting /\ HeldOnce /\ Backed /\ Generations

----------------------------------------------------------------------------
(* What the state is made of, and what the updates do to it.                *)

LEMMA MintedFacts ==
  ASSUME TypeOK, NEW n \in 1 .. Len(minted)
  PROVE  /\ minted[n] \in Minted
         /\ minted[n].handle.id = Id
         /\ minted[n].handle.index \in 1 .. MaxSlots
         /\ minted[n].handle.generation \in 1 .. LastGeneration
         /\ minted[n].turn \in Nat /\ minted[n].value \in Values
         /\ minted[n].held \in 0 .. MaxRefs
<1>1. minted[n] \in Minted
  BY DEF TypeOK
<1> QED
  BY <1>1 DEF Minted

LEMMA SlotFacts ==
  ASSUME TypeOK, NEW i \in 1 .. Len(slots)
  PROVE  /\ slots[i] \in Slots
         /\ slots[i].generation \in 1 .. LastGeneration
         /\ turn[i] \in Nat
         /\ i \in Live =>
              /\ slots[i].value \in Values /\ slots[i].refs \in 1 .. MaxRefs
              /\ slots[i] = Occupied(slots[i].value, slots[i].generation, slots[i].refs)
         /\ i \in FreeIds => slots[i].next \in 0 .. MaxSlots
<1>1. slots[i] \in Slots /\ turn[i] \in Nat
  BY DEF TypeOK
<1> QED
  BY <1>1 DEF Slots, Live, FreeIds, Occupied

LEMMA SetSlot ==
  ASSUME TypeOK, NEW i \in 1 .. Len(slots), NEW e \in Slots,
         slots' = [slots EXCEPT ![i] = e]
  PROVE  /\ slots' \in Seq(Slots) /\ Len(slots') = Len(slots)
         /\ slots'[i] = e
         /\ \A j \in 1 .. Len(slots) : j # i => slots'[j] = slots[j]
<1>1. slots \in Seq(Slots)
  BY DEF TypeOK
<1> QED
  BY <1>1, ExceptFacts

LEMMA CountedFacts ==
  ASSUME TypeOK, NEW n \in 1 .. Len(minted), NEW held \in 0 .. MaxRefs, Counted(n, held)
  PROVE  /\ minted' \in Seq(Minted) /\ Len(minted') = Len(minted)
         /\ minted'[n].held = held
         /\ \A m \in 1 .. Len(minted) :
              /\ minted'[m].handle = minted[m].handle
              /\ minted'[m].turn = minted[m].turn
              /\ minted'[m].value = minted[m].value
              /\ m # n => minted'[m].held = minted[m].held
<1> DEFINE e == [minted[n] EXCEPT !.held = held]
<1>1. minted \in Seq(Minted) /\ minted[n] \in Minted
  BY MintedFacts DEF TypeOK
<1>2. e \in Minted /\ e.held = held /\ e.handle = minted[n].handle
      /\ e.turn = minted[n].turn /\ e.value = minted[n].value
  BY <1>1 DEF Minted
<1>3. minted' = [minted EXCEPT ![n] = e]
  BY DEF Counted
<1> HIDE DEF e
<1>4. /\ minted' \in Seq(Minted) /\ Len(minted') = Len(minted)
      /\ minted'[n] = e
      /\ \A m \in 1 .. Len(minted) : m # n => minted'[m] = minted[m]
  BY <1>1, <1>2, <1>3, ExceptFacts
<1>5. ASSUME NEW m \in 1 .. Len(minted)
      PROVE  /\ minted'[m].handle = minted[m].handle
             /\ minted'[m].turn = minted[m].turn
             /\ minted'[m].value = minted[m].value
             /\ m # n => minted'[m].held = minted[m].held
  BY <1>2, <1>4, <1>5
<1> QED
  BY <1>2, <1>4, <1>5

LEMMA MintFacts ==
  ASSUME TypeOK, NEW v \in Values, NEW i \in 1 .. MaxSlots,
         NEW g \in 1 .. LastGeneration, NEW t \in Nat, Mint(v, i, g, t)
  PROVE  /\ minted' \in Seq(Minted) /\ Len(minted') = Len(minted) + 1
         /\ minted'[Len(minted) + 1] =
              [handle |-> Handle(i, g), turn |-> t, value |-> v, held |-> 1]
         /\ \A m \in 1 .. Len(minted) : minted'[m] = minted[m]
<1> DEFINE e == [handle |-> Handle(i, g), turn |-> t, value |-> v, held |-> 1]
<1>1. minted \in Seq(Minted) /\ e \in Minted
  BY HandleAssumption DEF TypeOK, Minted, Handle
<1>2. minted' = Append(minted, e)
  BY DEF Mint
<1> HIDE DEF e
<1>3. /\ minted' \in Seq(Minted) /\ Len(minted') = Len(minted) + 1
      /\ minted'[Len(minted) + 1] = e
      /\ \A m \in 1 .. Len(minted) : minted'[m] = minted[m]
  BY <1>1, <1>2, AppendFacts
<1> QED
  BY <1>3 DEF e

\* A held handle is accepted and reads its own value.
LEMMA HeldIsOwn ==
  ASSUME IInv, NEW n \in 1 .. Len(minted), minted[n].held > 0
  PROVE  LET i == minted[n].handle.index IN
         /\ Own(minted[n].handle)
         /\ i \in Live /\ slots[i].value = minted[n].value
         /\ slots[i].refs = minted[n].held /\ minted[n].turn = turn[i]
<1> DEFINE i == minted[n].handle.index
<1>1. /\ minted[n].handle.id = Id /\ i \in 1 .. MaxSlots
      /\ minted[n].handle.generation \in 1 .. LastGeneration /\ minted[n].turn \in Nat
  BY MintedFacts DEF IInv
<1>2. /\ i \in 1 .. Len(slots) /\ minted[n].turn = turn[i]
      /\ slots[i] = Occupied(minted[n].value, slots[i].generation, minted[n].held)
  BY <1>1 DEF IInv, Counting
<1>3. /\ i \in Live /\ slots[i].value = minted[n].value /\ slots[i].refs = minted[n].held
  BY <1>2 DEF Live, FreeIds, Occupied
<1>4. slots[i].generation \in 1 .. LastGeneration
  BY <1>2, SlotFacts DEF IInv
<1>5. Passed(n) = 0 /\ LastGeneration \in Nat \ {0}
  BY <1>1, <1>2, HandleAssumption DEF Passed
<1>6. \/ slots[i].generation = minted[n].handle.generation
      \/ slots[i].generation = minted[n].handle.generation - LastGeneration
  <2>1. \/ slots[i].generation = minted[n].handle.generation + 0
        \/ slots[i].generation = minted[n].handle.generation + 0 - LastGeneration
    BY <1>5 DEF IInv, Generations
  <2> QED
    BY <1>1, <1>5, <2>1
<1>7. slots[i].generation = minted[n].handle.generation
  BY <1>1, <1>4, <1>5, <1>6
<1> QED
  BY <1>1, <1>2, <1>3, <1>7 DEF Own, Names

\* A recent handle whose references are all released is stale.
LEMMA ReleasedIsStale ==
  ASSUME IInv, NEW n \in 1 .. Len(minted), Recent(n), minted[n].held = 0
  PROVE  ~Names(minted[n].handle)
<1> DEFINE i == minted[n].handle.index
<1>1. /\ i \in 1 .. MaxSlots /\ minted[n].turn \in Nat
      /\ minted[n].handle.generation \in 1 .. LastGeneration
  BY MintedFacts DEF IInv
<1>2. i \in 1 .. Len(slots) /\ minted[n].turn < turn[i]
  BY <1>1 DEF IInv, Counting
<1>3. slots[i].generation \in 1 .. LastGeneration /\ turn[i] \in Nat
  BY <1>2, SlotFacts DEF IInv
<1>4. slots[i].generation # minted[n].handle.generation
  <2>1. Passed(n) \in 1 .. LastGeneration - 1 /\ LastGeneration \in Nat \ {0}
    BY <1>1, <1>2, <1>3, HandleAssumption DEF Passed, Recent
  <2>2. \/ slots[i].generation = minted[n].handle.generation + Passed(n)
        \/ slots[i].generation = minted[n].handle.generation + Passed(n) - LastGeneration
    BY <2>1 DEF IInv, Generations
  <2> QED
    BY <1>1, <1>3, <2>1, <2>2
<1> QED
  BY <1>4 DEF Names

\* What the table accepts, the host holds.
LEMMA AcceptedIsHeld ==
  ASSUME IInv, NEW n \in 1 .. Len(minted), Recent(n), Own(minted[n].handle)
  PROVE  LET i == minted[n].handle.index IN
         /\ minted[n].held \in 1 .. MaxRefs
         /\ i \in Live /\ slots[i].value = minted[n].value
         /\ slots[i].refs = minted[n].held /\ minted[n].turn = turn[i]
<1>1. minted[n].held \in 0 .. MaxRefs /\ minted[n].held # 0
  BY MintedFacts, ReleasedIsStale DEF IInv, Own
<1> QED
  BY <1>1, HeldIsOwn

----------------------------------------------------------------------------
(* The free list.                                                           *)

\* The links from free_head visit list, of length k, and end.
Links(k, list) ==
  /\ \A a, b \in 1 .. k : list[a] = list[b] => a = b
  /\ freeHead = IF k = 0 THEN 0 ELSE list[1]
  /\ \A a \in 1 .. k : slots[list[a]].next = IF a = k THEN 0 ELSE list[a + 1]
  /\ \A i \in FreeIds : \E a \in 1 .. k : list[a] = i

LEMMA ListLength ==
  ASSUME NEW k \in Nat, NEW S, NEW list \in [1 .. k -> S]
  PROVE  Len(list) = k /\ DOMAIN list = 1 .. k
  OBVIOUS

LEMMA FreeListLinks ==
  FreeListExact <=>
    \E k \in 0 .. Len(slots) : \E list \in [1 .. k -> FreeIds] : Links(k, list)
<1>1. ASSUME NEW k \in 0 .. Len(slots), NEW list \in [1 .. k -> FreeIds]
      PROVE  Chain(list) /\ Range(list) = FreeIds <=> Links(k, list)
  <2>1. Len(list) = k /\ DOMAIN list = 1 .. k
    BY ListLength
  <2>2. Range(list) = FreeIds <=> \A i \in FreeIds : \E a \in 1 .. k : list[a] = i
    BY <2>1 DEF Range
  <2> QED
    BY <2>1, <2>2 DEF Chain, Links, IsInjective
<1>2. SeqOf(FreeIds, Len(slots)) = UNION {[1 .. m -> FreeIds] : m \in 0 .. Len(slots)}
  BY DEF SeqOf
<1> QED
  BY <1>1, <1>2 DEF FreeListExact

LEMMA FreeListLinksNext ==
  FreeListExact' <=>
    (\E k \in 0 .. Len(slots) : \E list \in [1 .. k -> FreeIds] : Links(k, list))'
  BY FreeListLinks, PTL

\* A list without repetitions of numbers up to N is no longer than N.
LEMMA PigeonHole ==
  ASSUME NEW N \in Nat, NEW k \in Nat, NEW list \in [1 .. k -> 1 .. N],
         \A a, b \in 1 .. k : list[a] = list[b] => a = b
  PROVE  k <= N
<1>1. list \in Injection(1 .. k, 1 .. N)
  BY DEF Injection, IsInjective
<1>2. IsFiniteSet(1 .. N) /\ Cardinality(1 .. N) = N /\ Cardinality(1 .. k) = k
  BY FS_Interval
<1> QED
  BY <1>1, <1>2, FS_Injection

LEMMA FreeListKept ==
  ASSUME TypeOK, FreeListExact, Len(slots') \in Nat, Len(slots) <= Len(slots'),
         FreeIds' = FreeIds, freeHead' = freeHead,
         \A i \in FreeIds : slots'[i].next = slots[i].next
  PROVE  FreeListExact'
<1>1. PICK k \in 0 .. Len(slots) : \E list \in [1 .. k -> FreeIds] : Links(k, list)
  BY FreeListLinks
<1>2. PICK list \in [1 .. k -> FreeIds] : Links(k, list)
  BY <1>1
<1>3. k \in 0 .. Len(slots') /\ list \in [1 .. k -> FreeIds']
  BY DEF TypeOK
<1>4. Links(k, list)'
  BY <1>2 DEF Links
<1> QED
  BY <1>3, <1>4, FreeListLinksNext

\* The head of the list goes.
LEMMA FreeListPopped ==
  ASSUME TypeOK, FreeListExact, freeHead # 0,
         Len(slots') = Len(slots), FreeIds' = FreeIds \ {freeHead},
         freeHead' = slots[freeHead].next,
         \A i \in FreeIds' : slots'[i].next = slots[i].next
  PROVE  FreeListExact' /\ freeHead \in FreeIds /\ freeHead' \in 0 .. Len(slots)
<1>1. PICK k \in 0 .. Len(slots) : \E list \in [1 .. k -> FreeIds] : Links(k, list)
  BY FreeListLinks
<1>2. PICK list \in [1 .. k -> FreeIds] : Links(k, list)
  BY <1>1
<1>3. k \in Nat \ {0} /\ list[1] = freeHead /\ freeHead \in FreeIds /\ 1 \in 1 .. k
  BY <1>2 DEF Links
<1> DEFINE rest == [a \in 1 .. k - 1 |-> list[a + 1]]
<1>4. \A a \in 1 .. k - 1 : a + 1 \in 1 .. k /\ a + 1 # 1
  BY <1>3
<1>5. \A a \in 1 .. k - 1 : list[a + 1] \in FreeIds /\ list[a + 1] # freeHead
  BY <1>2, <1>3, <1>4 DEF Links
<1>6. rest \in [1 .. k - 1 -> FreeIds']
  BY <1>5
<1>7. ASSUME NEW a \in 1 .. k - 1, NEW b \in 1 .. k - 1, rest[a] = rest[b]
      PROVE  a = b
  <2>1. list[a + 1] = list[b + 1]
    BY <1>7
  <2>2. a + 1 = b + 1
    BY <1>2, <1>4, <2>1 DEF Links
  <2> QED
    BY <2>2
<1>8. freeHead' = IF k - 1 = 0 THEN 0 ELSE rest[1]
  <2>1. slots[list[1]].next = IF 1 = k THEN 0 ELSE list[1 + 1]
    BY <1>2, <1>3 DEF Links
  <2>2. k # 1 => 1 \in 1 .. k - 1 /\ rest[1] = list[1 + 1]
    BY <1>3
  <2> QED
    BY <1>3, <2>1, <2>2
<1>9. ASSUME NEW a \in 1 .. k - 1
      PROVE  slots'[rest[a]].next = IF a = k - 1 THEN 0 ELSE rest[a + 1]
  <2>1. slots'[rest[a]].next = slots[list[a + 1]].next
    BY <1>6
  <2>2. slots[list[a + 1]].next = IF a + 1 = k THEN 0 ELSE list[a + 1 + 1]
    BY <1>2, <1>4 DEF Links
  <2>3. a # k - 1 => a + 1 \in 1 .. k - 1 /\ rest[a + 1] = list[a + 1 + 1]
    BY <1>3
  <2>4. a = k - 1 <=> a + 1 = k
    BY <1>3
  <2> QED
    BY <2>1, <2>2, <2>3, <2>4
<1>10. ASSUME NEW i \in FreeIds'
       PROVE  \E a \in 1 .. k - 1 : rest[a] = i
  <2>1. PICK b \in 1 .. k : list[b] = i
    BY <1>2 DEF Links
  <2>2. b # 1
    BY <1>3, <2>1
  <2>3. b - 1 \in 1 .. k - 1 /\ rest[b - 1] = i
    <3>1. b - 1 \in 1 .. k - 1 /\ b - 1 + 1 = b
      BY <1>3, <2>2
    <3> QED
      BY <2>1, <3>1
  <2> QED
    BY <2>3
<1> HIDE DEF rest
<1>11. Links(k - 1, rest)'
  BY <1>7, <1>8, <1>9, <1>10 DEF Links
<1>12. k - 1 \in 0 .. Len(slots')
  BY <1>3 DEF TypeOK
<1>13. FreeListExact'
  BY <1>6, <1>11, <1>12, FreeListLinksNext
<1>14. freeHead' \in 0 .. Len(slots)
  <2>1. k # 1 => 1 \in 1 .. k - 1
    BY <1>3
  <2>2. freeHead' = 0 \/ freeHead' \in FreeIds'
    BY <1>3, <1>6, <1>8, <2>1
  <2> QED
    BY <2>2 DEF FreeIds, TypeOK
<1> QED
  BY <1>3, <1>13, <1>14

\* A freed slot comes first.
LEMMA FreeListPushed ==
  ASSUME TypeOK, FreeListExact, NEW i \in Live,
         Len(slots') = Len(slots), FreeIds' = FreeIds \cup {i}, freeHead' = i,
         slots'[i].next = freeHead,
         \A j \in FreeIds : slots'[j].next = slots[j].next
  PROVE  FreeListExact'
<1>1. PICK k \in 0 .. Len(slots) : \E list \in [1 .. k -> FreeIds] : Links(k, list)
  BY FreeListLinks
<1>2. PICK list \in [1 .. k -> FreeIds] : Links(k, list)
  BY <1>1
<1> DEFINE more == [a \in 1 .. k + 1 |-> IF a = 1 THEN i ELSE list[a - 1]]
<1>3. k \in Nat /\ i \notin FreeIds /\ i \in 1 .. Len(slots) /\ 1 \in 1 .. k + 1
  BY DEF Live, TypeOK
<1>4. \A a \in 1 .. k + 1 : a # 1 => a - 1 \in 1 .. k
  BY <1>3
<1>5. more[1] = i /\ \A a \in 1 .. k : a + 1 \in 1 .. k + 1 /\ more[a + 1] = list[a]
  <2>1. \A a \in 1 .. k : a + 1 \in 1 .. k + 1 /\ a + 1 # 1 /\ a + 1 - 1 = a
    BY <1>3
  <2> QED
    BY <1>3, <2>1
<1>6. more \in [1 .. k + 1 -> FreeIds']
  BY <1>4
<1>7. ASSUME NEW a \in 1 .. k + 1, NEW b \in 1 .. k + 1, more[a] = more[b]
      PROVE  a = b
  <2>1. CASE a = 1 /\ b = 1
    BY <2>1
  <2>2. CASE a = 1 /\ b # 1
    BY <1>3, <1>4, <1>7, <2>2
  <2>3. CASE a # 1 /\ b = 1
    BY <1>3, <1>4, <1>7, <2>3
  <2>4. CASE a # 1 /\ b # 1
    <3>1. list[a - 1] = list[b - 1] /\ a - 1 \in 1 .. k /\ b - 1 \in 1 .. k
      BY <1>4, <1>7, <2>4
    <3>2. a - 1 = b - 1
      BY <1>2, <3>1 DEF Links
    <3> QED
      BY <3>2
  <2> QED
    BY <2>1, <2>2, <2>3, <2>4
<1> HIDE DEF more
<1>8. ASSUME NEW a \in 1 .. k + 1
      PROVE  slots'[more[a]].next = IF a = k + 1 THEN 0 ELSE more[a + 1]
  <2>1. CASE a = 1
    <3>1. k # 0 => 1 \in 1 .. k /\ more[1 + 1] = list[1]
      BY <1>3, <1>5
    <3>2. freeHead = IF k = 0 THEN 0 ELSE list[1]
      BY <1>2 DEF Links
    <3>3. k = 0 <=> a = k + 1
      BY <1>3, <2>1
    <3> QED
      BY <1>5, <2>1, <3>1, <3>2, <3>3
  <2>2. CASE a # 1
    <3> DEFINE b == a - 1
    <3>1. b \in 1 .. k /\ b + 1 = a
      BY <1>4, <2>2
    <3> HIDE DEF b
    <3>2. more[a] = list[b] /\ list[b] \in FreeIds
      BY <1>5, <3>1
    <3>3. slots[list[b]].next = IF b = k THEN 0 ELSE list[b + 1]
      BY <1>2, <3>1 DEF Links
    <3>4. b # k => b + 1 \in 1 .. k /\ more[b + 1 + 1] = list[b + 1]
      <4>1. b # k => b + 1 \in 1 .. k
        BY <1>3, <3>1
      <4> QED
        BY <1>5, <4>1
    <3>5. b = k <=> a = k + 1
      BY <1>3, <3>1
    <3> QED
      BY <3>1, <3>2, <3>3, <3>4, <3>5
  <2> QED
    BY <2>1, <2>2
<1>9. ASSUME NEW j \in FreeIds'
      PROVE  \E a \in 1 .. k + 1 : more[a] = j
  <2>1. CASE j = i
    BY <1>3, <1>5, <2>1
  <2>2. CASE j # i
    <3>1. PICK a \in 1 .. k : list[a] = j
      BY <1>2, <2>2 DEF Links
    <3> QED
      BY <1>5, <3>1
  <2> QED
    BY <2>1, <2>2
<1>10. Links(k + 1, more)'
  <2>1. freeHead' = more[1] /\ k + 1 # 0
    BY <1>3, <1>5
  <2> QED
    BY <1>7, <1>8, <1>9, <2>1 DEF Links
<1>11. k + 1 \in 0 .. Len(slots')
  <2>1. FreeIds' \subseteq 1 .. Len(slots)
    BY <1>3 DEF FreeIds
  <2>2. more \in [1 .. k + 1 -> 1 .. Len(slots)]
    BY <1>6, <2>1
  <2>3. k + 1 \in Nat /\ Len(slots) \in Nat
    BY <1>3 DEF TypeOK
  <2>4. k + 1 <= Len(slots)
    BY <1>7, <2>2, <2>3, PigeonHole
  <2> QED
    BY <2>3, <2>4
<1> QED
  BY <1>6, <1>10, <1>11, FreeListLinksNext

----------------------------------------------------------------------------
(* The steps.                                                               *)

\* A mint at slot i, which was free or new: the invariant about references.
LEMMA MintStep ==
  ASSUME IInv, NEW v \in Values, NEW i \in 1 .. Len(slots'), NEW g \in 1 .. LastGeneration,
         i \notin Live, Mint(v, i, g, turn'[i]), Len(slots') \in Nat, Len(slots') <= MaxSlots,
         Len(slots) <= Len(slots'), turn'[i] \in Nat,
         slots'[i] = Occupied(v, g, 1),
         Live' = Live \cup {i},
         \A j \in 1 .. Len(slots) : j # i => slots'[j] = slots[j],
         \A j \in 1 .. Len(slots) : turn'[j] = turn[j],
         i \in 1 .. Len(slots) => g = slots[i].generation
  PROVE  minted' \in Seq(Minted) /\ Counting' /\ HeldOnce' /\ Backed' /\ Generations'
<1> DEFINE last == Len(minted) + 1
           e == [handle |-> Handle(i, g), turn |-> turn'[i], value |-> v, held |-> 1]
<1>1. /\ minted' \in Seq(Minted) /\ Len(minted') = last /\ Len(minted) \in Nat
      /\ minted'[last] = e
      /\ \A m \in 1 .. Len(minted) : minted'[m] = minted[m]
  <2>1. TypeOK /\ i \in 1 .. MaxSlots /\ Len(minted) \in Nat
    BY HandleAssumption DEF IInv, TypeOK
  <2> QED
    BY <2>1, MintFacts
<1>2. /\ e.handle.index = i /\ e.handle.generation = g /\ e.turn = turn'[i]
      /\ e.value = v /\ e.held = 1
  BY DEF Handle
<1> HIDE DEF e
<1>3. \A m \in 1 .. Len(minted') : m = last \/ m \in 1 .. Len(minted)
  BY <1>1
<1>4. ASSUME NEW m \in 1 .. Len(minted)
      PROVE  /\ minted[m].handle.index \in 1 .. Len(slots)
             /\ minted[m].held \in Nat
             /\ minted[m].handle.index = i => minted[m].held = 0
             /\ minted[m].held > 0 => minted[m].handle.index # i
  <2>1. minted[m].handle.index \in 1 .. MaxSlots /\ minted[m].held \in Nat
    BY MintedFacts, HandleAssumption DEF IInv
  <2>2. minted[m].handle.index <= Len(slots)
    BY DEF IInv, Counting
  <2>3. minted[m].held > 0 => minted[m].handle.index \in Live
    BY HeldIsOwn
  <2>4. Len(slots) \in Nat
    BY DEF IInv, TypeOK
  <2> QED
    BY <2>1, <2>2, <2>3, <2>4
<1>5. Counting'
  <2> SUFFICES ASSUME NEW m \in 1 .. Len(minted')
               PROVE  LET j == minted'[m].handle.index IN
                      /\ j <= Len(slots')
                      /\ minted'[m].held > 0 =>
                           /\ minted'[m].turn = turn'[j]
                           /\ slots'[j] = Occupied(minted'[m].value, slots'[j].generation,
                                                   minted'[m].held)
                      /\ minted'[m].held = 0 => minted'[m].turn < turn'[j]
    BY DEF Counting
  <2>1. CASE m = last
    BY <1>1, <1>2, <2>1 DEF Occupied
  <2>2. CASE m \in 1 .. Len(minted)
    <3> DEFINE j == minted[m].handle.index
    <3>1. minted'[m] = minted[m] /\ j \in 1 .. Len(slots) /\ turn'[j] = turn[j]
      BY <1>1, <1>4, <2>2
    <3>2. j <= Len(slots')
      <4>1. Len(slots) \in Nat
        BY DEF IInv, TypeOK
      <4> QED
        BY <3>1, <4>1
    <3>3. ASSUME minted[m].held > 0
          PROVE  /\ minted[m].turn = turn[j]
                 /\ slots'[j] = Occupied(minted[m].value, slots'[j].generation, minted[m].held)
      <4>1. slots'[j] = slots[j]
        BY <1>4, <2>2, <3>1, <3>3
      <4> QED
        BY <2>2, <3>3, <4>1 DEF IInv, Counting
    <3>4. minted[m].held = 0 => minted[m].turn < turn[j]
      BY <2>2 DEF IInv, Counting
    <3> QED
      BY <3>1, <3>2, <3>3, <3>4
  <2> QED
    BY <1>3, <2>1, <2>2
<1>6. HeldOnce'
  <2> SUFFICES ASSUME NEW m \in 1 .. Len(minted'), NEW n \in 1 .. Len(minted'),
                      minted'[m].held > 0, minted'[n].held > 0,
                      minted'[m].handle.index = minted'[n].handle.index
               PROVE  m = n
    BY DEF HeldOnce
  <2>1. CASE m = last /\ n = last
    BY <2>1
  <2>2. CASE m = last /\ n \in 1 .. Len(minted)
    BY <1>1, <1>2, <1>4, <2>2
  <2>3. CASE m \in 1 .. Len(minted) /\ n = last
    BY <1>1, <1>2, <1>4, <2>3
  <2>4. CASE m \in 1 .. Len(minted) /\ n \in 1 .. Len(minted)
    BY <1>1, <2>4 DEF IInv, HeldOnce
  <2> QED
    BY <1>3, <2>1, <2>2, <2>3, <2>4
<1>7. Backed'
  <2> SUFFICES ASSUME NEW j \in Live'
               PROVE  \E n \in 1 .. Len(minted') :
                        minted'[n].held > 0 /\ minted'[n].handle.index = j
    BY DEF Backed
  <2>1. CASE j = i
    BY <1>1, <1>2, <2>1
  <2>2. CASE j \in Live
    <3>1. PICK n \in 1 .. Len(minted) : minted[n].held > 0 /\ minted[n].handle.index = j
      BY <2>2 DEF IInv, Backed
    <3> QED
      BY <1>1, <3>1
  <2> QED
    BY <2>1, <2>2
<1>8. Generations'
  <2> SUFFICES ASSUME NEW m \in 1 .. Len(minted'), Passed(m)' < LastGeneration
               PROVE  LET q == slots'[minted'[m].handle.index].generation IN
                      \/ q = minted'[m].handle.generation + Passed(m)'
                      \/ q = minted'[m].handle.generation + Passed(m)' - LastGeneration
    BY DEF Generations
  <2>1. CASE m = last
    <3>1. Passed(m)' = 0 /\ slots'[i].generation = g
      BY <1>1, <1>2, <2>1 DEF Passed, Occupied
    <3> QED
      BY <1>1, <1>2, <2>1, <3>1
  <2>2. CASE m \in 1 .. Len(minted)
    <3> DEFINE j == minted[m].handle.index
    <3>1. minted'[m] = minted[m] /\ j \in 1 .. Len(slots) /\ turn'[j] = turn[j]
      BY <1>1, <1>4, <2>2
    <3>2. Passed(m)' = Passed(m)
      BY <3>1 DEF Passed
    <3>3. slots'[j].generation = slots[j].generation
      <4>1. slots'[i].generation = g
        BY DEF Occupied
      <4>2. CASE j = i
        BY <3>1, <4>1, <4>2
      <4>3. CASE j # i
        BY <3>1, <4>3
      <4> QED
        BY <4>2, <4>3
    <3> QED
      BY <2>2, <3>1, <3>2, <3>3 DEF IInv, Generations
  <2> QED
    BY <1>3, <2>1, <2>2
<1> QED
  BY <1>1, <1>5, <1>6, <1>7, <1>8

LEMMA GrowStep ==
  ASSUME IInv, NEW v \in Values, Grow(v)
  PROVE  IInv'
<1> DEFINE i == Len(slots) + 1
           e == Occupied(v, 1, 1)
<1>1. slots \in Seq(Slots) /\ Len(slots) \in Nat /\ turn \in Seq(Nat) /\ Len(turn) = Len(slots)
  BY DEF IInv, TypeOK
<1>2. e \in Slots /\ e.kind = "Occupied"
  BY HandleAssumption DEF Slots, Occupied
<1>3. slots' = Append(slots, e) /\ turn' = Append(turn, 0) /\ freeHead' = freeHead
  BY DEF Grow
<1>4. /\ slots' \in Seq(Slots) /\ Len(slots') = i /\ slots'[i] = e
      /\ \A j \in 1 .. Len(slots) : slots'[j] = slots[j]
  BY <1>1, <1>2, <1>3, AppendFacts
<1>5. /\ turn' \in Seq(Nat) /\ Len(turn') = i /\ turn'[i] = 0
      /\ \A j \in 1 .. Len(slots) : turn'[j] = turn[j]
  BY <1>1, <1>3, AppendFacts
<1>6. i \in Nat /\ i <= MaxSlots /\ i \in 1 .. i /\ i \notin 1 .. Len(slots)
      /\ 1 .. i = (1 .. Len(slots)) \cup {i}
  BY <1>1, HandleAssumption DEF Grow
<1>7. Mint(v, i, 1, turn'[i])
  BY <1>5 DEF Grow
<1> HIDE DEF e, i
<1>8. FreeIds' = FreeIds
  BY <1>2, <1>4, <1>6 DEF FreeIds
<1>9. Live' = Live \cup {i} /\ i \notin Live
  BY <1>4, <1>6, <1>8 DEF Live, FreeIds
<1>10. slots'[i] = Occupied(v, 1, 1) /\ 1 \in 1 .. LastGeneration
  BY <1>4, HandleAssumption DEF e
<1>11. Len(slots) <= i /\ Len(slots') <= MaxSlots /\ i \in 1 .. Len(slots') /\ turn'[i] \in Nat
       /\ Len(slots') \in Nat
  BY <1>1, <1>4, <1>5, <1>6 DEF i
<1>12. minted' \in Seq(Minted) /\ Counting' /\ HeldOnce' /\ Backed' /\ Generations'
  BY <1>4, <1>5, <1>6, <1>7, <1>9, <1>10, <1>11, MintStep
<1>13. FreeListExact'
  <2>1. \A j \in FreeIds : slots'[j].next = slots[j].next
    BY <1>4 DEF FreeIds
  <2> QED
    BY <1>3, <1>4, <1>8, <1>11, <2>1, FreeListKept DEF IInv
<1>14. TypeOK'
  BY <1>1, <1>3, <1>4, <1>5, <1>11, <1>12 DEF IInv, TypeOK
<1> QED
  BY <1>12, <1>13, <1>14 DEF IInv

LEMMA ReuseStep ==
  ASSUME IInv, NEW v \in Values, Reuse(v)
  PROVE  IInv'
<1> DEFINE i == freeHead
           g == slots[i].generation
           e == Occupied(v, g, 1)
<1>1. TypeOK /\ FreeListExact /\ i # 0 /\ i \in 1 .. Len(slots) /\ Len(slots) \in Nat
  BY DEF IInv, TypeOK, Reuse
<1>2. /\ freeHead' = slots[freeHead].next /\ slots' = [slots EXCEPT ![i] = e]
      /\ Mint(v, i, g, turn[i]) /\ turn' = turn
  BY DEF Reuse
<1>3. g \in 1 .. LastGeneration /\ turn[i] \in Nat
  BY <1>1, SlotFacts
<1>4. e \in Slots /\ e.kind = "Occupied"
  BY <1>3, HandleAssumption DEF Slots, Occupied
<1>5. /\ slots' \in Seq(Slots) /\ Len(slots') = Len(slots) /\ slots'[i] = e
      /\ \A j \in 1 .. Len(slots) : j # i => slots'[j] = slots[j]
  BY <1>1, <1>2, <1>4, SetSlot
<1> HIDE DEF e
<1>6. FreeIds' = FreeIds \ {freeHead}
  BY <1>4, <1>5 DEF FreeIds
<1>7. \A j \in FreeIds' : slots'[j].next = slots[j].next
  BY <1>5, <1>6 DEF FreeIds
<1>8. FreeListExact' /\ freeHead \in FreeIds /\ freeHead' \in 0 .. Len(slots)
  BY <1>1, <1>2, <1>5, <1>6, <1>7, FreeListPopped
<1>9. i \notin Live /\ Live' = Live \cup {i}
  BY <1>1, <1>5, <1>6, <1>8 DEF Live
<1>10. slots'[i] = Occupied(v, g, 1)
  BY <1>5 DEF e
<1>11. /\ i \in 1 .. Len(slots') /\ Len(slots') <= MaxSlots /\ Len(slots) <= Len(slots')
       /\ Len(slots') \in Nat
       /\ Mint(v, i, g, turn'[i]) /\ turn'[i] \in Nat
  BY <1>1, <1>2, <1>3, <1>5 DEF TypeOK
<1> HIDE DEF i, g
<1>12. minted' \in Seq(Minted) /\ Counting' /\ HeldOnce' /\ Backed' /\ Generations'
  <2>1. i \in 1 .. Len(slots) => g = slots[i].generation
    BY DEF g
  <2> QED
    BY <1>2, <1>3, <1>5, <1>9, <1>10, <1>11, <2>1, MintStep
<1>13. TypeOK'
  BY <1>1, <1>2, <1>5, <1>8, <1>12 DEF TypeOK
<1> QED
  BY <1>8, <1>12, <1>13 DEF IInv

\* The count of a held reference moves, in its slot as with the host.
LEMMA RecountStep ==
  ASSUME IInv, NEW n \in 1 .. Len(minted), minted[n].held > 0, NEW r \in 1 .. MaxRefs,
         NEW i, i = minted[n].handle.index,
         slots' = [slots EXCEPT ![i] = Occupied(slots[i].value, slots[i].generation, r)],
         Counted(n, r), UNCHANGED <<freeHead, turn>>
  PROVE  IInv'
<1> DEFINE e == Occupied(slots[i].value, slots[i].generation, r)
<1>1. TypeOK /\ FreeListExact /\ i \in 1 .. Len(slots) /\ i \in Live
      /\ slots[i].value = minted[n].value /\ minted[n].turn = turn[i]
  BY HeldIsOwn DEF IInv, Live
<1>2. e \in Slots /\ e.kind = "Occupied" /\ e.generation = slots[i].generation
  BY <1>1, SlotFacts DEF Slots, Occupied
<1>3. /\ slots' \in Seq(Slots) /\ Len(slots') = Len(slots) /\ slots'[i] = e
      /\ \A j \in 1 .. Len(slots) : j # i => slots'[j] = slots[j]
  BY <1>1, <1>2, SetSlot
<1>4. r \in 0 .. MaxRefs /\ r > 0
  BY HandleAssumption
<1>5. /\ minted' \in Seq(Minted) /\ Len(minted') = Len(minted) /\ minted'[n].held = r
      /\ \A m \in 1 .. Len(minted) :
           /\ minted'[m].handle = minted[m].handle
           /\ minted'[m].turn = minted[m].turn
           /\ minted'[m].value = minted[m].value
           /\ m # n => minted'[m].held = minted[m].held
  BY <1>1, <1>4, CountedFacts
<1>15. /\ Len(minted') = Len(minted)
       /\ \A m \in 1 .. Len(minted) :
            /\ minted'[m].handle = minted[m].handle
            /\ minted'[m].turn = minted[m].turn
            /\ minted'[m].value = minted[m].value
  BY <1>5
<1>6. ASSUME NEW m \in 1 .. Len(minted)
      PROVE  /\ minted'[m].held > 0 <=> minted[m].held > 0
             /\ minted'[m].held = 0 <=> minted[m].held = 0
             /\ m # n /\ minted[m].held > 0 => minted[m].handle.index # i
             /\ minted[m].handle.index \in 1 .. Len(slots)
  <2>1. m # n /\ minted[m].held > 0 => minted[m].handle.index # i
    BY DEF IInv, HeldOnce
  <2>2. minted[m].handle.index \in 1 .. MaxSlots /\ minted[m].handle.index <= Len(slots)
    BY MintedFacts DEF IInv, Counting
  <2>3. Len(slots) \in Nat
    BY <1>1 DEF TypeOK
  <2>4. /\ minted'[m].held > 0 <=> minted[m].held > 0
        /\ minted'[m].held = 0 <=> minted[m].held = 0
    BY <1>4, <1>5
  <2> QED
    BY <2>1, <2>2, <2>3, <2>4
<1>7. FreeIds' = FreeIds /\ Live' = Live
  <2>1. slots[i].kind # "Free" /\ slots'[i].kind # "Free"
    BY <1>1, <1>2, <1>3 DEF FreeIds, Live
  <2>2. \A j \in 1 .. Len(slots) : slots'[j].kind = "Free" <=> slots[j].kind = "Free"
    BY <1>3, <2>1
  <2>3. FreeIds' = FreeIds
    BY <1>3, <2>2 DEF FreeIds
  <2> QED
    BY <1>3, <2>3 DEF Live
<1>8. \A j \in 1 .. Len(slots) : slots'[j].generation = slots[j].generation
  BY <1>2, <1>3
<1>9. FreeListExact'
  <2>1. \A j \in FreeIds : slots'[j].next = slots[j].next
    BY <1>1, <1>3 DEF FreeIds, Live
  <2>2. Len(slots') \in Nat /\ Len(slots) <= Len(slots')
    BY <1>1, <1>3 DEF TypeOK
  <2> QED
    BY <1>1, <1>7, <2>1, <2>2, FreeListKept
<1>10. Counting'
  <2> SUFFICES ASSUME NEW m \in 1 .. Len(minted)
               PROVE  LET j == minted[m].handle.index IN
                      /\ j <= Len(slots')
                      /\ minted'[m].held > 0 =>
                           /\ minted[m].turn = turn[j]
                           /\ slots'[j] = Occupied(minted[m].value, slots'[j].generation,
                                                   minted'[m].held)
                      /\ minted'[m].held = 0 => minted[m].turn < turn[j]
    BY <1>15 DEF Counting
  <2>1. CASE m = n
    <3>1. slots'[i] = Occupied(minted[n].value, slots'[i].generation, r)
      BY <1>1, <1>2, <1>3
    <3>2. minted'[n].held = r /\ minted'[n].held # 0
      BY <1>4, <1>5
    <3>3. i <= Len(slots')
      BY <1>1, <1>3
    <3> QED
      BY <1>1, <2>1, <3>1, <3>2, <3>3
  <2>2. CASE m # n
    BY <1>3, <1>5, <1>6, <2>2 DEF IInv, Counting
  <2> QED
    BY <2>1, <2>2
<1>11. HeldOnce'
  <2>1. \A m \in 1 .. Len(minted) : minted'[m].held > 0 => minted[m].held > 0
    BY <1>6
  <2> QED
    BY <1>15, <2>1 DEF IInv, HeldOnce
<1>12. Backed'
  <2> SUFFICES ASSUME NEW j \in Live
               PROVE  \E m \in 1 .. Len(minted) :
                        minted'[m].held > 0 /\ minted'[m].handle.index = j
    BY <1>15, <1>7 DEF Backed
  <2>1. PICK m \in 1 .. Len(minted) : minted[m].held > 0 /\ minted[m].handle.index = j
    BY DEF IInv, Backed
  <2> QED
    BY <1>5, <1>6, <2>1
<1>13. Generations'
  <2> SUFFICES ASSUME NEW m \in 1 .. Len(minted), Passed(m)' < LastGeneration
               PROVE  LET q == slots'[minted[m].handle.index].generation IN
                      \/ q = minted[m].handle.generation + Passed(m)'
                      \/ q = minted[m].handle.generation + Passed(m)' - LastGeneration
    BY <1>15 DEF Generations
  <2>1. Passed(m)' = Passed(m)
    BY <1>15 DEF Passed
  <2>2. slots'[minted[m].handle.index].generation = slots[minted[m].handle.index].generation
    BY <1>6, <1>8
  <2> QED
    BY <2>1, <2>2 DEF IInv, Generations
<1>14. TypeOK'
  BY <1>1, <1>3, <1>5 DEF TypeOK
<1> QED
  BY <1>9, <1>10, <1>11, <1>12, <1>13, <1>14 DEF IInv

\* A bumped generation is one turn further, around the end or not.
LEMMA BumpedFacts ==
  ASSUME LastGeneration \in Nat \ {0}, NEW g \in 1 .. LastGeneration,
         NEW h \in 1 .. LastGeneration, NEW p \in Nat, p < LastGeneration,
         g = h + p \/ g = h + p - LastGeneration
  PROVE  \/ Bumped(g) = h + (p + 1)
         \/ Bumped(g) = h + (p + 1) - LastGeneration
  BY DEF Bumped

\* The last reference to a slot goes.
LEMMA FreeStep ==
  ASSUME IInv, NEW n \in 1 .. Len(minted), minted[n].held = 1,
         NEW i, i = minted[n].handle.index,
         slots' = [slots EXCEPT ![i] = Free(Bumped(slots[i].generation), freeHead)],
         freeHead' = i, turn' = [turn EXCEPT ![i] = turn[i] + 1], Counted(n, 0)
  PROVE  IInv'
<1> DEFINE g == slots[i].generation
           e == Free(Bumped(g), freeHead)
<1>1. TypeOK /\ FreeListExact /\ i \in 1 .. Len(slots) /\ i \in Live
      /\ minted[n].turn = turn[i]
  BY HeldIsOwn DEF IInv, Live
<1>2. Bumped(g) \in 1 .. LastGeneration /\ g \in 1 .. LastGeneration /\ turn[i] \in Nat
  <2>1. g \in 1 .. LastGeneration /\ turn[i] \in Nat
    BY <1>1, SlotFacts
  <2> QED
    BY <2>1, HandleAssumption DEF Bumped
<1>3. e \in Slots /\ e.kind = "Free" /\ e.generation = Bumped(g) /\ e.next = freeHead
  <2>1. freeHead \in 0 .. MaxSlots
    BY <1>1, HandleAssumption DEF TypeOK
  <2> QED
    BY <1>2, <2>1 DEF Slots, Free
<1>4. /\ slots' \in Seq(Slots) /\ Len(slots') = Len(slots) /\ slots'[i] = e
      /\ \A j \in 1 .. Len(slots) : j # i => slots'[j] = slots[j]
  BY <1>1, <1>3, SetSlot
<1>5. /\ turn' \in Seq(Nat) /\ Len(turn') = Len(slots) /\ turn'[i] = turn[i] + 1
      /\ \A j \in 1 .. Len(slots) : j # i => turn'[j] = turn[j]
  <2>1. turn \in Seq(Nat) /\ Len(turn) = Len(slots)
    BY <1>1 DEF TypeOK
  <2>2. turn[i] + 1 \in Nat /\ i \in 1 .. Len(turn)
    <3>1. turn[i] + 1 \in Nat
      BY <1>2
    <3>2. i \in 1 .. Len(turn)
      BY <1>1, <2>1
    <3> QED
      BY <3>1, <3>2
  <2> DEFINE k == turn[i] + 1
  <2> HIDE DEF k
  <2>3. turn' = [turn EXCEPT ![i] = k] /\ k \in Nat
    BY <2>2 DEF k
  <2>4. /\ turn' \in Seq(Nat) /\ Len(turn') = Len(turn) /\ turn'[i] = k
        /\ \A j \in 1 .. Len(turn) : j # i => turn'[j] = turn[j]
    BY <2>1, <2>2, <2>3, ExceptFacts
  <2> QED
    BY <2>1, <2>4 DEF k
<1>6. /\ minted' \in Seq(Minted) /\ Len(minted') = Len(minted) /\ minted'[n].held = 0
      /\ \A m \in 1 .. Len(minted) :
           /\ minted'[m].handle = minted[m].handle
           /\ minted'[m].turn = minted[m].turn
           /\ minted'[m].value = minted[m].value
           /\ m # n => minted'[m].held = minted[m].held
  <2>1. 0 \in 0 .. MaxRefs
    BY HandleAssumption
  <2> QED
    BY <1>1, <2>1, CountedFacts
<1>15. /\ Len(minted') = Len(minted)
       /\ \A m \in 1 .. Len(minted) :
            /\ minted'[m].handle = minted[m].handle
            /\ minted'[m].turn = minted[m].turn
            /\ minted'[m].value = minted[m].value
  BY <1>6
<1> HIDE DEF e, g
<1>7. ASSUME NEW m \in 1 .. Len(minted)
      PROVE  /\ m # n /\ minted[m].held > 0 => minted[m].handle.index # i
             /\ minted[m].handle.index \in 1 .. Len(slots)
             /\ minted[m].turn \in Nat /\ minted[m].held \in Nat
             /\ turn[minted[m].handle.index] \in Nat
             /\ minted[m].turn <= turn[minted[m].handle.index]
  <2>1. m # n /\ minted[m].held > 0 => minted[m].handle.index # i
    BY DEF IInv, HeldOnce
  <2>2. /\ minted[m].handle.index \in 1 .. MaxSlots /\ minted[m].handle.index <= Len(slots)
        /\ minted[m].turn \in Nat /\ minted[m].held \in Nat
    BY MintedFacts, HandleAssumption DEF IInv, Counting
  <2>3. Len(slots) \in Nat
    BY <1>1 DEF TypeOK
  <2>4. turn[minted[m].handle.index] \in Nat
    BY <1>1, <2>2, <2>3, SlotFacts
  <2>5. minted[m].turn <= turn[minted[m].handle.index]
    BY <2>2, <2>4 DEF IInv, Counting
  <2> QED
    BY <2>1, <2>2, <2>3, <2>4, <2>5
<1>8. FreeIds' = FreeIds \cup {i} /\ Live' = Live \ {i}
  <2>1. slots'[i].kind = "Free"
    BY <1>3, <1>4
  <2>2. \A j \in 1 .. Len(slots) : slots'[j].kind = "Free" <=> slots[j].kind = "Free" \/ j = i
    BY <1>4, <2>1
  <2>3. FreeIds' = FreeIds \cup {i}
    BY <1>1, <1>4, <2>2 DEF FreeIds
  <2> QED
    BY <1>4, <2>3 DEF Live
<1>9. FreeListExact'
  <2>1. \A j \in FreeIds : slots'[j].next = slots[j].next
    BY <1>1, <1>4 DEF FreeIds, Live
  <2> QED
    BY <1>1, <1>3, <1>4, <1>8, <2>1, FreeListPushed
<1>10. Counting'
  <2> SUFFICES ASSUME NEW m \in 1 .. Len(minted')
               PROVE  LET j == minted'[m].handle.index IN
                      /\ j <= Len(slots')
                      /\ minted'[m].held > 0 =>
                           /\ minted'[m].turn = turn'[j]
                           /\ slots'[j] = Occupied(minted'[m].value, slots'[j].generation,
                                                   minted'[m].held)
                      /\ minted'[m].held = 0 => minted'[m].turn < turn'[j]
    BY DEF Counting
  <2>0. /\ m \in 1 .. Len(minted) /\ minted'[m].handle = minted[m].handle
        /\ minted'[m].turn = minted[m].turn /\ minted'[m].value = minted[m].value
    BY <1>15
  <2> DEFINE j == minted[m].handle.index
  <2>1. j <= Len(slots')
    BY <1>4, <2>0 DEF IInv, Counting
  <2>2. CASE minted'[m].held > 0
    <3>1. m # n /\ minted[m].held > 0 /\ j # i /\ minted'[m].held = minted[m].held
      BY <1>6, <1>7, <2>0, <2>2
    <3>2. slots'[j] = slots[j] /\ turn'[j] = turn[j]
      BY <1>4, <1>5, <1>7, <2>0, <3>1
    <3>3. /\ minted[m].turn = turn[j]
          /\ slots[j] = Occupied(minted[m].value, slots[j].generation, minted[m].held)
      BY <2>0, <3>1 DEF IInv, Counting
    <3> QED
      BY <2>0, <2>1, <2>2, <3>1, <3>2, <3>3
  <2>3. CASE minted'[m].held = 0
    <3>1. ASSUME j = i PROVE minted[m].turn < turn'[j]
      <4>1. minted[m].turn <= turn[i] /\ minted[m].turn \in Nat
        BY <1>7, <2>0, <3>1
      <4>2. turn'[j] = turn[i] + 1
        BY <1>5, <3>1, Zenon
      <4> QED
        BY <1>2, <4>1, <4>2
    <3>2. j # i => minted[m].held = 0 /\ turn'[j] = turn[j]
      BY <1>5, <1>6, <1>7, <2>0, <2>3
    <3>3. j # i => minted[m].turn < turn'[j]
      BY <2>0, <3>2 DEF IInv, Counting
    <3> QED
      BY <2>0, <2>1, <2>3, <3>1, <3>3
  <2>4. minted'[m].held > 0 \/ minted'[m].held = 0
    BY <1>6, <1>7, <2>0
  <2> QED
    BY <2>0, <2>2, <2>3, <2>4
<1>11. HeldOnce'
  <2>1. \A m \in 1 .. Len(minted) : minted'[m].held > 0 => minted[m].held > 0
    BY <1>6
  <2> QED
    BY <1>15, <2>1 DEF IInv, HeldOnce
<1>12. Backed'
  <2> SUFFICES ASSUME NEW j \in Live, j # i
               PROVE  \E m \in 1 .. Len(minted) :
                        minted'[m].held > 0 /\ minted'[m].handle.index = j
    BY <1>15, <1>8 DEF Backed
  <2>1. PICK m \in 1 .. Len(minted) : minted[m].held > 0 /\ minted[m].handle.index = j
    BY DEF IInv, Backed
  <2> QED
    BY <1>6, <2>1
<1>13. Generations'
  <2> SUFFICES ASSUME NEW m \in 1 .. Len(minted), Passed(m)' < LastGeneration
               PROVE  LET q == slots'[minted[m].handle.index].generation IN
                      \/ q = minted[m].handle.generation + Passed(m)'
                      \/ q = minted[m].handle.generation + Passed(m)' - LastGeneration
    BY <1>15 DEF Generations
  <2> DEFINE j == minted[m].handle.index
  <2>1. CASE j = i
    <3>1. Passed(m)' = Passed(m) + 1 /\ Passed(m) \in Nat
      <4>1. minted[m].turn <= turn[i] /\ minted[m].turn \in Nat
        BY <1>7, <2>1
      <4>2. Passed(m) = turn[i] - minted[m].turn
        BY <2>1 DEF Passed
      <4>3. Passed(m)' = (turn[i] + 1) - minted[m].turn
        <5>1. /\ minted'[m].handle.index = i /\ minted'[m].turn = minted[m].turn
              /\ turn'[i] = turn[i] + 1
          BY <1>5, <1>6, <2>1, Zenon
        <5> QED
          BY <5>1, Zenon DEF Passed
      <4>4. turn[i] \in Nat
        BY <1>2
      <4> QED
        BY <4>1, <4>2, <4>3, <4>4
    <3>2. slots'[j].generation = Bumped(g)
      BY <1>3, <1>4, <2>1
    <3>3. Passed(m) < LastGeneration /\ LastGeneration \in Nat \ {0}
          /\ minted[m].handle.generation \in 1 .. LastGeneration
      BY <3>1, HandleAssumption, MintedFacts DEF IInv
    <3>4. \/ g = minted[m].handle.generation + Passed(m)
          \/ g = minted[m].handle.generation + Passed(m) - LastGeneration
      BY <2>1, <3>3 DEF IInv, Generations, g
    <3>5. \/ Bumped(g) = minted[m].handle.generation + (Passed(m) + 1)
          \/ Bumped(g) = minted[m].handle.generation + (Passed(m) + 1) - LastGeneration
      BY <1>2, <3>1, <3>3, <3>4, BumpedFacts
    <3> QED
      BY <3>1, <3>2, <3>5
  <2>2. CASE j # i
    <3>1. slots'[j] = slots[j] /\ turn'[j] = turn[j]
      BY <1>4, <1>5, <1>7, <2>2
    <3>2. Passed(m)' = Passed(m)
      BY <1>15, <3>1 DEF Passed
    <3> QED
      BY <3>1, <3>2 DEF IInv, Generations
  <2> QED
    BY <2>1, <2>2
<1>14. TypeOK'
  <2>1. freeHead' \in 0 .. Len(slots')
    BY <1>1, <1>4 DEF TypeOK
  <2> QED
    BY <1>1, <1>4, <1>5, <1>6, <2>1 DEF TypeOK
<1> QED
  BY <1>9, <1>10, <1>11, <1>12, <1>13, <1>14 DEF IInv

LEMMA RetainStep ==
  ASSUME IInv, NEW n \in 1 .. Len(minted), Recent(n), Retain(n)
  PROVE  IInv'
<1> DEFINE i == minted[n].handle.index
<1>1. TypeOK /\ Own(minted[n].handle) /\ minted[n].held < MaxRefs
  BY DEF IInv, Retain
<1>2. /\ minted[n].held \in 1 .. MaxRefs /\ i \in Live /\ slots[i].refs = minted[n].held
  BY <1>1, AcceptedIsHeld
<1>3. minted[n].held + 1 \in 1 .. MaxRefs
  BY <1>1, <1>2, HandleAssumption
<1>4. slots[i] = Occupied(slots[i].value, slots[i].generation, minted[n].held)
  BY <1>1, <1>2, SlotFacts DEF Live
<1>5. slots' = [slots EXCEPT ![i] = [slots[i] EXCEPT !.refs = slots[i].refs + 1]]
  BY DEF Retain
<1>6. [slots[i] EXCEPT !.refs = slots[i].refs + 1]
        = Occupied(slots[i].value, slots[i].generation, minted[n].held + 1)
  BY <1>2, <1>4 DEF Occupied
<1>7. /\ slots' = [slots EXCEPT ![i] =
                     Occupied(slots[i].value, slots[i].generation, minted[n].held + 1)]
      /\ Counted(n, minted[n].held + 1) /\ UNCHANGED <<freeHead, turn>>
  BY <1>5, <1>6 DEF Retain
<1>8. minted[n].held > 0
  BY <1>2
<1> QED
  BY <1>3, <1>7, <1>8, RecountStep

LEMMA DropStep ==
  ASSUME IInv, NEW n \in 1 .. Len(minted), Recent(n), Own(minted[n].handle),
         Drop(minted[n].handle.index), Counted(n, minted[n].held - 1)
  PROVE  IInv'
<1> DEFINE i == minted[n].handle.index
<1>1. TypeOK /\ minted[n].held \in 1 .. MaxRefs /\ i \in Live /\ slots[i].refs = minted[n].held
  BY AcceptedIsHeld DEF IInv
<1>2. CASE slots[i].refs > 1
  <2>1. minted[n].held - 1 \in 1 .. MaxRefs /\ minted[n].held > 0
    BY <1>1, <1>2, HandleAssumption
  <2>2. slots[i] = Occupied(slots[i].value, slots[i].generation, minted[n].held)
    BY <1>1, SlotFacts DEF Live
  <2>3. slots' = [slots EXCEPT ![i] = [slots[i] EXCEPT !.refs = slots[i].refs - 1]]
        /\ UNCHANGED <<freeHead, turn>>
    BY <1>2 DEF Drop
  <2>4. [slots[i] EXCEPT !.refs = slots[i].refs - 1]
          = Occupied(slots[i].value, slots[i].generation, minted[n].held - 1)
    BY <1>1, <2>2 DEF Occupied
  <2>5. slots' = [slots EXCEPT ![i] =
                    Occupied(slots[i].value, slots[i].generation, minted[n].held - 1)]
    BY <2>3, <2>4
  <2> QED
    BY <2>1, <2>3, <2>5, RecountStep
<1>3. CASE ~(slots[i].refs > 1)
  <2>1. minted[n].held = 1 /\ minted[n].held - 1 = 0
    BY <1>1, <1>3, HandleAssumption
  <2>2. /\ slots' = [slots EXCEPT ![i] = Free(Bumped(slots[i].generation), freeHead)]
        /\ freeHead' = i /\ turn' = [turn EXCEPT ![i] = turn[i] + 1]
    BY <1>3 DEF Drop
  <2> QED
    BY <2>1, <2>2, FreeStep
<1> QED
  BY <1>2, <1>3

LEMMA IdleStep ==
  ASSUME IInv, UNCHANGED <<slots, freeHead, minted, turn>>
  PROVE  IInv'
<1>1. FreeIds' = FreeIds /\ Live' = Live
  BY DEF FreeIds, Live
<1>2. FreeListExact'
  <2>1. Len(slots') \in Nat /\ Len(slots) <= Len(slots')
    BY DEF IInv, TypeOK
  <2> QED
    BY <1>1, <2>1, FreeListKept DEF IInv
<1> QED
  BY <1>1, <1>2 DEF IInv, TypeOK, Counting, HeldOnce, Backed, Generations, Passed

LEMMA InitIInv == Init => IInv
<1> SUFFICES ASSUME Init PROVE IInv
  OBVIOUS
<1>1. slots = <<>> /\ minted = <<>> /\ turn = <<>> /\ freeHead = 0
  BY DEF Init
<1>2. FreeIds = {} /\ Live = {}
  BY <1>1 DEF FreeIds, Live
<1>3. TypeOK
  BY <1>1, HandleAssumption DEF TypeOK
<1>4. FreeListExact
  <2>1. <<>> \in [1 .. 0 -> FreeIds] /\ 0 \in 0 .. Len(slots)
    BY <1>1
  <2>2. Links(0, <<>>)
    BY <1>1, <1>2 DEF Links
  <2> QED
    BY <2>1, <2>2, FreeListLinks
<1> QED
  BY <1>1, <1>2, <1>3, <1>4 DEF IInv, Counting, HeldOnce, Backed, Generations

LEMMA InvariantStep == IInv /\ [Next]_vars => IInv'
<1> SUFFICES ASSUME IInv, [Next]_vars PROVE IInv'
  OBVIOUS
<1>1. CASE \E v \in Values : Intern(v)
  BY <1>1, ReuseStep, GrowStep DEF Intern
<1>2. ASSUME NEW n \in 1 .. Len(minted), Recent(n), Retain(n)
      PROVE  IInv'
  BY <1>2, RetainStep
<1>3. ASSUME NEW n \in 1 .. Len(minted), Recent(n), Release(n)
      PROVE  IInv'
  BY <1>3, DropStep DEF Release
<1>4. ASSUME NEW n \in 1 .. Len(minted), Recent(n), Consume(n)
      PROVE  IInv'
  BY <1>4, DropStep DEF Consume
<1>5. ASSUME NEW n \in 1 .. Len(minted), Resolve(n)
      PROVE  IInv'
  BY <1>5, IdleStep DEF Resolve
<1>6. ASSUME NEW h, NEW n, Refuse(h, n)
      PROVE  IInv'
  BY <1>6, IdleStep DEF Refuse
<1>7. CASE UNCHANGED vars
  BY <1>7, IdleStep DEF vars
<1> QED
  BY <1>1, <1>2, <1>3, <1>4, <1>5, <1>6, <1>7 DEF Next

LEMMA InvariantHolds == Spec => []IInv
  BY InitIInv, InvariantStep, PTL DEF Spec

----------------------------------------------------------------------------
(* The results.                                                             *)

\* The type invariant of HandleTable.
THEOREM TypeCorrect == Spec => []TypeOK
<1>1. IInv => TypeOK
  BY DEF IInv
<1> QED
  BY <1>1, InvariantHolds, PTL

\* The links from free_head visit the free slots exactly (handle.rs intern, release).
THEOREM FreeListIsExact == Spec => []FreeListExact
<1>1. IInv => FreeListExact
  BY DEF IInv
<1> QED
  BY <1>1, InvariantHolds, PTL

\* A recent handle reads its value while it is held and is stale after, whatever the
\* width of the generation field (handle.rs live_index).
THEOREM HandlesStayExact == Spec => []HandlesAreExact
<1>1. IInv => HandlesAreExact
  <2> SUFFICES ASSUME IInv, NEW n \in 1 .. Len(minted), Recent(n)
               PROVE  LET h == minted[n].handle IN
                      IF minted[n].held > 0
                      THEN Own(h) /\ slots[h.index].value = minted[n].value
                      ELSE Refusal(h) = "Stale"
    BY DEF HandlesAreExact
  <2>1. CASE minted[n].held > 0
    BY <2>1, HeldIsOwn
  <2>2. CASE ~(minted[n].held > 0)
    <3>1. minted[n].held = 0
      BY <2>2, MintedFacts, HandleAssumption DEF IInv
    <3> QED
      BY <2>2, <3>1, ReleasedIsStale DEF Refusal
  <2> QED
    BY <2>1, <2>2
<1> QED
  BY <1>1, InvariantHolds, PTL

\* The table roots the values the host holds, no more and no less (handle.rs
\* root_values).
THEOREM RootsStayHeld == Spec => []RootsAreHeld
<1>1. IInv => RootsAreHeld
  <2> SUFFICES ASSUME IInv PROVE RootsAreHeld
    OBVIOUS
  <2>1. ASSUME NEW i \in Live
        PROVE  \E n \in 1 .. Len(minted) : minted[n].held > 0 /\ minted[n].value = slots[i].value
    <3>1. PICK n \in 1 .. Len(minted) : minted[n].held > 0 /\ minted[n].handle.index = i
      BY DEF IInv, Backed
    <3> QED
      BY <3>1, HeldIsOwn
  <2>2. ASSUME NEW n \in 1 .. Len(minted), minted[n].held > 0
        PROVE  \E i \in Live : slots[i].value = minted[n].value
    BY <2>2, HeldIsOwn
  <2> QED
    BY <2>1, <2>2 DEF RootsAreHeld, RootValues
<1> QED
  BY <1>1, InvariantHolds, PTL

\* The references the table stands for.
Refs == [n \in 1 .. Len(minted) |-> [value |-> minted[n].value, held |-> minted[n].held]]

LEMMA RefsFacts ==
  ASSUME TypeOK
  PROVE  /\ Refs \in Seq([value : Values, held : 0 .. MaxRefs])
         /\ Len(Refs) = Len(minted)
         /\ \A n \in 1 .. Len(minted) :
              /\ Refs[n] = [value |-> minted[n].value, held |-> minted[n].held]
              /\ Refs[n].held = minted[n].held /\ Refs[n].value = minted[n].value
<1>1. Len(minted) \in Nat
  BY DEF TypeOK
<1>2. \A n \in 1 .. Len(minted) :
        [value |-> minted[n].value, held |-> minted[n].held]
          \in [value : Values, held : 0 .. MaxRefs]
  BY MintedFacts
<1>3. Refs \in [1 .. Len(minted) -> [value : Values, held : 0 .. MaxRefs]]
  BY <1>2 DEF Refs
<1> QED
  BY <1>1, <1>3 DEF Refs

LEMMA RefsCounted ==
  ASSUME TypeOK, NEW n \in 1 .. Len(minted), NEW held \in 0 .. MaxRefs, Counted(n, held)
  PROVE  Refs' = [Refs EXCEPT ![n].held = held]
<1>1. /\ Len(minted') = Len(minted) /\ minted'[n].held = held
      /\ \A m \in 1 .. Len(minted) :
           /\ minted'[m].value = minted[m].value
           /\ m # n => minted'[m].held = minted[m].held
  BY CountedFacts
<1>2. Refs' = [m \in 1 .. Len(minted) |->
                 [value |-> minted[m].value, held |-> minted'[m].held]]
  BY <1>1 DEF Refs
<1>3. [Refs EXCEPT ![n].held = held] =
        [m \in 1 .. Len(minted) |-> IF m = n THEN [Refs[n] EXCEPT !.held = held] ELSE Refs[m]]
  BY DEF Refs
<1>4. [Refs[n] EXCEPT !.held = held] = [value |-> minted[n].value, held |-> minted'[n].held]
  BY <1>1 DEF Refs
<1>5. ASSUME NEW m \in 1 .. Len(minted), m # n
      PROVE  Refs[m] = [value |-> minted[m].value, held |-> minted'[m].held]
  BY <1>1, <1>5 DEF Refs
<1> QED
  BY <1>2, <1>3, <1>4, <1>5

LEMMA RefsMinted ==
  ASSUME TypeOK, NEW v \in Values, Len(minted') = Len(minted) + 1,
         minted'[Len(minted) + 1].value = v, minted'[Len(minted) + 1].held = 1,
         \A m \in 1 .. Len(minted) : minted'[m] = minted[m]
  PROVE  Refs' = Append(Refs, [value |-> v, held |-> 1])
<1> DEFINE e == [value |-> v, held |-> 1]
<1>1. Len(minted) \in Nat
  BY DEF TypeOK
<1>2. /\ Refs \in Seq([value : Values, held : 0 .. MaxRefs]) /\ Len(Refs) = Len(minted)
      /\ e \in [value : Values, held : 0 .. MaxRefs]
  BY RefsFacts, HandleAssumption
<1>3. /\ Append(Refs, e) \in [1 .. Len(minted) + 1 -> [value : Values, held : 0 .. MaxRefs]]
      /\ Append(Refs, e)[Len(minted) + 1] = e
      /\ \A m \in 1 .. Len(minted) : Append(Refs, e)[m] = Refs[m]
  <2> HIDE DEF e
  <2> DEFINE T == [value : Values, held : 0 .. MaxRefs]
             a == Append(Refs, e)
  <2>1. Refs \in Seq(T) /\ Len(Refs) = Len(minted) /\ e \in T
    BY <1>2
  <2> HIDE DEF T
  <2>2. /\ a \in Seq(T) /\ Len(a) = Len(Refs) + 1 /\ a[Len(Refs) + 1] = e
        /\ \A m \in 1 .. Len(Refs) : a[m] = Refs[m]
    BY <2>1, AppendFacts
  <2> HIDE DEF a
  <2>3. a \in [1 .. Len(minted) + 1 -> T]
    BY <2>1, <2>2
  <2> QED
    BY <2>1, <2>2, <2>3 DEF a, T
<1>4. Refs' = [m \in 1 .. Len(minted) + 1 |->
                 [value |-> minted'[m].value, held |-> minted'[m].held]]
  BY DEF Refs
<1>5. ASSUME NEW m \in 1 .. Len(minted) + 1
      PROVE  Append(Refs, e)[m] = [value |-> minted'[m].value, held |-> minted'[m].held]
  <2>1. CASE m = Len(minted) + 1
    BY <1>3, <2>1
  <2>2. CASE m \in 1 .. Len(minted)
    BY <1>3, <2>2, RefsFacts
  <2>3. m = Len(minted) + 1 \/ m \in 1 .. Len(minted)
    BY <1>1
  <2> QED
    BY <2>1, <2>2, <2>3
<1> HIDE DEF e
<1> QED
  BY <1>3, <1>4, <1>5

\* Every step of the table is a step of the references it stands for.
LEMMA ReferencesStep == IInv /\ [Next]_vars => [References!Next]_(References!vars)
<1> SUFFICES ASSUME IInv, [Next]_vars
             PROVE  References!Next \/ UNCHANGED <<Refs, answer>>
  BY DEF References!vars, Refs
<1>1. TypeOK /\ Len(minted) \in Nat /\ Len(Refs) = Len(minted)
      /\ \A n \in 1 .. Len(minted) :
           Refs[n].held = minted[n].held /\ Refs[n].value = minted[n].value
  <2>1. TypeOK /\ Len(minted) \in Nat
    BY DEF IInv, TypeOK
  <2> QED
    BY <2>1, RefsFacts
<1>2. ASSUME NEW v \in Values, Intern(v)
      PROVE  References!Intern(v)
  <2>1. Len(minted) < MaxMinted /\ answer' = Answer(Len(minted) + 1, "Done")
    BY <1>2 DEF Intern
  <2>2. /\ Len(minted') = Len(minted) + 1
        /\ minted'[Len(minted) + 1].value = v /\ minted'[Len(minted) + 1].held = 1
        /\ \A m \in 1 .. Len(minted) : minted'[m] = minted[m]
    <3>1. PICK i, g, t : Mint(v, i, g, t)
      BY <1>2 DEF Intern, Reuse, Grow
    <3>2. minted \in Seq(Minted)
      BY <1>1 DEF TypeOK
    <3> QED
      BY <3>1, <3>2 DEF Mint
  <2>3. Refs' = Append(Refs, [value |-> v, held |-> 1])
    BY <1>1, <2>2, RefsMinted
  <2>4. Len(Refs') = Len(minted) + 1
    BY <1>1, <2>2 DEF Refs
  <2>5. Len(Refs) < MaxMinted /\ answer' = Answer(Len(Refs'), "Done")
    BY <1>1, <2>1, <2>4
  <2> QED
    BY <2>3, <2>5 DEF References!Intern, References!Answer, Answer, Refs
<1>3. ASSUME NEW n \in 1 .. Len(minted), Recent(n), Retain(n)
      PROVE  References!Retain(n)
  <2>1. /\ minted[n].held \in 1 .. MaxRefs /\ minted[n].held < MaxRefs
        /\ Counted(n, minted[n].held + 1) /\ answer' = Answer(n, "Done")
    BY <1>3, AcceptedIsHeld DEF Retain
  <2>2. Refs' = [Refs EXCEPT ![n].held = Refs[n].held + 1]
    <3>1. minted[n].held + 1 \in 0 .. MaxRefs
      BY <2>1, HandleAssumption
    <3>2. Refs' = [Refs EXCEPT ![n].held = minted[n].held + 1]
      BY <1>1, <2>1, <3>1, RefsCounted
    <3> QED
      BY <1>1, <3>2
  <2>3. Refs[n].held > 0 /\ Refs[n].held < MaxRefs
    BY <1>1, <2>1
  <2> QED
    BY <2>1, <2>2, <2>3 DEF References!Retain, References!Held, References!Answer, Answer, Refs
<1>4. ASSUME NEW n \in 1 .. Len(minted), Recent(n), Own(minted[n].handle),
             Counted(n, minted[n].held - 1)
      PROVE  /\ Refs[n].held > 0 /\ Refs' = [Refs EXCEPT ![n].held = Refs[n].held - 1]
             /\ slots[minted[n].handle.index].value = Refs[n].value
  <2>1. minted[n].held \in 1 .. MaxRefs /\ slots[minted[n].handle.index].value = minted[n].value
    BY <1>4, AcceptedIsHeld
  <2>2. minted[n].held - 1 \in 0 .. MaxRefs /\ minted[n].held > 0
    BY <2>1, HandleAssumption
  <2>3. Refs' = [Refs EXCEPT ![n].held = minted[n].held - 1]
    BY <1>1, <1>4, <2>2, RefsCounted
  <2> QED
    BY <1>1, <2>1, <2>2, <2>3
<1>5. ASSUME NEW n \in 1 .. Len(minted), Recent(n), Release(n)
      PROVE  References!Release(n)
  BY <1>4, <1>5 DEF Release, References!Release, References!Held, References!Answer, Answer, Refs
<1>6. ASSUME NEW n \in 1 .. Len(minted), Recent(n), Consume(n)
      PROVE  References!Consume(n)
  BY <1>4, <1>6 DEF Consume, References!Consume, References!Held, References!Answer, Answer, Refs
<1>7. ASSUME NEW n \in 1 .. Len(minted), Recent(n), Resolve(n)
      PROVE  References!Resolve(n)
  <2>1. minted[n].held \in 1 .. MaxRefs /\ slots[minted[n].handle.index].value = minted[n].value
    BY <1>7, AcceptedIsHeld DEF Resolve
  <2>2. Refs[n].held > 0 /\ answer' = Answer(n, Refs[n].value) /\ Refs' = Refs
    BY <1>1, <1>7, <2>1 DEF Resolve, Refs
  <2> QED
    BY <2>2 DEF References!Resolve, References!Held, References!Answer, Answer, Refs
<1>8. ASSUME NEW n \in 1 .. Len(minted), Recent(n), Refuse(minted[n].handle, n)
      PROVE  References!Refuse(n)
  <2>1. minted[n].held = 0
    BY <1>1, <1>8, MintedFacts, HeldIsOwn, HandleAssumption DEF Refuse
  <2>2. answer' = Answer(n, "Stale") /\ Refs' = Refs
    BY <1>8, <2>1, ReleasedIsStale DEF Refuse, Refusal, Refs
  <2>3. ~(Refs[n].held > 0)
    BY <1>1, <2>1
  <2> QED
    BY <2>2, <2>3 DEF References!Refuse, References!Held, References!Answer, Answer, Refs
<1>9. ASSUME NEW h, Refuse(h, 0)
      PROVE  References!Mistake
  BY <1>9 DEF Refuse, Refusal, Answer, References!Answer, References!Mistake
<1>10. CASE UNCHANGED vars
  BY <1>10 DEF vars, Refs
<1>11. CASE Next
  <2>1. CASE \E v \in Values : Intern(v)
    BY <1>2, <2>1 DEF References!Next
  <2>2. ASSUME NEW n \in 1 .. Len(minted), Recent(n),
               \/ Retain(n) \/ Release(n) \/ Resolve(n) \/ Consume(n)
               \/ Refuse(minted[n].handle, n)
        PROVE  References!Next
    <3>1. n \in 1 .. Len(Refs)
      BY <1>1
    <3> QED
      BY <1>3, <1>5, <1>6, <1>7, <1>8, <2>2, <3>1 DEF References!Next, Refs
  <2>3. ASSUME NEW h, Refuse(h, 0)
        PROVE  References!Next
    BY <1>9, <2>3 DEF References!Next
  <2> QED
    BY <1>11, <2>1, <2>2, <2>3 DEF Next
<1> QED
  BY <1>10, <1>11

\* The host cannot tell the table from counted references that are never used again
\* (the contract of handle.rs).
THEOREM TableImplementsReferences == Spec => Implements
<1>1. Init => References!Init
  BY DEF Init, References!Init, References!Answer, Answer
<1> QED
  BY <1>1, InvariantHolds, ReferencesStep, PTL DEF Spec, Implements, References!Spec

\* Free list, counts, generations and roots are exact at every moment, for every width of
\* the generation field and every number of slots (handle.rs).
THEOREM TableIsSound == Spec => []TableSound
  BY TypeCorrect, FreeListIsExact, HandlesStayExact, RootsStayHeld, PTL DEF TableSound
=============================================================================
