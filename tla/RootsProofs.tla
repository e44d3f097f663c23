---------------------------- MODULE RootsProofs ----------------------------
(* What Roots promises, for every bound: no collection frees a value in use,*)
(* whatever sets up a body is undone, an auxiliary evaluation leaves its    *)
(* stop as it was, and a fault of the heap is real. Lemmas come first: what *)
(* allocation, the collector and the end of the instance do to a heap; the  *)
(* places of the continuations of a kind, the marks that number what each   *)
(* has set up, what cutting, pushing and replacing frames does to them, and *)
(* the values that frames refer to.                                         *)
EXTENDS Roots, StackLemmas, FiniteSetTheorems, TLAPS

----------------------------------------------------------------------------
(* Numbers, sets and sums.                                                  *)

\* The least of a set of numbers.
LEMMA MinFacts ==
  ASSUME NEW S \in SUBSET Nat, S # {}
  PROVE  Min(S) \in S /\ \A y \in S : Min(S) <= y
BY LeastElement DEF Min

\* And one that is bounded has a greatest.
LEMMA MaxFacts ==
  ASSUME NEW n \in Nat, NEW S \in SUBSET (1 .. n), S # {}
  PROVE  Max(S) \in S /\ \A y \in S : Max(S) >= y
<1> DEFINE T == {n - x : x \in S}
<1>1. T \in SUBSET Nat /\ T # {}
  <2>1. \A x \in S : n - x \in Nat
    OBVIOUS
  <2> QED BY <2>1
<1>2. PICK t \in T : \A y \in T : t <= y
  BY <1>1, LeastElement
<1>3. PICK x \in S : t = n - x
  OBVIOUS
<1>4. \A y \in S : n - x <= n - y
  BY <1>2, <1>3
<1>5. \A y \in S : x >= y
  BY <1>4
<1> QED
  BY <1>5 DEF Max

----------------------------------------------------------------------------
(* Sums.                                                                    *)

\* f[n] is the sum of the first n numbers of s, of which there are N.
PartialSums(f, s, N) == \A n \in 0 .. N : f[n] = IF n = 0 THEN 0 ELSE f[n - 1] + s[n]

\* There are partial sums: a first number that has none would have one after all.
LEMMA SumsExist ==
  ASSUME NEW N \in Nat, NEW s \in [1 .. N -> Nat]
  PROVE  \E f \in [0 .. N -> Nat] : PartialSums(f, s, N)
<1> DEFINE Found(m) == \E f \in [0 .. m -> Nat] : PartialSums(f, s, m)
           Bad == {m \in 0 .. N : ~ Found(m)}
<1>1. SUFFICES ASSUME Bad # {} PROVE FALSE
  <2>1. N \notin Bad
    BY <1>1
  <2> QED BY <2>1
<1>2. Bad \in SUBSET Nat
  OBVIOUS
<1> HIDE DEF Bad
<1>3. PICK m \in Bad : \A y \in Bad : m <= y
  BY <1>1, <1>2, LeastElement
<1>4. m \in 0 .. N /\ ~ Found(m)
  BY <1>3 DEF Bad
<1>5. CASE m = 0
  <2> DEFINE f == [n \in 0 .. 0 |-> 0]
  <2>1. f \in [0 .. 0 -> Nat] /\ PartialSums(f, s, 0)
    BY DEF PartialSums
  <2> QED BY <2>1, <1>4, <1>5
<1>6. CASE m # 0
  <2>1. m - 1 \in 0 .. N /\ m - 1 \notin Bad
    BY <1>3, <1>4, <1>6
  <2>2. Found(m - 1)
    BY <2>1 DEF Bad
  <2>3. PICK f \in [0 .. m - 1 -> Nat] : PartialSums(f, s, m - 1)
    BY <2>2
  <2> DEFINE h == [n \in 0 .. m |-> IF n = m THEN f[m - 1] + s[m] ELSE f[n]]
  <2>4. f[m - 1] \in Nat /\ s[m] \in Nat
    BY <1>4, <1>6
  <2>5. h \in [0 .. m -> Nat]
    BY <1>4, <1>6, <2>4
  <2>6. PartialSums(h, s, m)
    <3> SUFFICES ASSUME NEW n \in 0 .. m
                 PROVE  h[n] = IF n = 0 THEN 0 ELSE h[n - 1] + s[n]
      BY DEF PartialSums
    <3>1. CASE n = m
      BY <1>4, <1>6, <3>1
    <3>2. CASE n # m
      <4>1. n \in 0 .. m - 1
        BY <1>4, <3>2
      <4>2. f[n] = IF n = 0 THEN 0 ELSE f[n - 1] + s[n]
        BY <2>3, <4>1 DEF PartialSums
      <4>3. h[n] = f[n] /\ (n # 0 => h[n - 1] = f[n - 1])
        BY <1>4, <4>1
      <4> QED BY <4>2, <4>3
    <3> QED BY <3>1, <3>2
  <2> QED BY <2>5, <2>6, <1>4
<1> QED BY <1>5, <1>6

\* They are determined by the numbers.
LEMMA SumsUnique ==
  ASSUME NEW N \in Nat, NEW s \in [1 .. N -> Nat], NEW f, NEW h,
         PartialSums(f, s, N), PartialSums(h, s, N)
  PROVE  \A n \in 0 .. N : f[n] = h[n]
<1> DEFINE Bad == {n \in 0 .. N : f[n] # h[n]}
<1>1. SUFFICES ASSUME Bad # {} PROVE FALSE
  OBVIOUS
<1>2. Bad \in SUBSET Nat
  OBVIOUS
<1> HIDE DEF Bad
<1>3. PICK m \in Bad : \A y \in Bad : m <= y
  BY <1>1, <1>2, LeastElement
<1>4. m \in 0 .. N /\ f[m] # h[m]
  BY <1>3 DEF Bad
<1>5. m # 0
  <2>1. 0 \in 0 .. N
    OBVIOUS
  <2>2. f[0] = 0 /\ h[0] = 0
    BY <2>1 DEF PartialSums
  <2> QED BY <1>4, <2>2
<1>6. m - 1 \in 0 .. N /\ m - 1 \notin Bad
  BY <1>3, <1>4, <1>5
<1>7. f[m - 1] = h[m - 1]
  BY <1>6 DEF Bad
<1>8. f[m] = f[m - 1] + s[m] /\ h[m] = h[m - 1] + s[m]
  BY <1>4, <1>5 DEF PartialSums
<1> QED BY <1>4, <1>7, <1>8

\* The sum is the last of the partial sums.
LEMMA TotalFacts ==
  ASSUME NEW N \in Nat, NEW s \in [1 .. N -> Nat]
  PROVE  \E f \in [0 .. N -> Nat] : PartialSums(f, s, N) /\ Total(s) = f[N]
<1>1. PICK f \in [0 .. N -> Nat] : PartialSums(f, s, N)
  BY SumsExist
<1> DEFINE Step(u) == [n \in 0 .. N |-> IF n = 0 THEN 0 ELSE u[n - 1] + s[n]]
           upto == CHOOSE u : u = Step(u)
<1>2. Len(s) = N
  BY LenProperties
<1>3. f = Step(f)
  BY <1>1 DEF PartialSums
<1>4. upto = Step(upto)
  <2> HIDE DEF Step
  <2> QED BY <1>3
<1>5. Total(s) = upto[N]
  BY <1>2, Zenon DEF Total
<1> HIDE DEF upto
<1>6. PartialSums(upto, s, N)
  <2> SUFFICES ASSUME NEW n \in 0 .. N
               PROVE  upto[n] = IF n = 0 THEN 0 ELSE upto[n - 1] + s[n]
    BY DEF PartialSums
  <2>1. upto[n] = Step(upto)[n]
    BY <1>4
  <2> QED BY <2>1
<1>7. \A n \in 0 .. N : upto[n] = f[n]
  <2> HIDE DEF Step
  <2> QED BY <1>1, <1>6, SumsUnique
<1> QED BY <1>1, <1>5, <1>7

LEMMA TotalType ==
  ASSUME NEW N \in Nat, NEW s \in [1 .. N -> Nat]
  PROVE  Total(s) \in Nat
BY TotalFacts

\* Whatever partial sums there are, the last is the total.
LEMMA TotalIs ==
  ASSUME NEW N \in Nat, NEW s \in [1 .. N -> Nat], NEW h, PartialSums(h, s, N)
  PROVE  Total(s) = h[N]
<1>1. PICK f \in [0 .. N -> Nat] : PartialSums(f, s, N) /\ Total(s) = f[N]
  BY TotalFacts
<1>2. \A n \in 0 .. N : f[n] = h[n]
  BY <1>1, SumsUnique
<1> QED BY <1>1, <1>2

AddUp(N, s, t, u) == \A n \in 1 .. N : u[n] = s[n] + t[n]

\* Sums add up member by member.
LEMMA TotalAdds ==
  ASSUME NEW N \in Nat, NEW s \in [1 .. N -> Nat], NEW t \in [1 .. N -> Nat],
         NEW u \in [1 .. N -> Nat], AddUp(N, s, t, u)
  PROVE  Total(u) = Total(s) + Total(t)
<1>1. PICK f \in [0 .. N -> Nat] : PartialSums(f, s, N) /\ Total(s) = f[N]
  BY TotalFacts
<1>2. PICK h \in [0 .. N -> Nat] : PartialSums(h, t, N) /\ Total(t) = h[N]
  BY TotalFacts
<1> DEFINE sum == [n \in 0 .. N |-> f[n] + h[n]]
<1>3. PartialSums(sum, u, N)
  <2> SUFFICES ASSUME NEW n \in 0 .. N
               PROVE  sum[n] = IF n = 0 THEN 0 ELSE sum[n - 1] + u[n]
    BY DEF PartialSums
  <2>1. /\ f[n] = IF n = 0 THEN 0 ELSE f[n - 1] + s[n]
        /\ h[n] = IF n = 0 THEN 0 ELSE h[n - 1] + t[n]
    BY <1>1, <1>2 DEF PartialSums
  <2>2. CASE n = 0
    BY <2>1, <2>2
  <2>3. CASE n # 0
    <3>1. n - 1 \in 0 .. N /\ n \in 1 .. N
      BY <2>3
    <3> DEFINE a == f[n - 1]
               b == s[n]
               c == h[n - 1]
               d == t[n]
    <3>2. a \in Nat /\ b \in Nat /\ c \in Nat /\ d \in Nat
      BY <3>1
    <3>3. sum[n] = (a + b) + (c + d)
      BY <2>1, <2>3, <3>1
    <3>4. sum[n - 1] = a + c /\ u[n] = b + d
      BY <3>1 DEF AddUp
    <3> HIDE DEF sum, a, b, c, d
    <3>5. sum[n] = sum[n - 1] + u[n]
      BY <3>2, <3>3, <3>4
    <3> QED BY <2>3, <3>5
  <2> QED BY <2>2, <2>3
<1>4. sum[N] = f[N] + h[N]
  OBVIOUS
<1> HIDE DEF sum
<1>5. Total(u) = sum[N]
  BY <1>3, TotalIs
<1> QED BY <1>1, <1>2, <1>4, <1>5

\* A sum of one number.
LEMMA TotalSingle ==
  ASSUME NEW N \in Nat, NEW s \in [1 .. N -> Nat], NEW k \in 1 .. N,
         \A n \in 1 .. N : n # k => s[n] = 0
  PROVE  Total(s) = s[k]
<1> DEFINE step == [n \in 0 .. N |-> IF n < k THEN 0 ELSE s[k]]
<1>1. PartialSums(step, s, N) /\ step[N] = s[k]
  BY DEF PartialSums
<1> HIDE DEF step
<1> QED BY <1>1, TotalIs

\* One number changes.
LEMMA TotalChanges ==
  ASSUME NEW N \in Nat, NEW s \in [1 .. N -> Nat], NEW u \in [1 .. N -> Nat],
         NEW k \in 1 .. N, \A n \in 1 .. N : n # k => u[n] = s[n]
  PROVE  Total(u) = Total(s) - s[k] + u[k]
<1> DEFINE rest == [n \in 1 .. N |-> IF n = k THEN 0 ELSE s[n]]
           old == [n \in 1 .. N |-> IF n = k THEN s[k] ELSE 0]
           new == [n \in 1 .. N |-> IF n = k THEN u[k] ELSE 0]
<1>1. rest \in [1 .. N -> Nat] /\ old \in [1 .. N -> Nat] /\ new \in [1 .. N -> Nat]
  OBVIOUS
<1>2. AddUp(N, rest, old, s)
  BY DEF AddUp
<1>9. AddUp(N, rest, new, u)
  BY DEF AddUp
<1>3. old[k] = s[k] /\ new[k] = u[k] /\ \A n \in 1 .. N : n # k => old[n] = 0 /\ new[n] = 0
  OBVIOUS
<1> HIDE DEF rest, old, new
<1>4. Total(s) = Total(rest) + Total(old)
  BY <1>1, <1>2, TotalAdds
<1>5. Total(u) = Total(rest) + Total(new)
  BY <1>1, <1>9, TotalAdds
<1>6. Total(old) = s[k]
  BY <1>1, <1>3, TotalSingle
<1>7. Total(new) = u[k]
  BY <1>1, <1>3, TotalSingle
<1>8. Total(rest) \in Nat /\ s[k] \in Nat /\ u[k] \in Nat
  BY <1>1, TotalType
<1> QED BY <1>4, <1>5, <1>6, <1>7, <1>8

\* One more number.
LEMMA TotalGrows ==
  ASSUME NEW N \in Nat, NEW s \in [1 .. N -> Nat], NEW u \in [1 .. N + 1 -> Nat],
         \A n \in 1 .. N : u[n] = s[n]
  PROVE  Total(u) = Total(s) + u[N + 1]
<1>1. PICK f \in [0 .. N -> Nat] : PartialSums(f, s, N) /\ Total(s) = f[N]
  BY TotalFacts
<1> DEFINE M == N + 1
           sum == [n \in 0 .. N + 1 |-> IF n = N + 1 THEN f[N] + u[N + 1] ELSE f[n]]
<1>2. PartialSums(sum, u, M) /\ sum[M] = f[N] + u[N + 1]
  BY <1>1 DEF PartialSums
<1>3. M \in Nat /\ u \in [1 .. M -> Nat]
  OBVIOUS
<1> HIDE DEF sum, M
<1>4. Total(u) = sum[M]
  BY <1>2, <1>3, TotalIs
<1> QED BY <1>1, <1>2, <1>4

\* The numbers of a finite set in their order: there is such a sequence, it has all of them,
\* and each once.  The place of a number is how many are no greater.
LEMMA AscendingFacts ==
  ASSUME NEW N \in Nat, NEW S \in SUBSET (1 .. N)
  PROVE  /\ Cardinality(S) \in Nat
         /\ Ascending(S) \in [1 .. Cardinality(S) -> S]
         /\ \A m, n \in 1 .. Cardinality(S) : m < n => Ascending(S)[m] < Ascending(S)[n]
         /\ \A x \in S : \E m \in 1 .. Cardinality(S) : Ascending(S)[m] = x
<1> DEFINE n == Cardinality(S)
           upto(x) == {y \in S : y <= x}
           rank == [x \in S |-> Cardinality(upto(x))]
           Rising(s) == \A a, b \in 1 .. n : a < b => s[a] < s[b]
<1>1. IsFiniteSet(S)
  <2>1. IsFiniteSet(1 .. N)
    BY FS_Interval
  <2> QED BY <2>1, FS_Subset
<1>2. n \in Nat
  BY <1>1, FS_CardinalityType
<1>3. \A x \in S : IsFiniteSet(upto(x)) /\ Cardinality(upto(x)) \in 1 .. n
  <2> TAKE x \in S
  <2>1. upto(x) \in SUBSET S
    OBVIOUS
  <2>2. IsFiniteSet(upto(x)) /\ Cardinality(upto(x)) <= n
    BY <1>1, <2>1, FS_Subset
  <2>3. x \in upto(x)
    OBVIOUS
  <2>4. Cardinality(upto(x)) \in Nat /\ Cardinality(upto(x)) # 0
    BY <2>2, <2>3, FS_CardinalityType, FS_EmptySet
  <2> HIDE DEF upto
  <2> QED BY <1>2, <2>2, <2>4
<1>4. \A x, y \in S : x < y => rank[x] < rank[y]
  <2> SUFFICES ASSUME NEW x \in S, NEW y \in S, x < y PROVE rank[x] < rank[y]
    OBVIOUS
  <2>1. upto(x) \in SUBSET upto(y) /\ y \in upto(y) /\ y \notin upto(x)
    <3>1. S \in SUBSET Nat
      OBVIOUS
    <3>2. \A z \in S : z <= x => z <= y
      BY <3>1
    <3>3. y <= y /\ ~ (y <= x)
      BY <3>1
    <3> QED BY <3>2, <3>3
  <2>2. Cardinality(upto(x)) <= Cardinality(upto(y)) /\ Cardinality(upto(x)) # Cardinality(upto(y))
    BY <1>3, <2>1, FS_Subset
  <2> HIDE DEF upto
  <2> QED BY <1>3, <1>2, <2>2
<1>5. rank \in [S -> 1 .. n]
  BY <1>3
<1> HIDE DEF rank, upto
<1>6. rank \in Injection(S, 1 .. n)
  <2>1. \A x, y \in S : rank[x] = rank[y] => x = y
    <3> SUFFICES ASSUME NEW x \in S, NEW y \in S, rank[x] = rank[y], x # y PROVE FALSE
      OBVIOUS
    <3>1. x < y \/ y < x
      OBVIOUS
    <3>2. rank[x] \in 1 .. n /\ rank[y] \in 1 .. n
      BY <1>5
    <3> QED BY <1>2, <1>4, <3>1, <3>2
  <2> QED BY <1>5, <2>1 DEF Injection, IsInjective
<1>7. IsFiniteSet(1 .. n) /\ Cardinality(1 .. n) = n
  BY <1>2, FS_Interval
<1>8. rank \in Surjection(S, 1 .. n)
  BY <1>6, <1>7, FS_Injection
<1>9. \A m \in 1 .. n : \E x \in S : rank[x] = m
  BY <1>8 DEF Surjection
<1> DEFINE order == [m \in 1 .. n |-> CHOOSE x \in S : rank[x] = m]
<1>10. \A m \in 1 .. n : order[m] \in S /\ rank[order[m]] = m
  BY <1>9
<1>11. order \in [1 .. n -> S]
  BY <1>10
<1> HIDE DEF order
<1>12. Rising(order)
  <2> SUFFICES ASSUME NEW a \in 1 .. n, NEW b \in 1 .. n, a < b, ~ (order[a] < order[b])
               PROVE  FALSE
    OBVIOUS
  <2>1. order[a] \in S /\ order[b] \in S /\ rank[order[a]] = a /\ rank[order[b]] = b
    BY <1>10
  <2>2. order[a] \in 1 .. N /\ order[b] \in 1 .. N
    BY <2>1
  <2>3. order[b] < order[a] \/ order[a] = order[b]
    BY <2>2
  <2>4. b < a \/ a = b
    BY <1>4, <2>1, <2>3
  <2> QED BY <1>2, <2>4
<1>13. Ascending(S) = CHOOSE s \in [1 .. n -> S] : Rising(s)
  BY Zenon DEF Ascending
<1> DEFINE A == Ascending(S)
<1>14. A \in [1 .. n -> S] /\ Rising(A)
  <2> HIDE DEF Rising, n
  <2> QED BY <1>11, <1>12, <1>13
<1> HIDE DEF A
<1>15. A \in Injection(1 .. n, S)
  <2>1. \A a, b \in 1 .. n : A[a] = A[b] => a = b
    <3> SUFFICES ASSUME NEW a \in 1 .. n, NEW b \in 1 .. n, A[a] = A[b], a # b PROVE FALSE
      OBVIOUS
    <3>1. a < b \/ b < a
      BY <1>2
    <3>2. A[a] \in 1 .. N
      BY <1>14
    <3> QED BY <1>14, <3>1, <3>2
  <2> QED BY <1>14, <2>1 DEF Injection, IsInjective
<1>16. A \in Surjection(1 .. n, S)
  BY <1>1, <1>7, <1>15, FS_Injection
<1>17. \A x \in S : \E m \in 1 .. n : A[m] = x
  BY <1>16 DEF Surjection
<1> QED BY <1>2, <1>14, <1>17 DEF A

----------------------------------------------------------------------------
(* A sound heap.                                                            *)

Refs == {Scalar} \cup [slot : Nat \ {0}, serial : Nat \ {0}]
Objects == [kind : Kinds, serial : Nat \ {0}, refs : Seq(Refs), finalizer : BOOLEAN]
Heaps == [slots : Seq(Objects \cup {Hole}), free : Seq(Nat), bytes : Nat, serial : Nat]

Occupied(h) == SlotsOf(h) \ Holes(h)
Alive(h) == {r \in Refs : Live(h, r)}

\* The free list is the holes in their order, and the account is exact.
Exact(h) ==
  /\ ToSet(h.free) = Holes(h)
  /\ \A m, n \in DOMAIN h.free : m < n => h.free[m] < h.free[n]
  /\ h.bytes = Charges(h, Occupied(h))

\* No two objects have the same serial, and none has one that is still to come.
Distinct(h) ==
  /\ \A i \in Occupied(h) : h.slots[i].serial <= h.serial
  /\ \A i, j \in Occupied(h) : h.slots[i].serial = h.slots[j].serial => i = j

\* What an object holds is alive.
Holding(h) == \A i \in SlotsOf(h) : h.slots[i].refs \in Seq(Alive(h))

Sound(h) == h \in Heaps /\ Exact(h) /\ Distinct(h) /\ Holding(h)

\* A slot is a hole or has an object.
LEMMA SlotFacts ==
  ASSUME NEW h \in Heaps
  PROVE  /\ Len(h.slots) \in Nat
         /\ \A i \in SlotsOf(h) : h.slots[i] \in Objects \cup {Hole}
         /\ \A i \in Occupied(h) : i \in SlotsOf(h) /\ h.slots[i] \in Objects
         /\ \A i \in Holes(h) : i \in SlotsOf(h) /\ h.slots[i] = Hole
<1>1. h.slots \in Seq(Objects \cup {Hole})
  BY DEF Heaps
<1> HIDE DEF Objects, Hole
<1> QED
  BY <1>1 DEF SlotsOf, Holes, Occupied

\* A live reference is to a slot that has an object.
LEMMA LiveFacts ==
  ASSUME NEW h \in Heaps, NEW r \in Alive(h), r # Scalar
  PROVE  /\ r.slot \in Occupied(h) /\ r.slot # 0
         /\ h.slots[r.slot].serial = r.serial
<1>1. r \in [slot : Nat \ {0}, serial : Nat \ {0}] /\ r.slot \in SlotsOf(h)
      /\ h.slots[r.slot].serial = r.serial
  BY DEF Alive, Refs, Live, Object
<1>2. h.slots[r.slot] # Hole
  <2>1. Hole.serial = 0
    BY DEF Hole
  <2> QED BY <1>1, <2>1
<1> QED
  BY <1>1, <1>2 DEF Occupied, Holes

\* What an object was charged is a number.
LEMMA ChargeFacts ==
  ASSUME NEW h \in Heaps, NEW S
  PROVE  [i \in SlotsOf(h) |-> IF i \in S THEN Charge(h.slots[i]) ELSE 0]
           \in [1 .. Len(h.slots) -> Nat]
<1>1. \A i \in SlotsOf(h) : Charge(h.slots[i]) \in Nat
  <2> TAKE i \in SlotsOf(h)
  <2>1. h.slots[i] \in Objects \cup {Hole}
    BY SlotFacts
  <2>2. h.slots[i].refs \in Seq(Refs)
    <3>1. Hole.refs = <<>>
      BY DEF Hole
    <3>2. <<>> \in Seq(Refs)
      OBVIOUS
    <3> QED BY <2>1, <3>1, <3>2 DEF Objects
  <2>3. Len(h.slots[i].refs) \in Nat
    BY <2>2
  <2> QED BY <2>3 DEF Charge, Overhead
<1> QED BY <1>1 DEF SlotsOf

\* The object that an allocation makes.
Made(h, kind, refs) ==
  [kind |-> kind, serial |-> h.serial + 1, refs |-> refs, finalizer |-> kind = "Foreign"]

\* What an allocation that leaves the heap g has done: the object o is in the slot k.
Allocated(h, g, o, k) ==
  /\ o \in Objects /\ k \in Nat \ {0}
  /\ g.slots \in Seq(Objects \cup {Hole})
  /\ SlotsOf(g) = SlotsOf(h) \cup {k} /\ k \notin Occupied(h)
  /\ g.slots[k] = o
  /\ \A i \in SlotsOf(h) : i # k => g.slots[i] = h.slots[i]
  /\ IF h.free = <<>> THEN k = Len(h.slots) + 1 /\ g.free = <<>>
     ELSE k \in Holes(h) /\ k = h.free[1] /\ g.free = Tail(h.free)
  /\ g.bytes = h.bytes + Charge(o) /\ g.serial = h.serial + 1
  /\ g = [slots |-> g.slots, free |-> g.free, bytes |-> g.bytes, serial |-> g.serial]

\* Allocation puts the new object in a slot that has none and leaves the others.
LEMMA AllocSlots ==
  ASSUME NEW h, Sound(h), NEW kind \in Kinds, NEW refs \in Seq(Alive(h))
  PROVE  Allocated(h, Alloc(h, kind, refs), Made(h, kind, refs), NextSlot(h))
<1> DEFINE g == Alloc(h, kind, refs)
           o == Made(h, kind, refs)
           k == NextSlot(h)
           O == Objects \cup {Hole}
<1>1. h.serial \in Nat /\ h.slots \in Seq(O) /\ h.free \in Seq(Nat)
  BY DEF Sound, Heaps
<1>2. Alive(h) \subseteq Refs
  BY DEF Alive
<1>3. refs \in Seq(Refs)
  BY <1>2
<1>4. o \in Objects
  BY <1>1, <1>3 DEF Objects, Made
<1>5. /\ g.slots = IF h.free = <<>> THEN Append(h.slots, o) ELSE [h.slots EXCEPT ![k] = o]
      /\ g.free = IF h.free = <<>> THEN <<>> ELSE Tail(h.free)
      /\ g.bytes = h.bytes + Charge(o) /\ g.serial = h.serial + 1
      /\ g = [slots |-> g.slots, free |-> g.free, bytes |-> g.bytes, serial |-> g.serial]
  BY DEF Alloc, Made
<1>6. o \in O
  BY <1>4
<1> HIDE DEF g, o, O
<1>7. CASE h.free = <<>>
  <2>1. k = Len(h.slots) + 1 /\ g.slots = Append(h.slots, o) /\ Len(h.slots) \in Nat
    BY <1>1, <1>5, <1>7 DEF NextSlot
  <2>2. /\ g.slots \in Seq(O) /\ Len(g.slots) = Len(h.slots) + 1
        /\ g.slots[k] = o /\ \A i \in 1 .. Len(h.slots) : g.slots[i] = h.slots[i]
    BY <1>1, <1>6, <2>1, AppendFacts
  <2>3. k \in Nat \ {0} /\ SlotsOf(g) = SlotsOf(h) \cup {k} /\ k \notin Occupied(h)
    BY <2>1, <2>2 DEF SlotsOf, Occupied
  <2> QED BY <1>4, <1>5, <1>7, <2>1, <2>2, <2>3 DEF SlotsOf, g, o, O, Allocated
<1>8. CASE h.free # <<>>
  <2>1. k = h.free[1] /\ g.slots = [h.slots EXCEPT ![k] = o] /\ 1 \in DOMAIN h.free
    BY <1>1, <1>5, <1>8 DEF NextSlot
  <2>2. k \in Holes(h)
    BY <2>1 DEF Sound, Exact, ToSet
  <2>3. k \in 1 .. Len(h.slots) /\ k \notin Occupied(h)
    BY <2>2 DEF Holes, SlotsOf, Occupied
  <2>4. /\ g.slots \in Seq(O) /\ Len(g.slots) = Len(h.slots)
        /\ g.slots[k] = o /\ \A i \in 1 .. Len(h.slots) : i # k => g.slots[i] = h.slots[i]
    BY <1>1, <1>6, <2>1, <2>3, ExceptFacts
  <2>5. k \in Nat \ {0} /\ SlotsOf(g) = SlotsOf(h) \cup {k}
    BY <1>1, <2>3, <2>4 DEF SlotsOf
  <2> QED BY <1>4, <1>5, <1>8, <2>1, <2>2, <2>3, <2>4, <2>5 DEF SlotsOf, g, o, O, Allocated
<1> QED BY <1>7, <1>8

\* What is alive stays so, the new object's serial is its own, and the free list and the
\* account remain exact.
LEMMA AllocSound ==
  ASSUME NEW h, Sound(h), NEW kind \in Kinds, NEW refs \in Seq(Alive(h))
  PROVE  /\ Sound(Alloc(h, kind, refs))
         /\ Alive(h) \subseteq Alive(Alloc(h, kind, refs))
         /\ NextRef(h) \in Alive(Alloc(h, kind, refs))
<1> DEFINE g == Alloc(h, kind, refs)
           o == Made(h, kind, refs)
           k == NextSlot(h)
           O == Objects \cup {Hole}
<1>1. /\ o \in Objects /\ k \in Nat \ {0}
      /\ g.slots \in Seq(Objects \cup {Hole})
      /\ SlotsOf(g) = SlotsOf(h) \cup {k} /\ k \notin Occupied(h)
      /\ g.slots[k] = o
      /\ \A i \in SlotsOf(h) : i # k => g.slots[i] = h.slots[i]
      /\ IF h.free = <<>> THEN k = Len(h.slots) + 1 /\ g.free = <<>>
         ELSE k \in Holes(h) /\ k = h.free[1] /\ g.free = Tail(h.free)
      /\ g.bytes = h.bytes + Charge(o) /\ g.serial = h.serial + 1
      /\ g = [slots |-> g.slots, free |-> g.free, bytes |-> g.bytes, serial |-> g.serial]
  BY AllocSlots, Zenon DEF Allocated
<1>2. h \in Heaps /\ h.serial \in Nat /\ h.bytes \in Nat /\ h.free \in Seq(Nat)
  BY DEF Sound, Heaps
<1>3. o.serial = h.serial + 1 /\ o.refs = refs /\ o # Hole
  BY <1>1 DEF Objects, Hole, Made, Kinds
<1> HIDE DEF g, o, k
<1>4. Holes(g) = Holes(h) \ {k}
  BY <1>1, <1>3 DEF Holes
<1>5. Occupied(g) = Occupied(h) \cup {k}
  BY <1>1, <1>4 DEF Occupied, Holes
<1>6. g \in Heaps
  <2>1. g.free \in Seq(Nat)
    <3>1. CASE h.free = <<>>
      BY <1>1, <1>2, <3>1
    <3>2. CASE h.free # <<>>
      <4>1. h.free \in Seq(Nat) /\ g.free = Tail(h.free)
        BY <1>1, <1>2, <3>2
      <4> QED BY <3>2, <4>1, HeadTailProperties
    <3> QED BY <3>1, <3>2
  <2>2. Charge(o) \in Nat
    <3>1. o.refs \in Seq(Refs)
      BY <1>1 DEF Objects
    <3>2. Len(o.refs) \in Nat
      BY <3>1
    <3> QED BY <3>2 DEF Charge, Overhead
  <2>3. g.bytes \in Nat /\ g.serial \in Nat
    <3>1. g.bytes = h.bytes + Charge(o) /\ g.serial = h.serial + 1
      BY <1>1
    <3>2. h.bytes \in Nat /\ h.serial \in Nat
      BY <1>2
    <3> QED BY <2>2, <3>1, <3>2
  <2> QED BY <1>1, <2>1, <2>3 DEF Heaps
<1>7. Alive(h) \subseteq Alive(g)
  <2> SUFFICES ASSUME NEW r \in Alive(h) PROVE r \in Alive(g)
    OBVIOUS
  <2>1. CASE r = Scalar
    BY <2>1 DEF Alive, Refs, Live
  <2>2. CASE r # Scalar
    <3>1. r.slot \in Occupied(h) /\ h.slots[r.slot].serial = r.serial
      BY <1>2, <2>2, LiveFacts
    <3>2. r.slot \in SlotsOf(h) /\ r.slot # k
      BY <1>1, <3>1 DEF Occupied
    <3>3. r \in Refs
      BY DEF Alive
    <3> QED BY <1>1, <3>1, <3>2, <3>3 DEF Alive, Live, Object
  <2> QED BY <2>1, <2>2
<1>8. NextRef(h) \in Alive(g)
  <2>1. NextRef(h) = [slot |-> k, serial |-> h.serial + 1]
    BY DEF NextRef, k
  <2>2. NextRef(h) \in Refs
    BY <1>1, <1>2, <2>1 DEF Refs
  <2>3. k \in SlotsOf(g) /\ g.slots[k].serial = h.serial + 1
    BY <1>1, <1>3
  <2> QED BY <2>1, <2>2, <2>3 DEF Alive, Live, Object
<1>9. Exact(g)
  <2>1. ToSet(g.free) = Holes(g) /\ \A m, n \in DOMAIN g.free : m < n => g.free[m] < g.free[n]
    <3>0. /\ ToSet(h.free) = Holes(h)
          /\ \A m, n \in DOMAIN h.free : m < n => h.free[m] < h.free[n]
      BY DEF Sound, Exact
    <3>1. CASE h.free = <<>>
      <4>1. k \notin Holes(h) /\ Holes(h) = {}
        BY <3>0, <3>1 DEF ToSet
      <4> QED BY <1>1, <1>4, <3>1, <4>1 DEF ToSet
    <3>2. CASE h.free # <<>>
      <4> DEFINE f == h.free
                 n == Len(f)
      <4>1. n \in Nat \ {0} /\ DOMAIN f = 1 .. n
        BY <1>2, <3>2
      <4>2. DOMAIN g.free = 1 .. n - 1 /\ \A i \in 1 .. n - 1 : g.free[i] = f[i + 1]
        BY <1>1, <1>2, <3>2
      <4>3. \A i \in 1 .. n : f[i] \in Nat
        BY <1>2
      <4>4. \A i \in 2 .. n : f[i] # f[1]
        <5> TAKE i \in 2 .. n
        <5>1. f[1] < f[i]
          BY <3>0, <4>1
        <5> QED BY <4>1, <4>3, <5>1
      <4>5. k = f[1]
        BY <1>1, <3>2
      <4> HIDE DEF f, n
      <4>6. \A x \in Holes(g) : \E i \in 1 .. n - 1 : g.free[i] = x
        <5> TAKE x \in Holes(g)
        <5>1. x \in ToSet(f) /\ x # f[1]
          BY <1>4, <3>0, <4>5 DEF f
        <5>2. PICK i \in 1 .. n : f[i] = x
          BY <4>1, <5>1 DEF ToSet
        <5>3. i - 1 \in 1 .. n - 1 /\ i - 1 + 1 = i
          BY <4>1, <5>1, <5>2
        <5> QED BY <4>2, <5>2, <5>3
      <4>7. \A i \in 1 .. n - 1 : g.free[i] \in Holes(g)
        <5> TAKE i \in 1 .. n - 1
        <5>1. i + 1 \in 2 .. n /\ i + 1 \in 1 .. n
          BY <4>1
        <5>2. f[i + 1] \in ToSet(f) /\ f[i + 1] # k
          BY <4>1, <4>4, <4>5, <5>1 DEF ToSet
        <5> QED BY <1>4, <3>0, <4>2, <5>2 DEF f
      <4>8. ToSet(g.free) = Holes(g)
        BY <4>2, <4>6, <4>7 DEF ToSet
      <4>9. \A a, b \in 1 .. n - 1 : a < b => g.free[a] < g.free[b]
        <5> SUFFICES ASSUME NEW a \in 1 .. n - 1, NEW b \in 1 .. n - 1, a < b
                     PROVE  g.free[a] < g.free[b]
          OBVIOUS
        <5>1. a + 1 \in 1 .. n /\ b + 1 \in 1 .. n /\ a + 1 < b + 1
          BY <4>1
        <5>2. f[a + 1] < f[b + 1]
          BY <3>0, <4>1, <5>1 DEF f
        <5> QED BY <4>2, <5>2
      <4> QED BY <4>2, <4>8, <4>9
    <3> QED BY <3>1, <3>2
  <2>2. g.bytes = Charges(g, Occupied(g))
    <3> DEFINE N == Len(h.slots)
               M == Len(g.slots)
               s == [i \in SlotsOf(h) |-> IF i \in Occupied(h) THEN Charge(h.slots[i]) ELSE 0]
               u == [i \in SlotsOf(g) |-> IF i \in Occupied(g) THEN Charge(g.slots[i]) ELSE 0]
    <3>1. N \in Nat /\ M \in Nat /\ SlotsOf(h) = 1 .. N /\ SlotsOf(g) = 1 .. M
      BY <1>2, <1>6, SlotFacts DEF SlotsOf
    <3>2. s \in [1 .. N -> Nat] /\ u \in [1 .. M -> Nat]
      BY <1>2, <1>6, ChargeFacts
    <3>3. h.bytes = Total(s) /\ Charges(g, Occupied(g)) = Total(u)
      BY Zenon DEF Sound, Exact, Charges
    <3>4. u[k] = Charge(o)
      BY <1>1, <1>5
    <3>5. \A i \in 1 .. N : i # k => u[i] = s[i]
      BY <1>1, <1>5, <3>1
    <3>6. k \in 1 .. N => s[k] = 0
      BY <1>1, <3>1
    <3> HIDE DEF s, u, N, M
    <3>7. Total(s) \in Nat
      BY <3>1, <3>2, TotalType
    <3>8. CASE h.free = <<>>
      <4>1. k = N + 1 /\ M = N + 1
        <5>1. k = N + 1
          BY <1>1, <3>8 DEF N
        <5>2. 1 .. M = 1 .. N + 1
          BY <1>1, <3>1, <5>1
        <5>3. N + 1 \in 1 .. M /\ M \in 0 .. N + 1
          BY <3>1, <5>2
        <5> QED BY <3>1, <5>1, <5>3
      <4>2. \A i \in 1 .. N : u[i] = s[i]
        BY <3>1, <3>5, <4>1
      <4>3. u \in [1 .. N + 1 -> Nat]
        BY <3>2, <4>1
      <4>4. Total(u) = Total(s) + u[N + 1]
        BY <3>1, <3>2, <4>2, <4>3, TotalGrows
      <4> QED BY <1>1, <3>3, <3>4, <4>1, <4>4
    <3>9. CASE h.free # <<>>
      <4>1. k \in 1 .. N /\ SlotsOf(g) = 1 .. N
        BY <1>1, <3>1, <3>9 DEF Holes
      <4>2. M = N
        <5>1. 1 .. M = 1 .. N /\ N \in 1 .. M /\ M \in 1 .. N
          BY <3>1, <4>1
        <5> QED BY <3>1, <5>1
      <4>3. u \in [1 .. N -> Nat]
        BY <3>2, <4>2
      <4>4. Total(u) = Total(s) - s[k] + u[k]
        BY <3>1, <3>2, <3>5, <4>1, <4>3, TotalChanges
      <4> QED BY <1>1, <3>3, <3>4, <3>6, <3>7, <4>1, <4>4
    <3> QED BY <3>8, <3>9
  <2> QED BY <2>1, <2>2 DEF Exact
<1>10. Distinct(g)
  <2>1. /\ \A i \in Occupied(h) : h.slots[i].serial <= h.serial /\ h.slots[i].serial \in Nat
        /\ \A i, j \in Occupied(h) : h.slots[i].serial = h.slots[j].serial => i = j
    BY <1>2, SlotFacts DEF Sound, Distinct, Objects
  <2>2. \A i \in Occupied(h) : i # k /\ g.slots[i] = h.slots[i]
    BY <1>1 DEF Occupied
  <2>3. g.slots[k].serial = h.serial + 1
    BY <1>1, <1>3
  <2>4. \A i \in Occupied(g) : g.slots[i].serial <= g.serial
    BY <1>1, <1>2, <1>5, <2>1, <2>2, <2>3, SMTT(30)
  <2>5. \A i \in Occupied(h) : g.slots[i].serial # g.slots[k].serial
    BY <1>2, <2>1, <2>2, <2>3
  <2>6. \A i, j \in Occupied(g) : g.slots[i].serial = g.slots[j].serial => i = j
    BY <1>5, <2>1, <2>2, <2>5
  <2> QED BY <2>4, <2>6 DEF Distinct
<1>11. Holding(g)
  <2> SUFFICES ASSUME NEW i \in SlotsOf(g) PROVE g.slots[i].refs \in Seq(Alive(g))
    BY DEF Holding
  <2>1. CASE i = k
    BY <1>1, <1>3, <1>7, <2>1
  <2>2. CASE i # k
    <3>1. i \in SlotsOf(h) /\ g.slots[i] = h.slots[i]
      BY <1>1, <2>2
    <3>2. h.slots[i].refs \in Seq(Alive(h))
      BY <3>1 DEF Sound, Holding
    <3> QED BY <1>7, <3>1, <3>2
  <2> QED BY <2>1, <2>2
<1> QED BY <1>6, <1>7, <1>8, <1>9, <1>10, <1>11 DEF Sound, g

\* A push is charged and keeps everything alive.
LEMMA PushSound ==
  ASSUME NEW h, Sound(h), NEW list \in Alive(h), list # Scalar, NEW value \in Alive(h)
  PROVE  /\ Sound(ListPush(h, list, value))
         /\ Alive(ListPush(h, list, value)) = Alive(h)
         /\ SlotsOf(ListPush(h, list, value)) = SlotsOf(h)
         /\ \A i \in SlotsOf(h) :
              /\ ListPush(h, list, value).slots[i].serial = h.slots[i].serial
              /\ ListPush(h, list, value).slots[i].finalizer = h.slots[i].finalizer
         /\ ListPush(h, list, value).serial = h.serial
<1> DEFINE g == ListPush(h, list, value)
           k == list.slot
           o == [h.slots[k] EXCEPT !.refs = Append(@, value)]
           O == Objects \cup {Hole}
<1>1. /\ h \in Heaps /\ h.serial \in Nat /\ h.bytes \in Nat /\ h.free \in Seq(Nat)
      /\ h.slots \in Seq(O)
  BY DEF Sound, Heaps
<1>2. k \in Occupied(h)
  BY <1>1, LiveFacts
<1>3. k \in SlotsOf(h) /\ h.slots[k] \in Objects /\ h.slots[k] # Hole
  BY <1>1, <1>2, SlotFacts DEF Occupied, Holes
<1>4. value \in Refs /\ h.slots[k].refs \in Seq(Refs)
  BY <1>3 DEF Alive, Objects
<1>5. /\ o.refs = Append(h.slots[k].refs, value) /\ o.refs \in Seq(Refs)
      /\ Len(o.refs) = Len(h.slots[k].refs) + 1
  <2>1. o.refs = Append(h.slots[k].refs, value)
    BY <1>3 DEF Objects
  <2>2. /\ Append(h.slots[k].refs, value) \in Seq(Refs)
        /\ Len(Append(h.slots[k].refs, value)) = Len(h.slots[k].refs) + 1
    BY <1>4, AppendFacts
  <2> QED BY <2>1, <2>2, Zenon
<1>6. /\ o \in Objects /\ o.serial = h.slots[k].serial
      /\ o.finalizer = h.slots[k].finalizer
  <2> DEFINE x == h.slots[k]
             rs == Append(x.refs, value)
  <2>1. x = [kind |-> x.kind, serial |-> x.serial, refs |-> x.refs, finalizer |-> x.finalizer]
        /\ x.kind \in Kinds /\ x.serial \in Nat \ {0} /\ x.finalizer \in BOOLEAN
    BY <1>3 DEF Objects
  <2>2. rs \in Seq(Refs)
    BY <1>5, <2>1
  <2>3. o = [x EXCEPT !.refs = rs]
    BY Zenon DEF rs, x
  <2>4. o.serial = x.serial /\ o.finalizer = x.finalizer /\ o \in Objects
    <3> HIDE DEF x, rs, o
    <3>1. o = [kind |-> x.kind, serial |-> x.serial, refs |-> rs, finalizer |-> x.finalizer]
      BY <2>1, <2>3
    <3>2. [kind |-> x.kind, serial |-> x.serial, refs |-> rs, finalizer |-> x.finalizer]
            \in Objects
      BY <2>1, <2>2, Zenon DEF Objects
    <3> QED BY <3>1, <3>2
  <2> QED BY <2>4
<1>7. o # Hole
  BY <1>6 DEF Objects, Hole
<1>8. /\ g.slots = [h.slots EXCEPT ![k] = o]
      /\ g.free = h.free /\ g.bytes = h.bytes + 1 /\ g.serial = h.serial
      /\ g = [slots |-> g.slots, free |-> g.free, bytes |-> g.bytes, serial |-> g.serial]
  <2>1. g = [h EXCEPT !.slots = [h.slots EXCEPT ![k] = o], !.bytes = h.bytes + 1]
    BY Zenon DEF ListPush
  <2>2. h = [slots |-> h.slots, free |-> h.free, bytes |-> h.bytes, serial |-> h.serial]
    BY <1>1 DEF Heaps
  <2> DEFINE t == [h.slots EXCEPT ![k] = o]
             b == h.bytes + 1
  <2> HIDE DEF t, b, g, o
  <2>3. g = [h EXCEPT !.slots = t, !.bytes = b]
    BY <2>1, Zenon DEF t, b
  <2>4. g = [slots |-> t, free |-> h.free, bytes |-> b, serial |-> h.serial]
    BY <2>2, <2>3
  <2> QED BY <2>4 DEF t, b
<1> HIDE DEF g, o, O
<1>9. /\ g.slots \in Seq(O) /\ Len(g.slots) = Len(h.slots) /\ g.slots[k] = o
      /\ \A i \in 1 .. Len(h.slots) : i # k => g.slots[i] = h.slots[i]
  <2>1. k \in 1 .. Len(h.slots) /\ o \in O
    BY <1>3, <1>6 DEF SlotsOf, O
  <2> QED BY <1>1, <1>8, <2>1, ExceptFacts
<1>10. /\ SlotsOf(g) = SlotsOf(h) /\ Holes(g) = Holes(h) /\ Occupied(g) = Occupied(h)
  <2>1. SlotsOf(g) = SlotsOf(h)
    BY <1>9 DEF SlotsOf
  <2>2. Holes(g) = Holes(h)
    BY <1>3, <1>7, <1>9, <2>1 DEF SlotsOf, Holes
  <2> QED BY <2>1, <2>2 DEF Occupied
<1>11. \A i \in SlotsOf(h) : /\ g.slots[i].serial = h.slots[i].serial
                             /\ g.slots[i].finalizer = h.slots[i].finalizer
  BY <1>6, <1>9 DEF SlotsOf
<1>12. Alive(g) = Alive(h)
  BY <1>10, <1>11 DEF Alive, Live, Object
<1>13. g \in Heaps
  <2>1. g.bytes \in Nat /\ g.slots \in Seq(Objects \cup {Hole})
    BY <1>1, <1>8, <1>9 DEF O
  <2> QED BY <1>1, <1>8, <2>1 DEF Heaps
<1>14. Exact(g)
  <2>1. /\ ToSet(g.free) = Holes(g)
        /\ \A m, n \in DOMAIN g.free : m < n => g.free[m] < g.free[n]
    BY <1>8, <1>10 DEF Sound, Exact
  <2>2. g.bytes = Charges(g, Occupied(g))
    <3> DEFINE N == Len(h.slots)
               s == [i \in SlotsOf(h) |-> IF i \in Occupied(h) THEN Charge(h.slots[i]) ELSE 0]
               u == [i \in SlotsOf(g) |-> IF i \in Occupied(g) THEN Charge(g.slots[i]) ELSE 0]
    <3>1. N \in Nat /\ SlotsOf(h) = 1 .. N /\ SlotsOf(g) = 1 .. N
      BY <1>1, <1>10, SlotFacts DEF SlotsOf
    <3>2. s \in [1 .. N -> Nat] /\ u \in [1 .. N -> Nat]
      BY <1>1, <1>9, <1>13, ChargeFacts
    <3>3. h.bytes = Total(s) /\ Charges(g, Occupied(g)) = Total(u)
      BY Zenon DEF Sound, Exact, Charges
    <3>4. u[k] = s[k] + 1
      <4>1. u[k] = Charge(o) /\ s[k] = Charge(h.slots[k])
        BY <1>2, <1>3, <1>9, <1>10
      <4>2. Len(h.slots[k].refs) \in Nat
        BY <1>4
      <4> QED BY <1>5, <4>1, <4>2 DEF Charge, Overhead
    <3>5. \A i \in 1 .. N : i # k => u[i] = s[i]
      BY <1>9, <1>10, <3>1
    <3>6. k \in 1 .. N
      BY <1>3, <3>1
    <3> HIDE DEF s, u, N
    <3>7. Total(s) \in Nat /\ s[k] \in Nat
      BY <3>1, <3>2, <3>6, TotalType
    <3>8. Total(u) = Total(s) - s[k] + u[k]
      BY <3>1, <3>2, <3>5, <3>6, TotalChanges
    <3> QED BY <1>8, <3>3, <3>4, <3>7, <3>8
  <2> QED BY <2>1, <2>2 DEF Exact
<1>15. Distinct(g)
  <2>1. \A i \in Occupied(h) : g.slots[i].serial = h.slots[i].serial
    BY <1>11 DEF Occupied
  <2> QED BY <1>8, <1>10, <2>1 DEF Sound, Distinct
<1>16. Holding(g)
  <2> SUFFICES ASSUME NEW i \in SlotsOf(h) PROVE g.slots[i].refs \in Seq(Alive(h))
    BY <1>10, <1>12 DEF Holding
  <2>1. h.slots[i].refs \in Seq(Alive(h)) /\ h.slots[k].refs \in Seq(Alive(h))
    BY <1>3 DEF Sound, Holding
  <2>2. Append(h.slots[k].refs, value) \in Seq(Alive(h))
    BY <2>1
  <2> QED BY <1>5, <1>9, <2>1, <2>2 DEF SlotsOf
<1> QED BY <1>8, <1>10, <1>11, <1>12, <1>13, <1>14, <1>15, <1>16 DEF Sound, g

----------------------------------------------------------------------------
(* The collector.                                                           *)

\* What an object holds is in slots that have objects.
LEMMA ChildrenFacts ==
  ASSUME NEW h, Sound(h), NEW i \in SlotsOf(h)
  PROVE  Children(h, i) \subseteq Occupied(h)
<1> SUFFICES ASSUME NEW r \in ToSet(h.slots[i].refs), r.slot # 0
             PROVE  r.slot \in Occupied(h)
  BY DEF Children
<1>1. h.slots[i].refs \in Seq(Alive(h)) /\ h \in Heaps
  BY DEF Sound, Holding
<1>2. r \in Alive(h)
  BY <1>1 DEF ToSet
<1>3. r # Scalar
  BY DEF Scalar
<1> QED BY <1>1, <1>2, <1>3, LiveFacts

\* What is marked has the roots, is closed under reference, and is the least such set.
LEMMA MarkedFacts ==
  ASSUME NEW h, Sound(h), NEW roots
  PROVE  /\ Marked(h, roots) \subseteq SlotsOf(h)
         /\ roots \cap SlotsOf(h) \subseteq Marked(h, roots)
         /\ Closed(h, Marked(h, roots))
         /\ \A S \in SUBSET SlotsOf(h) :
              roots \subseteq S /\ Closed(h, S) => Marked(h, roots) \subseteq S
         /\ ~ roots \subseteq SlotsOf(h) => Marked(h, roots) = SlotsOf(h)
<1> DEFINE closed == {S \in SUBSET SlotsOf(h) : roots \subseteq S /\ Closed(h, S)}
           M == {i \in SlotsOf(h) : \A S \in closed : i \in S}
<1>1. Marked(h, roots) = M
  BY Zenon DEF Marked
<1>2. M \subseteq SlotsOf(h) /\ roots \cap SlotsOf(h) \subseteq M
  OBVIOUS
<1>3. \A S \in SUBSET SlotsOf(h) : roots \subseteq S /\ Closed(h, S) => M \subseteq S
  OBVIOUS
<1>4. ~ roots \subseteq SlotsOf(h) => M = SlotsOf(h)
  OBVIOUS
<1>5. Closed(h, M)
  <2> SUFFICES ASSUME NEW i \in M, NEW c \in Children(h, i) PROVE c \in M
    BY Zenon DEF Closed
  <2>1. c \in SlotsOf(h)
    BY ChildrenFacts DEF Occupied
  <2>2. \A S \in closed : c \in S
    BY DEF Closed
  <2> QED BY <2>1, <2>2
<1> QED BY <1>1, <1>2, <1>3, <1>4, <1>5

\* A sweep of what is not marked keeps what is, and leaves the free list and the account
\* exact.
LEMMA SweepSound ==
  ASSUME NEW h, Sound(h), NEW marked \in SUBSET SlotsOf(h), Closed(h, marked),
         marked \cap Holes(h) = {}
  PROVE  /\ Sound(Sweep(h, marked))
         /\ SlotsOf(Sweep(h, marked)) = SlotsOf(h)
         /\ Occupied(Sweep(h, marked)) = marked
         /\ \A i \in SlotsOf(h) :
              Sweep(h, marked).slots[i] = IF i \in marked THEN h.slots[i] ELSE Hole
         /\ \A r \in Alive(h) : r = Scalar \/ r.slot \in marked => r \in Alive(Sweep(h, marked))
         /\ Sweep(h, marked).serial = h.serial
<1> DEFINE g == Sweep(h, marked)
           O == Objects \cup {Hole}
           N == Len(h.slots)
<1>1. /\ h \in Heaps /\ h.serial \in Nat /\ h.bytes \in Nat /\ h.slots \in Seq(O)
      /\ N \in Nat /\ SlotsOf(h) = 1 .. N
  BY SlotFacts DEF Sound, Heaps, SlotsOf
<1>2. /\ g.slots = [i \in 1 .. N |-> IF i \in marked THEN h.slots[i] ELSE Hole]
      /\ g.free = Ascending(SlotsOf(h) \ marked)
      /\ g.bytes = h.bytes - Freed(h, marked) /\ g.serial = h.serial
      /\ g = [slots |-> g.slots, free |-> g.free, bytes |-> g.bytes, serial |-> g.serial]
  BY <1>1 DEF Sweep, FreeList
<1>3. \A i \in marked : i \in Occupied(h) /\ h.slots[i] \in Objects /\ h.slots[i] # Hole
  BY <1>1, SlotFacts DEF Occupied, Holes
<1> HIDE DEF g, O, N
<1>4. /\ g.slots \in Seq(O) /\ Len(g.slots) = N /\ SlotsOf(g) = 1 .. N
      /\ \A i \in 1 .. N : g.slots[i] = IF i \in marked THEN h.slots[i] ELSE Hole
  <2>1. \A i \in 1 .. N : (IF i \in marked THEN h.slots[i] ELSE Hole) \in O
    BY <1>3 DEF O
  <2> HIDE DEF Hole
  <2>2. g.slots \in [1 .. N -> O]
    BY <1>2, <2>1
  <2> QED BY <1>1, <1>2, <2>2, LenProperties DEF SlotsOf
<1>5. Holes(g) = SlotsOf(h) \ marked /\ Occupied(g) = marked
  BY <1>1, <1>3, <1>4 DEF Holes, Occupied
<1>6. \A r \in Alive(h) : r = Scalar \/ r.slot \in marked => r \in Alive(g)
  <2> SUFFICES ASSUME NEW r \in Alive(h), r # Scalar, r.slot \in marked PROVE r \in Alive(g)
    BY DEF Alive, Live, Refs
  <2>1. r \in Refs /\ r.slot \in SlotsOf(h) /\ h.slots[r.slot].serial = r.serial
    BY DEF Alive, Live, Object
  <2> QED BY <1>1, <1>4, <2>1 DEF Alive, Live, Object
<1>7. Holding(g)
  <2> SUFFICES ASSUME NEW i \in 1 .. N PROVE g.slots[i].refs \in Seq(Alive(g))
    BY <1>4 DEF Holding
  <2>1. CASE i \in marked
    <3>1. g.slots[i].refs = h.slots[i].refs /\ h.slots[i].refs \in Seq(Alive(h))
      BY <1>1, <1>4, <2>1 DEF Sound, Holding
    <3>2. \A n \in 1 .. Len(h.slots[i].refs) : h.slots[i].refs[n] \in Alive(g)
      <4> SUFFICES ASSUME NEW n \in 1 .. Len(h.slots[i].refs)
                   PROVE  h.slots[i].refs[n] \in Alive(g)
        OBVIOUS
      <4> DEFINE r == h.slots[i].refs[n]
      <4>1. r \in Alive(h) /\ r \in ToSet(h.slots[i].refs)
        BY <3>1 DEF ToSet
      <4>2. r # Scalar => r.slot \in Children(h, i)
        <5>1. r # Scalar => r.slot # 0
          BY <1>1, <4>1, LiveFacts
        <5> QED BY <4>1, <5>1 DEF Children
      <4>3. r # Scalar => r.slot \in marked
        BY <2>1, <4>2 DEF Closed
      <4> QED BY <1>6, <4>1, <4>3
    <3> QED BY <3>1, <3>2
  <2>2. CASE i \notin marked
    <3>1. g.slots[i].refs = <<>>
      BY <1>4, <2>2 DEF Hole
    <3> QED BY <3>1
  <2> QED BY <2>1, <2>2
<1>8. g.free \in Seq(Nat) /\ ToSet(g.free) = Holes(g)
      /\ \A m, n \in DOMAIN g.free : m < n => g.free[m] < g.free[n]
  <2> DEFINE S == SlotsOf(h) \ marked
             c == Cardinality(S)
  <2>1. S \in SUBSET (1 .. N)
    BY <1>1
  <2> HIDE DEF S
  <2>2. /\ c \in Nat /\ Ascending(S) \in [1 .. c -> S]
        /\ \A m, n \in 1 .. c : m < n => Ascending(S)[m] < Ascending(S)[n]
        /\ \A x \in S : \E m \in 1 .. c : Ascending(S)[m] = x
    BY <1>1, <2>1, AscendingFacts
  <2>3. g.free = Ascending(S)
    BY <1>2 DEF S
  <2> HIDE DEF c
  <2>4. DOMAIN g.free = 1 .. c /\ \A m \in 1 .. c : g.free[m] \in S
    BY <2>2, <2>3
  <2>5. ToSet(g.free) = S
    BY <2>2, <2>3, <2>4 DEF ToSet
  <2>6. g.free \in Seq(Nat)
    <3>1. S \subseteq Nat
      BY <2>1
    <3>2. Ascending(S) \in [1 .. c -> Nat]
      BY <2>2, <3>1, Zenon
    <3> QED BY <2>2, <2>3, <3>2
  <2> QED BY <1>5, <2>2, <2>3, <2>4, <2>5, <2>6 DEF S
<1>9. g.bytes \in Nat /\ g.bytes = Charges(g, Occupied(g))
  <2> DEFINE s == [i \in SlotsOf(h) |-> IF i \in Occupied(h) THEN Charge(h.slots[i]) ELSE 0]
             t == [i \in SlotsOf(h) |-> IF i \in Swept(h, marked) THEN Charge(h.slots[i]) ELSE 0]
             u == [i \in SlotsOf(g) |-> IF i \in Occupied(g) THEN Charge(g.slots[i]) ELSE 0]
  <2>1. s \in [1 .. N -> Nat] /\ t \in [1 .. N -> Nat]
    BY <1>1, ChargeFacts DEF N
  <2>2. \A i \in 1 .. N : u[i] = IF i \in marked THEN Charge(h.slots[i]) ELSE 0
    BY <1>4, <1>5
  <2>3. \A i \in 1 .. N : i \in Swept(h, marked) <=> i \in Occupied(h) /\ i \notin marked
    BY <1>1 DEF Swept, Occupied
  <2>4. \A i \in 1 .. N : s[i] \in Nat /\ t[i] \in Nat
    BY <2>1
  <2>5. \A i \in 1 .. N : u[i] \in Nat /\ s[i] = u[i] + t[i]
    <3> SUFFICES ASSUME NEW i \in 1 .. N PROVE u[i] \in Nat /\ s[i] = u[i] + t[i]
      OBVIOUS
    <3> DEFINE v == Charge(h.slots[i])
    <3>1. /\ s[i] = IF i \in Occupied(h) THEN v ELSE 0
          /\ t[i] = IF i \in Swept(h, marked) THEN v ELSE 0
          /\ u[i] = IF i \in marked THEN v ELSE 0
      BY <1>1, <2>2
    <3>2. i \in marked => i \in Occupied(h)
      BY <1>3
    <3> HIDE DEF s, t, u, v
    <3> QED BY <2>3, <2>4, <3>1, <3>2
  <2>6. u \in [1 .. N -> Nat]
    <3>1. u = [i \in 1 .. N |-> u[i]]
      BY <1>4
    <3> HIDE DEF u
    <3> QED BY <2>5, <3>1
  <2>7. h.bytes = Total(s) /\ Freed(h, marked) = Total(t) /\ Charges(g, Occupied(g)) = Total(u)
    BY Zenon DEF Sound, Exact, Charges, Freed
  <2> HIDE DEF s, t, u
  <2>8. AddUp(N, u, t, s)
    BY <2>5 DEF AddUp
  <2>9. Total(s) = Total(u) + Total(t)
    <3>1. PICK n \in Nat : n = N
      BY <1>1
    <3>2. /\ s \in [1 .. n -> Nat] /\ t \in [1 .. n -> Nat] /\ u \in [1 .. n -> Nat]
          /\ AddUp(n, u, t, s)
      BY <2>1, <2>6, <2>8, <3>1
    <3>3. \A a, b, c \in [1 .. n -> Nat] : AddUp(n, a, b, c) => Total(c) = Total(a) + Total(b)
      BY TotalAdds
    <3> QED BY <3>2, <3>3, Zenon
  <2>10. Total(s) \in Nat /\ Total(t) \in Nat /\ Total(u) \in Nat
    BY <1>1, <2>1, <2>6, TotalType
  <2> QED BY <1>2, <2>7, <2>9, <2>10
<1>10. g \in Heaps
  BY <1>1, <1>2, <1>4, <1>8, <1>9 DEF Heaps, O
<1>11. Distinct(g)
  <2>1. \A i \in marked : g.slots[i] = h.slots[i]
    BY <1>1, <1>4
  <2> QED BY <1>2, <1>3, <1>5, <2>1 DEF Sound, Distinct
<1> QED BY <1>1, <1>2, <1>4, <1>5, <1>6, <1>7, <1>8, <1>9, <1>10, <1>11 DEF Sound, Exact, g

\* Marking again after the sweep finds all that it left: nothing is kept but for the roots.
LEMMA SweptIsReachable ==
  ASSUME NEW h, Sound(h), NEW roots, Marked(h, roots) \cap Holes(h) = {}
  PROVE  LET g == Sweep(h, Marked(h, roots)) IN Occupied(g) \subseteq Marked(g, roots)
<1> DEFINE M == Marked(h, roots)
           g == Sweep(h, M)
<1>1. /\ M \in SUBSET SlotsOf(h) /\ Closed(h, M) /\ roots \cap SlotsOf(h) \subseteq M
      /\ \A S \in SUBSET SlotsOf(h) : roots \subseteq S /\ Closed(h, S) => M \subseteq S
      /\ ~ roots \subseteq SlotsOf(h) => M = SlotsOf(h)
  BY MarkedFacts
<1> HIDE DEF M
<1>2. /\ Sound(g) /\ SlotsOf(g) = SlotsOf(h) /\ Occupied(g) = M
      /\ \A i \in SlotsOf(h) : g.slots[i] = IF i \in M THEN h.slots[i] ELSE Hole
  BY <1>1, SweepSound DEF M
<1> HIDE DEF g
<1>3. SUFFICES ASSUME NEW i \in M, NEW S \in SUBSET SlotsOf(g), roots \subseteq S, Closed(g, S)
               PROVE  i \in S
  BY <1>1, <1>2 DEF Marked, M, g
<1>4. roots \subseteq SlotsOf(h) /\ S \cap M \in SUBSET SlotsOf(h)
  BY <1>1, <1>2, <1>3
<1>5. roots \subseteq S \cap M
  BY <1>1, <1>3, <1>4
<1>6. Closed(h, S \cap M)
  <2> SUFFICES ASSUME NEW j \in S \cap M PROVE Children(h, j) \subseteq S \cap M
    BY DEF Closed
  <2>1. g.slots[j] = h.slots[j]
    BY <1>1, <1>2
  <2>2. Children(h, j) = Children(g, j)
    BY <2>1 DEF Children
  <2> QED BY <1>1, <1>3, <2>2 DEF Closed
<1> QED BY <1>1, <1>4, <1>5, <1>6

\* Taking the finalizers from the objects changes nothing else.
LEMMA DropSound ==
  ASSUME NEW h, Sound(h)
  PROVE  /\ Sound(FinalizeAll(h)) /\ Alive(FinalizeAll(h)) = Alive(h)
         /\ SlotsOf(FinalizeAll(h)) = SlotsOf(h) /\ FinalizeAll(h).serial = h.serial
         /\ \A i \in SlotsOf(h) : FinalizeAll(h).slots[i].serial = h.slots[i].serial
<1> DEFINE g == FinalizeAll(h)
           O == Objects \cup {Hole}
           N == Len(h.slots)
           t == [i \in 1 .. N |-> [h.slots[i] EXCEPT !.finalizer = FALSE]]
<1>1. /\ h \in Heaps /\ h.serial \in Nat /\ h.bytes \in Nat /\ h.slots \in Seq(O)
      /\ N \in Nat /\ SlotsOf(h) = 1 .. N /\ DOMAIN h.slots = 1 .. N
      /\ h = [slots |-> h.slots, free |-> h.free, bytes |-> h.bytes, serial |-> h.serial]
  BY SlotFacts DEF Sound, Heaps, SlotsOf
<1>2. g = [slots |-> t, free |-> h.free, bytes |-> h.bytes, serial |-> h.serial]
  <2>1. g = [h EXCEPT !.slots = t]
    BY <1>1 DEF FinalizeAll
  <2> HIDE DEF t, g
  <2> QED BY <1>1, <2>1
<1>3. \A i \in 1 .. N : /\ t[i] \in O /\ (t[i] = Hole <=> h.slots[i] = Hole)
                       /\ t[i].serial = h.slots[i].serial /\ t[i].refs = h.slots[i].refs
  <2> SUFFICES ASSUME NEW i \in 1 .. N
               PROVE  /\ t[i] \in O /\ (t[i] = Hole <=> h.slots[i] = Hole)
                      /\ t[i].serial = h.slots[i].serial /\ t[i].refs = h.slots[i].refs
    OBVIOUS
  <2> DEFINE o == h.slots[i]
  <2>0. t[i] = [o EXCEPT !.finalizer = FALSE]
    OBVIOUS
  <2> HIDE DEF t, o
  <2>1. CASE o = Hole
    <3>1. t[i] = Hole
      BY <2>0, <2>1 DEF Hole
    <3> QED BY <2>1, <3>1 DEF o
  <2>2. CASE o \in Objects
    <3>1. /\ t[i].kind = o.kind /\ t[i].serial = o.serial /\ t[i].refs = o.refs
          /\ t[i] \in Objects
      BY <2>0, <2>2 DEF Objects
    <3>2. t[i] # Hole /\ o # Hole
      BY <2>2, <3>1 DEF Objects, Hole
    <3> QED BY <3>1, <3>2 DEF o
  <2>3. o \in Objects \/ o = Hole
    BY <1>1, SlotFacts DEF o
  <2> QED BY <2>1, <2>2, <2>3
<1>4. t \in Seq(O) /\ Len(t) = N
  <2>1. t = [i \in 1 .. N |-> t[i]]
    OBVIOUS
  <2> HIDE DEF t, O
  <2>2. t \in [1 .. N -> O]
    BY <1>3, <2>1
  <2> QED BY <1>1, <2>2, LenProperties
<1> HIDE DEF t, g
<1>5. g.slots = t /\ g.free = h.free /\ g.bytes = h.bytes /\ g.serial = h.serial
  BY <1>2
<1>6. SlotsOf(g) = SlotsOf(h) /\ Holes(g) = Holes(h) /\ Occupied(g) = Occupied(h)
  BY <1>1, <1>3, <1>4, <1>5 DEF SlotsOf, Holes, Occupied
<1>7. Alive(g) = Alive(h)
  BY <1>1, <1>3, <1>5, <1>6 DEF Alive, Live, Object
<1>8. g \in Heaps
  <2>1. h.free \in Seq(Nat) /\ t \in Seq(Objects \cup {Hole})
    BY <1>1, <1>4 DEF Heaps, O
  <2> HIDE DEF O
  <2> QED BY <1>1, <1>2, <2>1 DEF Heaps
<1>9. Exact(g)
  <2>1. [i \in SlotsOf(g) |-> IF i \in Occupied(g) THEN Charge(g.slots[i]) ELSE 0]
          = [i \in SlotsOf(h) |-> IF i \in Occupied(h) THEN Charge(h.slots[i]) ELSE 0]
    <3>1. \A i \in 1 .. N : Charge(g.slots[i]) = Charge(h.slots[i])
      BY <1>3, <1>5 DEF Charge
    <3> QED BY <1>1, <1>6, <3>1
  <2>2. Charges(g, Occupied(g)) = Charges(h, Occupied(h))
    BY <2>1, Zenon DEF Charges
  <2> QED BY <1>5, <1>6, <2>2 DEF Sound, Exact
<1>10. Distinct(g)
  <2>1. \A i \in Occupied(h) : g.slots[i].serial = h.slots[i].serial
    BY <1>1, <1>3, <1>5 DEF Occupied
  <2> QED BY <1>5, <1>6, <2>1 DEF Sound, Distinct
<1>11. Holding(g)
  BY <1>1, <1>3, <1>5, <1>6, <1>7 DEF Sound, Holding
<1> QED BY <1>1, <1>3, <1>5, <1>6, <1>7, <1>8, <1>9, <1>10, <1>11 DEF Sound, g

----------------------------------------------------------------------------
(* The frames.                                                              *)

ContKinds == {"Call", "Native", "With", "Try", "Handler"}
ContsOver(G) == [kind : ContKinds, val : G, mark : Nat]
FramesOver(G) == [cal : G, local : G, conts : Seq(ContsOver(G))]
UnwindOver(G, T) == [armed : BOOLEAN, value : G, trace : T, trapped : BOOLEAN]
IsSeq(s) == s \in Seq(ToSet(s))

----------------------------------------------------------------------------
(* The places of the continuations of a kind, and what edits of the frames  *)
(* do to them.                                                              *)

Stacks == Seq(FramesOver(Refs))
MarkAt(fs, p) == fs[p[1]].conts[p[2]].mark
Before(p, q) == p[1] < q[1] \/ (p[1] = q[1] /\ p[2] < q[2])

\* The places in the conts c of the frame n.
Within(n, c, kind) == {n} \X {j \in 1 .. Len(c) : c[j].kind = kind}

LEMMA FrameFacts ==
  ASSUME NEW G, NEW f \in FramesOver(G)
  PROVE  /\ f.cal \in G /\ f.local \in G /\ f.conts \in Seq(ContsOver(G))
         /\ Len(f.conts) \in Nat /\ DOMAIN f.conts = 1 .. Len(f.conts)
         /\ \A j \in 1 .. Len(f.conts) :
              /\ f.conts[j] \in ContsOver(G)
              /\ f.conts[j].val \in G /\ f.conts[j].mark \in Nat
              /\ f.conts[j].kind \in ContKinds
<1>1. f.cal \in G /\ f.local \in G /\ f.conts \in Seq(ContsOver(G))
  BY DEF FramesOver
<1>2. \A j \in 1 .. Len(f.conts) : f.conts[j] \in ContsOver(G)
  BY <1>1
<1>3. \A c \in ContsOver(G) : c.val \in G /\ c.mark \in Nat /\ c.kind \in ContKinds
  BY DEF ContsOver
<1> QED BY <1>1, <1>2, <1>3

LEMMA PlacesFacts ==
  ASSUME NEW fs \in Stacks, NEW kind
  PROVE  /\ Len(fs) \in Nat /\ \A i \in 1 .. Len(fs) : fs[i] \in FramesOver(Refs)
         /\ Places(fs, kind) = UNION {Within(i, fs[i].conts, kind) : i \in 1 .. Len(fs)}
         /\ \A i, j : <<i, j>> \in Places(fs, kind) <=>
              i \in 1 .. Len(fs) /\ j \in 1 .. Len(fs[i].conts) /\ fs[i].conts[j].kind = kind
         /\ \A p \in Places(fs, kind) :
              /\ p = <<p[1], p[2]>> /\ p[1] \in 1 .. Len(fs)
              /\ p[2] \in 1 .. Len(fs[p[1]].conts) /\ fs[p[1]].conts[p[2]].kind = kind
              /\ MarkAt(fs, p) \in Nat
<1>1. Len(fs) \in Nat /\ DOMAIN fs = 1 .. Len(fs)
      /\ \A i \in 1 .. Len(fs) : fs[i] \in FramesOver(Refs)
  BY DEF Stacks
<1>2. \A i \in 1 .. Len(fs) : DOMAIN fs[i].conts = 1 .. Len(fs[i].conts)
  BY <1>1, FrameFacts
<1>3. Places(fs, kind) = UNION {Within(i, fs[i].conts, kind) : i \in 1 .. Len(fs)}
  BY <1>1, <1>2 DEF Places, Within
<1>4. \A i, j : <<i, j>> \in Places(fs, kind) <=>
        i \in 1 .. Len(fs) /\ j \in 1 .. Len(fs[i].conts) /\ fs[i].conts[j].kind = kind
  BY <1>3 DEF Within
<1>5. \A p \in Places(fs, kind) : p = <<p[1], p[2]>>
  BY <1>3 DEF Within
<1>6. \A p \in Places(fs, kind) :
        /\ p[1] \in 1 .. Len(fs)
        /\ p[2] \in 1 .. Len(fs[p[1]].conts) /\ fs[p[1]].conts[p[2]].kind = kind
  BY <1>4, <1>5
<1>7. \A p \in Places(fs, kind) : MarkAt(fs, p) \in Nat
  BY <1>1, <1>6, FrameFacts DEF MarkAt
<1> QED BY <1>1, <1>3, <1>4, <1>5, <1>6, <1>7

LEMMA WithinFinite ==
  ASSUME NEW n, NEW G, NEW c \in Seq(ContsOver(G)), NEW kind
  PROVE  /\ IsFiniteSet(Within(n, c, kind))
         /\ Cardinality(Within(n, c, kind)) =
              Cardinality({j \in 1 .. Len(c) : c[j].kind = kind})
         /\ IsFiniteSet({j \in 1 .. Len(c) : c[j].kind = kind})
         /\ Cardinality({j \in 1 .. Len(c) : c[j].kind = kind}) \in Nat
<1> DEFINE J == {j \in 1 .. Len(c) : c[j].kind = kind}
<1>1. Len(c) \in Nat
  OBVIOUS
<1>2. IsFiniteSet(1 .. Len(c))
  BY <1>1, FS_Interval
<1>3. J \in SUBSET (1 .. Len(c))
  OBVIOUS
<1>4. Within(n, c, kind) = {n} \X J
  BY DEF Within
<1> HIDE DEF J
<1>5. IsFiniteSet(J)
  BY <1>2, <1>3, FS_Subset
<1>6. Cardinality(J) \in Nat
  BY <1>5, FS_CardinalityType
<1>7. IsFiniteSet({n}) /\ Cardinality({n}) = 1
  BY FS_Singleton
<1>8. IsFiniteSet({n} \X J) /\ Cardinality({n} \X J) = Cardinality({n}) * Cardinality(J)
  BY <1>5, <1>7, FS_Product
<1> QED BY <1>4, <1>5, <1>6, <1>7, <1>8 DEF J

LEMMA PlacesFinite ==
  ASSUME NEW fs \in Stacks, NEW kind
  PROVE  IsFiniteSet(Places(fs, kind)) /\ Cardinality(Places(fs, kind)) \in Nat
<1> DEFINE n == Len(fs)
           W == {Within(i, fs[i].conts, kind) : i \in 1 .. n}
           f == [i \in 1 .. n |-> Within(i, fs[i].conts, kind)]
<1>1. /\ n \in Nat /\ \A i \in 1 .. n : fs[i] \in FramesOver(Refs)
      /\ Places(fs, kind) = UNION W
  BY PlacesFacts
<1>2. IsFiniteSet(1 .. n)
  BY <1>1, FS_Interval
<1>3. f \in Surjection(1 .. n, W)
  BY DEF Surjection
<1>4. \A T \in W : IsFiniteSet(T)
  <2> SUFFICES ASSUME NEW i \in 1 .. n PROVE IsFiniteSet(Within(i, fs[i].conts, kind))
    OBVIOUS
  <2>1. fs[i].conts \in Seq(ContsOver(Refs))
    BY <1>1, FrameFacts
  <2> QED BY <2>1, WithinFinite
<1> HIDE DEF W, f
<1>5. IsFiniteSet(W)
  BY <1>2, <1>3, FS_Surjection
<1>6. IsFiniteSet(Places(fs, kind))
  BY <1>1, <1>4, <1>5, FS_UNION
<1> QED BY <1>6, FS_CardinalityType

\* The frames beneath the one that is last keep their places; what the last has is its own.
LEMMA TopPlaces ==
  ASSUME NEW fs \in Stacks, fs # <<>>, NEW kind
  PROVE  LET n == Len(fs) IN
         /\ n \in Nat \ {0} /\ Last(fs) = fs[n] /\ Last(fs) \in FramesOver(Refs)
         /\ Front(fs) \in Stacks /\ Len(Front(fs)) = n - 1
         /\ \A i \in 1 .. n - 1 : Front(fs)[i] = fs[i]
         /\ Places(Front(fs), kind) = {p \in Places(fs, kind) : p[1] < n}
         /\ \A p \in Places(Front(fs), kind) : MarkAt(Front(fs), p) = MarkAt(fs, p)
         /\ Places(fs, kind) = Places(Front(fs), kind) \cup Within(n, Last(fs).conts, kind)
<1> DEFINE n == Len(fs)
           fr == Front(fs)
<1>1. n \in Nat \ {0} /\ Last(fs) = fs[n] /\ Last(fs) \in FramesOver(Refs)
  BY LastFacts DEF Stacks
<1>2. fr \in Stacks /\ Len(fr) = n - 1 /\ \A i \in 1 .. n - 1 : fr[i] = fs[i]
  BY FrontFacts DEF Stacks
<1> HIDE DEF fr
<1>3. /\ \A p \in Places(fs, kind) : p = <<p[1], p[2]>> /\ p[1] \in 1 .. n
      /\ \A p \in Places(fr, kind) : p = <<p[1], p[2]>> /\ p[1] \in 1 .. n - 1
  BY <1>2, PlacesFacts
<1>4. \A i, j : <<i, j>> \in Places(fr, kind) <=> <<i, j>> \in Places(fs, kind) /\ i < n
  <2> TAKE i, j
  <2>1. <<i, j>> \in Places(fr, kind) <=>
          i \in 1 .. n - 1 /\ j \in 1 .. Len(fr[i].conts) /\ fr[i].conts[j].kind = kind
    BY <1>2, PlacesFacts
  <2>2. <<i, j>> \in Places(fs, kind) <=>
          i \in 1 .. n /\ j \in 1 .. Len(fs[i].conts) /\ fs[i].conts[j].kind = kind
    BY PlacesFacts
  <2>3. i \in 1 .. n - 1 <=> i \in 1 .. n /\ i < n
    BY <1>1
  <2> QED BY <1>2, <2>1, <2>2, <2>3
<1>5. Places(fr, kind) = {p \in Places(fs, kind) : p[1] < n}
  <2>1. \A p \in Places(fr, kind) : p \in Places(fs, kind) /\ p[1] < n
    BY <1>3, <1>4
  <2>2. \A p \in Places(fs, kind) : p[1] < n => p \in Places(fr, kind)
    BY <1>3, <1>4
  <2> QED BY <2>1, <2>2
<1>6. \A p \in Places(fr, kind) : MarkAt(fr, p) = MarkAt(fs, p)
  BY <1>2, <1>3 DEF MarkAt
<1>7. Places(fs, kind) = Places(fr, kind) \cup Within(n, Last(fs).conts, kind)
  <2>1. \A j : <<n, j>> \in Places(fs, kind) <=> <<n, j>> \in Within(n, Last(fs).conts, kind)
    BY <1>1, PlacesFacts DEF Within
  <2>2. \A p \in Within(n, Last(fs).conts, kind) : p = <<n, p[2]>>
    BY DEF Within
  <2>3. \A p \in Places(fs, kind) : p[1] < n \/ p[1] = n
    BY <1>1, <1>3
  <2>4. \A p \in Places(fs, kind) : p[1] = n => p \in Within(n, Last(fs).conts, kind)
    BY <1>3, <2>1
  <2>5. \A p \in Within(n, Last(fs).conts, kind) : p \in Places(fs, kind)
    BY <2>1, <2>2
  <2> QED BY <1>5, <2>3, <2>4, <2>5
<1> QED BY <1>1, <1>2, <1>5, <1>6, <1>7 DEF fr

\* gs is fs with the frame f put on top, as the n-th.
Pushed(fs, f, gs, n, kind) ==
  /\ gs \in Stacks /\ gs # <<>> /\ Len(gs) = n /\ n \in Nat \ {0} /\ gs[n] = f
  /\ \A i \in 1 .. n - 1 : gs[i] = fs[i]
  /\ Places(gs, kind) = Places(fs, kind) \cup Within(n, f.conts, kind)
  /\ \A p \in Places(fs, kind) : p[1] < n /\ MarkAt(gs, p) = MarkAt(fs, p)
  /\ \A p \in Within(n, f.conts, kind) :
       p[1] = n /\ p[2] \in 1 .. Len(f.conts) /\ f.conts[p[2]].kind = kind
       /\ MarkAt(gs, p) = f.conts[p[2]].mark

LEMMA PushPlaces ==
  ASSUME NEW fs \in Stacks, NEW f \in FramesOver(Refs), NEW kind
  PROVE  Pushed(fs, f, Append(fs, f), Len(fs) + 1, kind)
<1> DEFINE gs == Append(fs, f)
           n == Len(fs) + 1
<1>1. /\ gs \in Stacks /\ Len(gs) = n /\ gs[n] = f /\ Len(fs) \in Nat
      /\ \A i \in 1 .. Len(fs) : gs[i] = fs[i]
  BY AppendFacts DEF Stacks
<1> HIDE DEF gs
<1>2. n \in Nat \ {0} /\ n - 1 = Len(fs) /\ gs # <<>>
  BY <1>1
<1>3. /\ \A p \in Places(fs, kind) : p = <<p[1], p[2]>> /\ p[1] \in 1 .. Len(fs)
      /\ \A p \in Places(gs, kind) : p = <<p[1], p[2]>> /\ p[1] \in 1 .. n
  BY <1>1, PlacesFacts
<1>4. \A i, j : <<i, j>> \in Places(gs, kind) <=>
        <<i, j>> \in Places(fs, kind) \/ <<i, j>> \in Within(n, f.conts, kind)
  <2> TAKE i, j
  <2>1. <<i, j>> \in Places(gs, kind) <=>
          i \in 1 .. n /\ j \in 1 .. Len(gs[i].conts) /\ gs[i].conts[j].kind = kind
    BY <1>1, PlacesFacts
  <2>2. <<i, j>> \in Places(fs, kind) <=>
          i \in 1 .. Len(fs) /\ j \in 1 .. Len(fs[i].conts) /\ fs[i].conts[j].kind = kind
    BY PlacesFacts
  <2>3. <<i, j>> \in Within(n, f.conts, kind) <=>
          i = n /\ j \in 1 .. Len(f.conts) /\ f.conts[j].kind = kind
    BY DEF Within
  <2>4. i \in 1 .. n <=> i \in 1 .. Len(fs) \/ i = n
    BY <1>1
  <2>5. n \notin 1 .. Len(fs)
    BY <1>1
  <2> QED BY <1>1, <2>1, <2>2, <2>3, <2>4, <2>5
<1>5. \A p \in Within(n, f.conts, kind) :
        p = <<p[1], p[2]>> /\ p[1] = n /\ p[2] \in 1 .. Len(f.conts) /\ f.conts[p[2]].kind = kind
  BY DEF Within
<1>6. Places(gs, kind) = Places(fs, kind) \cup Within(n, f.conts, kind)
  <2>1. \A p \in Places(gs, kind) : p \in Places(fs, kind) \cup Within(n, f.conts, kind)
    BY <1>3, <1>4
  <2>2. \A p \in Places(fs, kind) \cup Within(n, f.conts, kind) : p \in Places(gs, kind)
    BY <1>3, <1>4, <1>5
  <2> QED BY <2>1, <2>2
<1>7. \A p \in Places(fs, kind) : p[1] < n /\ MarkAt(gs, p) = MarkAt(fs, p)
  BY <1>1, <1>3 DEF MarkAt
<1>8. \A p \in Within(n, f.conts, kind) : MarkAt(gs, p) = f.conts[p[2]].mark
  BY <1>1, <1>5 DEF MarkAt
<1> QED BY <1>1, <1>2, <1>5, <1>6, <1>7, <1>8 DEF gs, Pushed

----------------------------------------------------------------------------
(* Marks: the continuations of a kind, from the first frame up, carry marks *)
(* that rise, from lo, to less than the height n of the stack they guard.   *)

Rising(fs, kind, b, lo, n) ==
  /\ \A p \in Places(fs, kind) : p[1] > b => lo <= MarkAt(fs, p) /\ MarkAt(fs, p) < n
  /\ \A p, q \in Places(fs, kind) :
       p[1] > b /\ q[1] > b /\ Before(p, q) => MarkAt(fs, p) < MarkAt(fs, q)
Covered(fs, kind, n) == \A m \in 0 .. n - 1 : \E p \in Places(fs, kind) : MarkAt(fs, p) = m

\* An edit leaves the continuations of a kind as they are, drops those of the last frame
\* that are above k, or adds one above the others.
Same(fs, gs, kind) ==
  /\ Places(gs, kind) = Places(fs, kind)
  /\ \A p \in Places(gs, kind) : MarkAt(gs, p) = MarkAt(fs, p)
Cut(fs, gs, kind, k) ==
  /\ Places(gs, kind) = {p \in Places(fs, kind) : p[1] < Len(fs) \/ p[2] <= k}
  /\ \A p \in Places(gs, kind) : MarkAt(gs, p) = MarkAt(fs, p)
Grown(fs, gs, kind, top, m) ==
  /\ Places(gs, kind) = Places(fs, kind) \cup {top}
  /\ top = <<top[1], top[2]>> /\ top[1] \in Nat /\ top[2] \in Nat
  /\ \A p \in Places(fs, kind) : Before(p, top) /\ MarkAt(gs, p) = MarkAt(fs, p)
  /\ MarkAt(gs, top) = m

\* The conts d of the new last frame agree with the first k of the conts c of the old.
Agrees(c, d, kind, k) ==
  \A j \in Nat :
    /\ j \in 1 .. Len(d) /\ d[j].kind = kind <=> j \in 1 .. k /\ c[j].kind = kind
    /\ j \in 1 .. k /\ c[j].kind = kind => d[j].mark = c[j].mark

LEMMA CutTop ==
  ASSUME NEW fs \in Stacks, fs # <<>>, NEW f \in FramesOver(Refs), NEW kind,
         NEW k \in 0 .. Len(Last(fs).conts), Agrees(Last(fs).conts, f.conts, kind, k)
  PROVE  /\ Append(Front(fs), f) \in Stacks /\ Len(Append(Front(fs), f)) = Len(fs)
         /\ Cut(fs, Append(Front(fs), f), kind, k)
<1> DEFINE n == Len(fs)
           fr == Front(fs)
           gs == Append(fr, f)
           c == Last(fs).conts
<1>1. /\ n \in Nat \ {0} /\ Last(fs) = fs[n] /\ Last(fs) \in FramesOver(Refs)
      /\ fr \in Stacks /\ Len(fr) = n - 1
      /\ Places(fr, kind) = {p \in Places(fs, kind) : p[1] < n}
      /\ \A p \in Places(fr, kind) : MarkAt(fr, p) = MarkAt(fs, p)
      /\ Places(fs, kind) = Places(fr, kind) \cup Within(n, c, kind)
  BY TopPlaces
<1> HIDE DEF fr
<1>2. n = Len(fr) + 1
  BY <1>1
<1>3. /\ gs \in Stacks /\ Len(gs) = n
      /\ Places(gs, kind) = Places(fr, kind) \cup Within(n, f.conts, kind)
      /\ \A p \in Places(fr, kind) : p[1] < n /\ MarkAt(gs, p) = MarkAt(fr, p)
      /\ \A p \in Within(n, f.conts, kind) : MarkAt(gs, p) = f.conts[p[2]].mark
  <2>1. Pushed(fr, f, gs, Len(fr) + 1, kind)
    BY <1>1, PushPlaces, Zenon
  <2>2. Pushed(fr, f, gs, n, kind)
    BY <1>2, <2>1
  <2> HIDE DEF gs
  <2> QED BY <2>2, Zenon DEF Pushed
<1> HIDE DEF gs
<1>4. Len(c) \in Nat /\ Len(f.conts) \in Nat
  BY <1>1, FrameFacts
<1>5. \A p \in Within(n, c, kind) : /\ p = <<n, p[2]>> /\ p[1] = n /\ p[2] \in 1 .. Len(c)
                                    /\ c[p[2]].kind = kind /\ MarkAt(fs, p) = c[p[2]].mark
  BY <1>1 DEF Within, MarkAt
<1>6. \A p \in Within(n, f.conts, kind) :
        /\ p = <<n, p[2]>> /\ p[1] = n /\ p[2] \in 1 .. Len(f.conts) /\ f.conts[p[2]].kind = kind
  BY DEF Within
<1>7. \A p \in Within(n, f.conts, kind) :
        p \in Within(n, c, kind) /\ p[2] <= k /\ MarkAt(gs, p) = MarkAt(fs, p)
  <2> TAKE p \in Within(n, f.conts, kind)
  <2>1. p[2] \in Nat /\ p[2] \in 1 .. Len(f.conts) /\ f.conts[p[2]].kind = kind
    BY <1>4, <1>6
  <2>2. p[2] \in 1 .. k /\ c[p[2]].kind = kind /\ f.conts[p[2]].mark = c[p[2]].mark
    BY <2>1 DEF Agrees
  <2>3. p[2] \in 1 .. Len(c) /\ p[2] <= k
    BY <1>4, <2>2
  <2>4. p \in Within(n, c, kind)
    BY <1>6, <2>2, <2>3 DEF Within
  <2> QED BY <1>3, <1>5, <2>2, <2>3, <2>4
<1>8. \A p \in Within(n, c, kind) : p[2] <= k => p \in Within(n, f.conts, kind)
  <2> SUFFICES ASSUME NEW p \in Within(n, c, kind), p[2] <= k
               PROVE  p \in Within(n, f.conts, kind)
    OBVIOUS
  <2>1. p[2] \in Nat /\ p[2] \in 1 .. k /\ c[p[2]].kind = kind
    BY <1>4, <1>5
  <2>2. p[2] \in 1 .. Len(f.conts) /\ f.conts[p[2]].kind = kind
    BY <2>1 DEF Agrees
  <2> QED BY <1>5, <2>2 DEF Within
<1>9. Places(gs, kind) = {p \in Places(fs, kind) : p[1] < n \/ p[2] <= k}
  <2> HIDE DEF n, c
  <2>1. \A p \in Places(gs, kind) : p \in Places(fs, kind) /\ (p[1] < n \/ p[2] <= k)
    BY <1>1, <1>3, <1>7
  <2>2. \A p \in Places(fs, kind) : p[1] < n \/ p[2] <= k => p \in Places(gs, kind)
    BY <1>1, <1>3, <1>8
  <2> QED BY <2>1, <2>2
<1>10. \A p \in Places(gs, kind) : MarkAt(gs, p) = MarkAt(fs, p)
  BY <1>1, <1>3, <1>7
<1> QED BY <1>3, <1>9, <1>10 DEF Cut, gs, fr

\* The last frame is dropped.
LEMMA CutFrame ==
  ASSUME NEW fs \in Stacks, fs # <<>>, NEW kind
  PROVE  /\ Front(fs) \in Stacks /\ Len(Front(fs)) = Len(fs) - 1
         /\ Cut(fs, Front(fs), kind, 0)
<1> DEFINE n == Len(fs)
           fr == Front(fs)
<1>1. /\ n \in Nat \ {0} /\ fr \in Stacks /\ Len(fr) = n - 1
      /\ Places(fr, kind) = {p \in Places(fs, kind) : p[1] < n}
      /\ \A p \in Places(fr, kind) : MarkAt(fr, p) = MarkAt(fs, p)
  BY TopPlaces
<1>2. \A p \in Places(fs, kind) : ~ (p[2] <= 0)
  BY PlacesFacts
<1> HIDE DEF n, fr
<1> QED BY <1>1, <1>2 DEF Cut, n, fr

\* A cut above all there is cuts nothing.
LEMMA CutNothing ==
  ASSUME NEW fs \in Stacks, fs # <<>>, NEW gs, NEW kind, NEW k \in Nat, Cut(fs, gs, kind, k),
         \A j \in 1 .. Len(Last(fs).conts) : Last(fs).conts[j].kind = kind => j <= k
  PROVE  Same(fs, gs, kind)
<1>1. \A p \in Places(fs, kind) : p[1] < Len(fs) \/ p[2] <= k
  <2> TAKE p \in Places(fs, kind)
  <2>1. /\ p[1] \in 1 .. Len(fs) /\ p[2] \in 1 .. Len(fs[p[1]].conts)
        /\ fs[p[1]].conts[p[2]].kind = kind /\ Len(fs) \in Nat
    BY PlacesFacts
  <2>2. Last(fs) = fs[Len(fs)]
    BY TopPlaces
  <2> QED BY <2>1, <2>2
<1> QED BY <1>1 DEF Cut, Same

LEMMA SameTrans ==
  ASSUME NEW fs, NEW gs, NEW hs, NEW kind, Same(fs, gs, kind), Same(gs, hs, kind)
  PROVE  Same(fs, hs, kind)
BY DEF Same

\* A frame that has nothing pending is put on top.
LEMMA PushSame ==
  ASSUME NEW fs \in Stacks, NEW f \in FramesOver(Refs), f.conts = <<>>, NEW kind
  PROVE  /\ Append(fs, f) \in Stacks /\ Len(Append(fs, f)) = Len(fs) + 1
         /\ Same(fs, Append(fs, f), kind)
<1> DEFINE gs == Append(fs, f)
           n == Len(fs) + 1
<1>1. Within(n, f.conts, kind) = {}
  BY DEF Within
<1>2. /\ gs \in Stacks /\ Len(gs) = n
      /\ Places(gs, kind) = Places(fs, kind) \cup Within(n, f.conts, kind)
      /\ \A p \in Places(fs, kind) : p[1] < n /\ MarkAt(gs, p) = MarkAt(fs, p)
  <2>1. Pushed(fs, f, gs, n, kind)
    BY PushPlaces, Zenon
  <2> HIDE DEF n, gs
  <2> QED BY <2>1, Zenon DEF Pushed
<1> HIDE DEF n, gs
<1>3. Places(gs, kind) = Places(fs, kind)
  BY <1>1, <1>2
<1>4. Same(fs, gs, kind)
  BY <1>2, <1>3 DEF Same
<1> QED BY <1>2, <1>4 DEF n, gs

\* A continuation is put on top of the last frame's.
LEMMA PushTop ==
  ASSUME NEW fs \in Stacks, fs # <<>>, NEW f \in FramesOver(Refs),
         NEW c \in ContsOver(Refs), f.conts = Append(Last(fs).conts, c)
  PROVE  /\ Append(Front(fs), f) \in Stacks /\ Len(Append(Front(fs), f)) = Len(fs)
         /\ \A kind : kind # c.kind => Same(fs, Append(Front(fs), f), kind)
         /\ Grown(fs, Append(Front(fs), f), c.kind,
                  <<Len(fs), Len(Last(fs).conts) + 1>>, c.mark)
<1> DEFINE n == Len(fs)
           fr == Front(fs)
           gs == Append(fr, f)
           d == Last(fs).conts
           top == <<n, Len(d) + 1>>
<1>1. /\ n \in Nat \ {0} /\ Last(fs) = fs[n] /\ Last(fs) \in FramesOver(Refs)
      /\ fr \in Stacks /\ Len(fr) = n - 1
  BY TopPlaces
<1>2. /\ d \in Seq(ContsOver(Refs)) /\ Len(d) \in Nat
      /\ f.conts \in Seq(ContsOver(Refs)) /\ Len(f.conts) = Len(d) + 1
      /\ f.conts[Len(d) + 1] = c /\ \A j \in 1 .. Len(d) : f.conts[j] = d[j]
  <2>1. d \in Seq(ContsOver(Refs))
    BY <1>1, FrameFacts
  <2> HIDE DEF d
  <2>2. f.conts = Append(d, c)
    BY DEF d
  <2> QED BY <2>1, <2>2, AppendFacts
<1>3. \A kind :
        /\ Places(fr, kind) = {p \in Places(fs, kind) : p[1] < n}
        /\ \A p \in Places(fr, kind) : MarkAt(fr, p) = MarkAt(fs, p)
        /\ Places(fs, kind) = Places(fr, kind) \cup Within(n, d, kind)
  BY TopPlaces
<1> HIDE DEF fr
<1>4. n = Len(fr) + 1
  BY <1>1
<1>5. /\ gs \in Stacks /\ Len(gs) = n /\ gs[n] = f
      /\ \A kind :
           /\ Places(gs, kind) = Places(fr, kind) \cup Within(n, f.conts, kind)
           /\ \A p \in Places(fr, kind) : p[1] < n /\ MarkAt(gs, p) = MarkAt(fr, p)
           /\ \A p \in Within(n, f.conts, kind) :
                p[1] = n /\ p[2] \in 1 .. Len(f.conts) /\ MarkAt(gs, p) = f.conts[p[2]].mark
  <2>1. \A kind : Pushed(fr, f, gs, Len(fr) + 1, kind)
    BY <1>1, PushPlaces, Zenon
  <2>2. \A kind : Pushed(fr, f, gs, n, kind)
    BY <1>4, <2>1
  <2> HIDE DEF gs
  <2> QED BY <2>2, Zenon DEF Pushed
<1> HIDE DEF gs
<1>6. \A kind : Within(n, f.conts, kind) =
                  Within(n, d, kind) \cup (IF kind = c.kind THEN {top} ELSE {})
  <2> TAKE kind
  <2>1. \A j : j \in 1 .. Len(d) + 1 <=> j \in 1 .. Len(d) \/ j = Len(d) + 1
    BY <1>2
  <2>2. \A j : j \in 1 .. Len(f.conts) /\ f.conts[j].kind = kind <=>
               (j \in 1 .. Len(d) /\ d[j].kind = kind) \/ (j = Len(d) + 1 /\ c.kind = kind)
    BY <1>2, <2>1
  <2> HIDE DEF d
  <2>3. {j \in 1 .. Len(f.conts) : f.conts[j].kind = kind}
          = {j \in 1 .. Len(d) : d[j].kind = kind}
              \cup (IF kind = c.kind THEN {Len(d) + 1} ELSE {})
    BY <2>2
  <2> QED BY <2>3 DEF Within
<1>7. \A kind : \A p \in Within(n, d, kind) : MarkAt(gs, p) = MarkAt(fs, p)
  <2> TAKE kind
  <2> TAKE p \in Within(n, d, kind)
  <2>1. p[1] = n /\ p[2] \in 1 .. Len(d)
    BY DEF Within
  <2>2. p \in Within(n, f.conts, kind)
    BY <1>6
  <2> QED BY <1>1, <1>2, <1>5, <2>1, <2>2, SMTT(30) DEF MarkAt
<1>8. MarkAt(gs, top) = c.mark
  BY <1>2, <1>5 DEF MarkAt
<1>9. \A kind : /\ Places(gs, kind) = Places(fs, kind) \cup (IF kind = c.kind THEN {top} ELSE {})
                /\ \A p \in Places(fs, kind) : MarkAt(gs, p) = MarkAt(fs, p)
  BY <1>3, <1>5, <1>6, <1>7
<1>10. \A p \in Places(fs, c.kind) : Before(p, top)
  <2> TAKE p \in Places(fs, c.kind)
  <2>1. p[1] \in 1 .. n /\ p[2] \in 1 .. Len(fs[p[1]].conts) /\ p[2] \in Nat
    BY PlacesFacts
  <2>2. p[1] < n \/ (p[1] = n /\ p[2] < Len(d) + 1)
    BY <1>1, <1>2, <2>1
  <2> QED BY <2>2 DEF Before
<1>11. \A kind : kind # c.kind => Same(fs, gs, kind)
  BY <1>9 DEF Same
<1>12. Grown(fs, gs, c.kind, top, c.mark)
  <2>1. Places(gs, c.kind) = Places(fs, c.kind) \cup {top}
    BY <1>9
  <2>2. \A p \in Places(fs, c.kind) : Before(p, top) /\ MarkAt(gs, p) = MarkAt(fs, p)
    BY <1>9, <1>10
  <2>3. top = <<top[1], top[2]>> /\ top[1] \in Nat /\ top[2] \in Nat
    BY <1>1, <1>2
  <2> HIDE DEF top
  <2> QED BY <1>8, <2>1, <2>2, <2>3 DEF Grown
<1> QED BY <1>5, <1>11, <1>12 DEF gs, fr

----------------------------------------------------------------------------
\* The lowest mark of the continuations that are left, or the height of the stack.
LEMMA MarkFacts ==
  ASSUME NEW kind, NEW G, NEW c \in Seq(ContsOver(G)), NEW n \in Nat
  PROVE  /\ Mark(kind, c, n) \in Nat /\ Mark(kind, c, n) <= n
         /\ \A j \in 1 .. Len(c) : c[j].kind = kind => Mark(kind, c, n) <= c[j].mark
         /\ \/ Mark(kind, c, n) = n
            \/ \E j \in 1 .. Len(c) : c[j].kind = kind /\ c[j].mark = Mark(kind, c, n)
<1> DEFINE S == {n} \cup {e.mark : e \in {d \in ToSet(c) : d.kind = kind}}
<1>1. DOMAIN c = 1 .. Len(c) /\ \A j \in 1 .. Len(c) : c[j] \in ContsOver(G)
  OBVIOUS
<1>2. \A j \in 1 .. Len(c) : c[j].mark \in Nat
  BY <1>1 DEF ContsOver
<1>3. S \in SUBSET Nat /\ S # {}
  BY <1>1, <1>2 DEF ToSet
<1>4. \A j \in 1 .. Len(c) : c[j].kind = kind => c[j].mark \in S
  BY <1>1 DEF ToSet
<1>5. \A m \in S : m = n \/ \E j \in 1 .. Len(c) : c[j].kind = kind /\ c[j].mark = m
  BY <1>1 DEF ToSet
<1>6. n \in S
  OBVIOUS
<1>7. Mark(kind, c, n) = Min(S)
  BY Zenon DEF Mark
<1> HIDE DEF S
<1>8. Min(S) \in S /\ \A y \in S : Min(S) <= y
  BY <1>3, MinFacts
<1> QED BY <1>3, <1>4, <1>5, <1>6, <1>7, <1>8

\* What the last frame has above the first k continuations.
Topmost(c, k, left) ==
  /\ left \in Seq(ContsOver(Refs)) /\ Len(left) = Len(c) - k
  /\ \A j \in 1 .. Len(left) : left[j] = c[k + j]

\* The places of fs that gs has not are those of what is left.
Dropped(fs, gs, kind, k, left) ==
  /\ \A j \in 1 .. Len(left) : left[j].kind = kind =>
       /\ <<Len(fs), k + j>> \in Places(fs, kind) \ Places(gs, kind)
       /\ MarkAt(fs, <<Len(fs), k + j>>) = left[j].mark
  /\ \A p \in Places(fs, kind) \ Places(gs, kind) :
       \E j \in 1 .. Len(left) : /\ left[j].kind = kind /\ p = <<Len(fs), k + j>>
                                 /\ MarkAt(fs, p) = left[j].mark

\* So it is for a cut.
LEMMA CutPlaces ==
  ASSUME NEW fs \in Stacks, fs # <<>>, NEW gs, NEW kind,
         NEW k \in 0 .. Len(Last(fs).conts), Cut(fs, gs, kind, k),
         NEW left, Topmost(Last(fs).conts, k, left)
  PROVE  Dropped(fs, gs, kind, k, left)
<1> DEFINE n == Len(fs)
           c == Last(fs).conts
<1>1. n \in Nat \ {0} /\ Last(fs) = fs[n] /\ Last(fs) \in FramesOver(Refs)
  BY TopPlaces
<1>2. Len(c) \in Nat /\ Len(left) \in Nat
  BY <1>1, FrameFacts DEF Topmost
<1>3. \A i, j : <<i, j>> \in Places(fs, kind) <=>
        i \in 1 .. n /\ j \in 1 .. Len(fs[i].conts) /\ fs[i].conts[j].kind = kind
  BY PlacesFacts
<1>4. \A p \in Places(fs, kind) : p = <<p[1], p[2]>> /\ p[1] \in 1 .. n
        /\ p[2] \in 1 .. Len(fs[p[1]].conts)
  BY PlacesFacts
<1>5. \A p : p \in Places(fs, kind) \ Places(gs, kind) <=>
               p \in Places(fs, kind) /\ ~ (p[1] < n \/ p[2] <= k)
  BY DEF Cut
<1>6. \A j \in 1 .. Len(left) : left[j].kind = kind =>
              /\ <<n, k + j>> \in Places(fs, kind) \ Places(gs, kind)
              /\ MarkAt(fs, <<n, k + j>>) = left[j].mark
  <2> SUFFICES ASSUME NEW j \in 1 .. Len(left), left[j].kind = kind
               PROVE  /\ <<n, k + j>> \in Places(fs, kind) \ Places(gs, kind)
                      /\ MarkAt(fs, <<n, k + j>>) = left[j].mark
    OBVIOUS
  <2>1. k + j \in 1 .. Len(c) /\ left[j] = c[k + j] /\ ~ (k + j <= k)
    BY <1>2 DEF Topmost
  <2>2. <<n, k + j>> \in Places(fs, kind)
    BY <1>1, <1>3, <2>1
  <2>3. ~ (n < n)
    BY <1>1
  <2> QED BY <1>1, <1>5, <2>1, <2>2, <2>3 DEF MarkAt
<1>7. \A p \in Places(fs, kind) \ Places(gs, kind) :
              \E j \in 1 .. Len(left) : /\ left[j].kind = kind /\ p = <<n, k + j>>
                                        /\ MarkAt(fs, p) = left[j].mark
  <2> TAKE p \in Places(fs, kind) \ Places(gs, kind)
  <2>1. p = <<p[1], p[2]>> /\ p[1] = n /\ p[2] \in 1 .. Len(c) /\ p[2] > k
    BY <1>1, <1>2, <1>4, <1>5
  <2>2. c[p[2]].kind = kind
    BY <1>1, <1>3, <2>1
  <2> DEFINE j == p[2] - k
  <2>3. j \in 1 .. Len(left) /\ k + j = p[2] /\ left[j] = c[p[2]]
    BY <1>2, <2>1, SMTT(30) DEF Topmost
  <2>4. MarkAt(fs, p) = c[p[2]].mark
    BY <1>1, <2>1 DEF MarkAt
  <2> HIDE DEF j
  <2> QED BY <2>1, <2>2, <2>3, <2>4
<1> QED BY <1>6, <1>7 DEF Dropped

\* What a cut at the mark m leaves rises to m and, if every height was guarded, guards
\* each beneath it.
LEMMA CutRising ==
  ASSUME NEW fs \in Stacks, fs # <<>>, NEW gs, NEW kind,
         NEW k \in 0 .. Len(Last(fs).conts), Cut(fs, gs, kind, k),
         NEW left, Topmost(Last(fs).conts, k, left),
         NEW b \in Nat, b < Len(fs), NEW n \in Nat, NEW lo \in Nat, lo <= n,
         Rising(fs, kind, b, lo, n)
  PROVE  /\ Rising(gs, kind, b, lo, Mark(kind, left, n))
         /\ Covered(fs, kind, n) => Covered(gs, kind, Mark(kind, left, n))
         /\ Mark(kind, left, n) \in lo .. n
<1> DEFINE m == Mark(kind, left, n)
<1>1. /\ m \in Nat /\ m <= n
      /\ \A j \in 1 .. Len(left) : left[j].kind = kind => m <= left[j].mark
      /\ \/ m = n
         \/ \E j \in 1 .. Len(left) : left[j].kind = kind /\ left[j].mark = m
  <2>1. left \in Seq(ContsOver(Refs))
    BY DEF Topmost
  <2> QED BY <2>1, MarkFacts
<1> HIDE DEF m
<1>2. /\ \A j \in 1 .. Len(left) : left[j].kind = kind =>
           /\ <<Len(fs), k + j>> \in Places(fs, kind) \ Places(gs, kind)
           /\ MarkAt(fs, <<Len(fs), k + j>>) = left[j].mark
      /\ \A p \in Places(fs, kind) \ Places(gs, kind) :
           \E j \in 1 .. Len(left) : /\ left[j].kind = kind /\ p = <<Len(fs), k + j>>
                                     /\ MarkAt(fs, p) = left[j].mark
  <2>1. Dropped(fs, gs, kind, k, left)
    BY CutPlaces
  <2> QED BY <2>1, Zenon DEF Dropped
<1>3. Len(fs) \in Nat
  BY TopPlaces
<1>4. /\ Places(gs, kind) \subseteq Places(fs, kind)
      /\ \A p \in Places(gs, kind) : MarkAt(gs, p) = MarkAt(fs, p) /\ (p[1] < Len(fs) \/ p[2] <= k)
  BY DEF Cut
<1>5. \A p \in Places(fs, kind) :
        p[1] \in Nat /\ p[2] \in Nat /\ p[1] <= Len(fs) /\ MarkAt(fs, p) \in Nat
  <2> TAKE p \in Places(fs, kind)
  <2>1. p[1] \in 1 .. Len(fs) /\ p[2] \in 1 .. Len(fs[p[1]].conts) /\ MarkAt(fs, p) \in Nat
    BY PlacesFacts
  <2> QED BY <1>3, <2>1
\* The place the mark is taken from.
<1>6. m = n \/ \E q \in Places(fs, kind) : q[1] = Len(fs) /\ q[2] > k /\ MarkAt(fs, q) = m
  <2>1. CASE m = n
    BY <2>1
  <2>2. CASE \E j \in 1 .. Len(left) : left[j].kind = kind /\ left[j].mark = m
    <3>1. PICK j \in 1 .. Len(left) : left[j].kind = kind /\ left[j].mark = m
      BY <2>2
    <3> DEFINE q == <<Len(fs), k + j>>
    <3>2. q \in Places(fs, kind) /\ MarkAt(fs, q) = m
      BY <1>2, <3>1
    <3>3. q[1] = Len(fs) /\ q[2] > k
      OBVIOUS
    <3> HIDE DEF q
    <3> QED BY <3>2, <3>3
  <2> QED BY <1>1, <2>1, <2>2
<1>7. \A p \in Places(gs, kind) : p[1] > b => MarkAt(fs, p) < m
  <2> SUFFICES ASSUME NEW p \in Places(gs, kind), p[1] > b PROVE MarkAt(fs, p) < m
    OBVIOUS
  <2>1. CASE m = n
    BY <1>4, <2>1 DEF Rising
  <2>2. CASE \E q \in Places(fs, kind) : q[1] = Len(fs) /\ q[2] > k /\ MarkAt(fs, q) = m
    <3>1. PICK q \in Places(fs, kind) : q[1] = Len(fs) /\ q[2] > k /\ MarkAt(fs, q) = m
      BY <2>2
    <3>2. p \in Places(fs, kind)
      BY <1>4
    <3>3. p[1] < q[1] \/ (p[1] = q[1] /\ p[2] < q[2])
      BY <1>4, <1>5, <3>1, <3>2
    <3>4. Before(p, q)
      BY <3>3 DEF Before
    <3> QED BY <3>1, <3>2, <3>4 DEF Rising
  <2> QED BY <1>6, <2>1, <2>2
<1>8. lo <= m
  BY <1>6 DEF Rising
<1>9. Rising(gs, kind, b, lo, m)
  BY <1>4, <1>7 DEF Rising
<1>10. ASSUME Covered(fs, kind, n) PROVE Covered(gs, kind, m)
  <2> SUFFICES ASSUME NEW x \in 0 .. m - 1
               PROVE  \E p \in Places(gs, kind) : MarkAt(gs, p) = x
    BY DEF Covered
  <2>1. x \in 0 .. n - 1 /\ x < m
    BY <1>1
  <2>2. PICK p \in Places(fs, kind) : MarkAt(fs, p) = x
    BY <1>10, <2>1 DEF Covered
  <2>3. p \in Places(gs, kind)
    <3> SUFFICES ASSUME p \notin Places(gs, kind) PROVE FALSE
      OBVIOUS
    <3>1. PICK j \in 1 .. Len(left) : left[j].kind = kind /\ MarkAt(fs, p) = left[j].mark
      BY <1>2
    <3>2. x = left[j].mark /\ m <= x
      BY <1>1, <2>2, <3>1
    <3> QED BY <1>1, <2>1, <3>2
  <2> QED BY <1>4, <2>2, <2>3
<1>11. m \in lo .. n
  BY <1>1, <1>8
<1> QED BY <1>9, <1>10, <1>11 DEF m

\* What is left of the last frame takes its rescue bodies with it.
LEMMA CutCount ==
  ASSUME NEW fs \in Stacks, fs # <<>>, NEW gs,
         NEW k \in 0 .. Len(Last(fs).conts), Cut(fs, gs, "Handler", k),
         NEW left, Topmost(Last(fs).conts, k, left)
  PROVE  /\ Cardinality(Rescues(left)) \in 0 .. Cardinality(Places(fs, "Handler"))
         /\ Cardinality(Places(gs, "Handler")) =
              Cardinality(Places(fs, "Handler")) - Cardinality(Rescues(left))
<1> DEFINE n == Len(fs)
           P == Places(fs, "Handler")
           Q == Places(gs, "Handler")
           R == Rescues(left)
           f == [j \in R |-> <<n, k + j>>]
<1>1. n \in Nat /\ Len(left) \in Nat /\ DOMAIN left = 1 .. Len(left)
  BY TopPlaces DEF Topmost
<1>2. /\ \A j \in 1 .. Len(left) : left[j].kind = "Handler" => <<n, k + j>> \in P \ Q
      /\ \A p \in P \ Q : \E j \in 1 .. Len(left) : left[j].kind = "Handler" /\ p = <<n, k + j>>
  <2>1. Dropped(fs, gs, "Handler", k, left)
    BY CutPlaces
  <2> QED BY <2>1 DEF Dropped
<1>3. R = {j \in 1 .. Len(left) : left[j].kind = "Handler"}
  BY <1>1 DEF Rescues
<1>4. IsFiniteSet(R)
  <2>1. IsFiniteSet(1 .. Len(left)) /\ R \subseteq 1 .. Len(left)
    BY <1>1, <1>3, FS_Interval
  <2> HIDE DEF R
  <2> QED BY <2>1, FS_Subset
<1>5. IsFiniteSet(P) /\ Cardinality(P) \in Nat
  BY PlacesFinite
<1>6. Q \subseteq P
  BY DEF Cut
<1> HIDE DEF P, Q, R
<1>7. f \in Bijection(R, P \ Q)
  <2>1. f \in [R -> P \ Q]
    BY <1>2, <1>3
  <2>2. \A p \in P \ Q : \E j \in R : f[j] = p
    BY <1>2, <1>3
  <2>3. \A i, j \in R : f[i] = f[j] => i = j
    <3>1. \A j \in R : j \in Nat
      BY <1>3
    <3> QED BY <3>1
  <2> HIDE DEF f
  <2> QED BY <2>1, <2>2, <2>3 DEF Bijection, Injection, Surjection, IsInjective
<1> HIDE DEF f
<1>8. Cardinality(P \ Q) = Cardinality(R)
  BY <1>4, <1>7, FS_Bijection DEF ExistsBijection
<1>9. Cardinality(R) \in Nat
  BY <1>4, FS_CardinalityType
<1>10. IsFiniteSet(Q) /\ Cardinality(Q) \in Nat
  BY <1>5, <1>6, FS_Subset, FS_CardinalityType
<1>11. Cardinality(P \ Q) = Cardinality(P) - Cardinality(P \cap Q)
  BY <1>5, FS_Difference
<1>12. P \cap Q = Q
  BY <1>6
<1>13. Cardinality(R) \in 0 .. Cardinality(P) /\ Cardinality(Q) = Cardinality(P) - Cardinality(R)
  <2> DEFINE x == Cardinality(P)
             y == Cardinality(Q)
             z == Cardinality(R)
  <2>1. x \in Nat /\ y \in Nat /\ z \in Nat /\ z = x - y
    BY <1>5, <1>8, <1>9, <1>10, <1>11, <1>12
  <2> HIDE DEF x, y, z
  <2>2. z \in 0 .. x /\ y = x - z
    BY <2>1
  <2> QED BY <2>2 DEF x, y, z
<1> QED BY <1>13, Zenon DEF P, Q, R

\* A mark put above the others, at the height of its stack, which rises by one.
LEMMA GrownRising ==
  ASSUME NEW fs \in Stacks, NEW gs, NEW kind, NEW top, NEW n \in Nat,
         Grown(fs, gs, kind, top, n),
         NEW b \in Nat, NEW lo \in Nat, lo <= n, Rising(fs, kind, b, lo, n)
  PROVE  /\ Rising(gs, kind, b, lo, n + 1)
         /\ Covered(fs, kind, n) => Covered(gs, kind, n + 1)
<1>1. /\ Places(gs, kind) = Places(fs, kind) \cup {top}
      /\ top[1] \in Nat /\ top[2] \in Nat
      /\ \A p \in Places(fs, kind) : Before(p, top) /\ MarkAt(gs, p) = MarkAt(fs, p)
      /\ MarkAt(gs, top) = n
  BY DEF Grown
<1>2. \A p \in Places(fs, kind) : p[1] \in Nat /\ p[2] \in Nat /\ MarkAt(fs, p) \in Nat
  <2> TAKE p \in Places(fs, kind)
  <2>1. /\ p[1] \in 1 .. Len(fs) /\ p[2] \in 1 .. Len(fs[p[1]].conts) /\ MarkAt(fs, p) \in Nat
        /\ Len(fs) \in Nat
    BY PlacesFacts
  <2> QED BY <2>1
<1>3. \A p \in Places(fs, kind) : ~ Before(top, p)
  BY <1>1, <1>2 DEF Before
<1>4. ~ Before(top, top)
  BY <1>1 DEF Before
<1>5. /\ \A p \in Places(fs, kind) : p[1] > b => lo <= MarkAt(gs, p) /\ MarkAt(gs, p) < n
      /\ \A p, q \in Places(fs, kind) :
           p[1] > b /\ q[1] > b /\ Before(p, q) => MarkAt(gs, p) < MarkAt(gs, q)
  BY <1>1 DEF Rising
<1>6. \A p \in Places(gs, kind) : p[1] > b => lo <= MarkAt(gs, p) /\ MarkAt(gs, p) < n + 1
  BY <1>1, <1>2, <1>5
<1>7. \A p, q \in Places(gs, kind) :
        p[1] > b /\ q[1] > b /\ Before(p, q) => MarkAt(gs, p) < MarkAt(gs, q)
  BY <1>1, <1>3, <1>4, <1>5
<1>8. ASSUME Covered(fs, kind, n) PROVE Covered(gs, kind, n + 1)
  <2> SUFFICES ASSUME NEW x \in 0 .. n
               PROVE  \E p \in Places(gs, kind) : MarkAt(gs, p) = x
    BY DEF Covered
  <2>1. CASE x = n
    BY <1>1, <2>1
  <2>2. CASE x \in 0 .. n - 1
    BY <1>1, <1>8, <2>2 DEF Covered
  <2> QED BY <2>1, <2>2
<1> QED BY <1>6, <1>7, <1>8 DEF Rising

LEMMA SameRising ==
  ASSUME NEW fs, NEW gs, NEW kind, Same(fs, gs, kind), NEW b, NEW lo, NEW n
  PROVE  /\ Rising(fs, kind, b, lo, n) => Rising(gs, kind, b, lo, n)
         /\ Covered(fs, kind, n) => Covered(gs, kind, n)
<1>1. Places(gs, kind) = Places(fs, kind) /\ \A p \in Places(fs, kind) : MarkAt(gs, p) = MarkAt(fs, p)
  BY DEF Same
<1> QED BY <1>1 DEF Rising, Covered

----------------------------------------------------------------------------
(* The frames fs, and how many bindings withs have saved (ds), exceptions   *)
(* are in hand (hs) and arguments of native calls are rooted (rs).          *)

Undoable == {"With", "Native", "Handler"}

\* As many saved bindings as withs and as many exceptions in hand as rescue bodies.
Balance(fs, ds, hs) ==
  /\ Rising(fs, "With", 0, 0, ds) /\ Covered(fs, "With", ds)
  /\ Cardinality(Places(fs, "Handler")) = hs

\* What the frames above b set up is above d in ds and above r in rs.
Above(fs, ds, rs, b, d, r) ==
  /\ b \in 0 .. Len(fs) /\ d \in 0 .. ds /\ r \in 0 .. rs
  /\ Rising(fs, "With", b, d, ds) /\ Rising(fs, "Native", b, r, rs)

LEMMA QuietKeeps ==
  ASSUME NEW fs, NEW gs \in Stacks, \A kind \in Undoable : Same(fs, gs, kind),
         NEW ds, NEW hs, NEW rs, NEW b, NEW d, NEW r
  PROVE  /\ Balance(fs, ds, hs) => Balance(gs, ds, hs)
         /\ Above(fs, ds, rs, b, d, r) /\ b <= Len(gs) => Above(gs, ds, rs, b, d, r)
<1>1. Same(fs, gs, "With") /\ Same(fs, gs, "Native") /\ Same(fs, gs, "Handler")
  BY DEF Undoable
<1>2. \A kind, c, lo, n : Same(fs, gs, kind) =>
        /\ Rising(fs, kind, c, lo, n) => Rising(gs, kind, c, lo, n)
        /\ Covered(fs, kind, n) => Covered(gs, kind, n)
  BY SameRising
<1>3. Places(fs, "Handler") = Places(gs, "Handler")
  BY <1>1 DEF Same
<1>4. Balance(fs, ds, hs) => Balance(gs, ds, hs)
  BY <1>1, <1>2, <1>3 DEF Balance
<1>5. Len(gs) \in Nat
  BY DEF Stacks
<1>6. ASSUME Above(fs, ds, rs, b, d, r), b <= Len(gs) PROVE Above(gs, ds, rs, b, d, r)
  <2>1. b \in 0 .. Len(fs) /\ d \in 0 .. ds /\ r \in 0 .. rs
        /\ Rising(fs, "With", b, d, ds) /\ Rising(fs, "Native", b, r, rs)
    BY <1>6 DEF Above
  <2>2. b \in 0 .. Len(gs)
    BY <1>5, <1>6, <2>1
  <2> QED BY <1>1, <1>2, <2>1, <2>2 DEF Above
<1> QED BY <1>4, <1>6

CutAt(fs, gs, k) == \A kind \in Undoable : Cut(fs, gs, kind, k)

\* The stacks cut back to the marks of what is left of the last frame.
LEMMA UndoKeeps ==
  ASSUME NEW fs \in Stacks, fs # <<>>, NEW gs \in Stacks,
         NEW k \in 0 .. Len(Last(fs).conts), CutAt(fs, gs, k),
         NEW left, Topmost(Last(fs).conts, k, left),
         NEW b, b < Len(fs), b <= Len(gs), NEW d, NEW r,
         NEW ds \in Nat, NEW hs \in Nat, NEW rs \in Nat,
         Balance(fs, ds, hs), Above(fs, ds, rs, b, d, r)
  PROVE  /\ Balance(gs, Mark("With", left, ds), hs - Cardinality(Rescues(left)))
         /\ Above(gs, Mark("With", left, ds), Mark("Native", left, rs), b, d, r)
         /\ Mark("With", left, ds) \in d .. ds /\ Mark("Native", left, rs) \in r .. rs
         /\ hs - Cardinality(Rescues(left)) \in 0 .. hs
<1> DEFINE es == Mark("With", left, ds)
           ss == Mark("Native", left, rs)
           is == hs - Cardinality(Rescues(left))
<1>1. Len(fs) \in Nat /\ Len(gs) \in Nat
  BY DEF Stacks
<1>2. /\ b \in Nat /\ d \in Nat /\ r \in Nat /\ d <= ds /\ r <= rs
      /\ Rising(fs, "With", b, d, ds) /\ Rising(fs, "Native", b, r, rs)
  BY <1>1 DEF Above
<1>3. /\ Rising(fs, "With", 0, 0, ds) /\ Covered(fs, "With", ds)
      /\ Cardinality(Places(fs, "Handler")) = hs
  BY DEF Balance
<1>4. \A kind \in Undoable : \A c, lo, n \in Nat :
        c < Len(fs) /\ lo <= n /\ Rising(fs, kind, c, lo, n) =>
          /\ Rising(gs, kind, c, lo, Mark(kind, left, n))
          /\ Covered(fs, kind, n) => Covered(gs, kind, Mark(kind, left, n))
          /\ Mark(kind, left, n) \in lo .. n
  BY CutRising DEF CutAt
<1>5. "With" \in Undoable /\ "Native" \in Undoable /\ "Handler" \in Undoable
  BY DEF Undoable
<1>6. /\ Rising(gs, "With", b, d, es) /\ es \in d .. ds
      /\ Rising(gs, "Native", b, r, ss) /\ ss \in r .. rs
  BY <1>2, <1>4, <1>5
<1>7. Rising(gs, "With", 0, 0, es) /\ Covered(gs, "With", es)
  BY <1>1, <1>2, <1>3, <1>4, <1>5
<1>8. /\ Cardinality(Rescues(left)) \in 0 .. hs
      /\ Cardinality(Places(gs, "Handler")) = hs - Cardinality(Rescues(left))
  <2>1. Cut(fs, gs, "Handler", k)
    BY <1>5 DEF CutAt
  <2> QED BY <1>3, <2>1, CutCount
<1>9. is \in 0 .. hs
  <2> DEFINE x == Cardinality(Rescues(left))
  <2>1. x \in 0 .. hs /\ is = hs - x
    BY <1>8
  <2> HIDE DEF x
  <2> QED BY <2>1
<1>10. Balance(gs, es, is)
  BY <1>7, <1>8 DEF Balance
<1>11. b \in 0 .. Len(gs) /\ d \in 0 .. es /\ r \in 0 .. ss
  BY <1>1, <1>2, <1>6
<1> QED BY <1>6, <1>9, <1>10, <1>11 DEF Above

\* A with saves a binding.
LEMMA WithKeeps ==
  ASSUME NEW fs \in Stacks, NEW gs \in Stacks, NEW top,
         NEW ds \in Nat, NEW hs, NEW rs,
         Grown(fs, gs, "With", top, ds), Same(fs, gs, "Native"), Same(fs, gs, "Handler"),
         NEW b, NEW d, NEW r, b <= Len(gs), Balance(fs, ds, hs), Above(fs, ds, rs, b, d, r)
  PROVE  Balance(gs, ds + 1, hs) /\ Above(gs, ds + 1, rs, b, d, r)
<1> DEFINE es == ds + 1
<1>1. Len(fs) \in Nat /\ Len(gs) \in Nat
  BY DEF Stacks
<1>2. /\ b \in Nat /\ d \in Nat /\ d <= ds /\ d \in 0 .. ds
      /\ b \in 0 .. Len(gs) /\ r \in 0 .. rs
      /\ Rising(fs, "With", b, d, ds) /\ Rising(fs, "Native", b, r, rs)
  BY <1>1 DEF Above
<1>3. /\ Rising(fs, "With", 0, 0, ds) /\ Covered(fs, "With", ds)
      /\ Cardinality(Places(fs, "Handler")) = hs
  BY DEF Balance
<1>4. Rising(gs, "Native", b, r, rs)
  BY <1>2, SameRising
<1>5. Places(gs, "Handler") = Places(fs, "Handler")
  BY DEF Same
<1>6. \A c, lo \in Nat : lo <= ds /\ Rising(fs, "With", c, lo, ds) =>
        /\ Rising(gs, "With", c, lo, ds + 1)
        /\ Covered(fs, "With", ds) => Covered(gs, "With", ds + 1)
  BY GrownRising
<1>7. Rising(gs, "With", 0, 0, es) /\ Covered(gs, "With", es)
  BY <1>3, <1>6
<1>8. Rising(gs, "With", b, d, es)
  BY <1>2, <1>6
<1>9. d \in 0 .. es
  BY <1>2
<1> QED BY <1>2, <1>3, <1>4, <1>5, <1>7, <1>8, <1>9 DEF Balance, Above

\* A native call roots its argument.
LEMMA NativeKeeps ==
  ASSUME NEW fs \in Stacks, NEW gs \in Stacks, NEW top,
         NEW ds, NEW hs, NEW rs \in Nat,
         Grown(fs, gs, "Native", top, rs), Same(fs, gs, "With"), Same(fs, gs, "Handler"),
         NEW b, NEW d, NEW r, b <= Len(gs), Balance(fs, ds, hs), Above(fs, ds, rs, b, d, r)
  PROVE  Balance(gs, ds, hs) /\ Above(gs, ds, rs + 1, b, d, r)
<1> DEFINE ss == rs + 1
<1>1. Len(fs) \in Nat /\ Len(gs) \in Nat
  BY DEF Stacks
<1>2. /\ b \in Nat /\ r \in Nat /\ r <= rs /\ r \in 0 .. rs
      /\ b \in 0 .. Len(gs) /\ d \in 0 .. ds
      /\ Rising(fs, "With", b, d, ds) /\ Rising(fs, "Native", b, r, rs)
  BY <1>1 DEF Above
<1>3. /\ Rising(fs, "With", 0, 0, ds) /\ Covered(fs, "With", ds)
      /\ Cardinality(Places(fs, "Handler")) = hs
  BY DEF Balance
<1>4. /\ Rising(gs, "With", b, d, ds)
      /\ Rising(gs, "With", 0, 0, ds) /\ Covered(gs, "With", ds)
  BY <1>2, <1>3, SameRising
<1>5. Places(gs, "Handler") = Places(fs, "Handler")
  BY DEF Same
<1>6. Rising(gs, "Native", b, r, ss)
  BY <1>2, GrownRising
<1>7. r \in 0 .. ss
  BY <1>2
<1> QED BY <1>2, <1>3, <1>4, <1>5, <1>6, <1>7 DEF Balance, Above

\* A rescue body begins, with an exception in hand.
LEMMA RescueKeeps ==
  ASSUME NEW fs \in Stacks, NEW gs \in Stacks, NEW top, NEW m,
         NEW ds, NEW hs, NEW rs,
         Grown(fs, gs, "Handler", top, m), Same(fs, gs, "With"), Same(fs, gs, "Native"),
         NEW b, NEW d, NEW r, b <= Len(gs), Balance(fs, ds, hs), Above(fs, ds, rs, b, d, r)
  PROVE  Balance(gs, ds, hs + 1) /\ Above(gs, ds, rs, b, d, r)
<1> DEFINE is == hs + 1
<1>1. Len(fs) \in Nat /\ Len(gs) \in Nat
  BY DEF Stacks
<1>2. /\ b \in 0 .. Len(gs) /\ d \in 0 .. ds /\ r \in 0 .. rs
      /\ Rising(fs, "With", b, d, ds) /\ Rising(fs, "Native", b, r, rs)
  BY <1>1 DEF Above
<1>3. /\ Rising(fs, "With", 0, 0, ds) /\ Covered(fs, "With", ds)
      /\ Cardinality(Places(fs, "Handler")) = hs
  BY DEF Balance
<1>4. /\ Rising(gs, "With", b, d, ds) /\ Rising(gs, "Native", b, r, rs)
      /\ Rising(gs, "With", 0, 0, ds) /\ Covered(gs, "With", ds)
  BY <1>2, <1>3, SameRising
<1>5. Cardinality(Places(gs, "Handler")) = is
  <2> DEFINE P == Places(fs, "Handler")
  <2>1. Places(gs, "Handler") = P \cup {top}
    BY DEF Grown
  <2>2. top \notin P
    <3>1. ~ Before(top, top) /\ \A p \in P : Before(p, top)
      BY DEF Grown, Before
    <3> QED BY <3>1
  <2>3. IsFiniteSet(P)
    BY PlacesFinite
  <2>4. Cardinality(P) = hs
    BY <1>3
  <2> HIDE DEF P
  <2>5. Cardinality(P \cup {top}) = Cardinality(P) + 1
    BY <2>2, <2>3, FS_AddElement
  <2> QED BY <2>1, <2>4, <2>5
<1> QED BY <1>2, <1>4, <1>5 DEF Balance, Above

----------------------------------------------------------------------------
(* The edits that the transitions make of the frames.                       *)

LEMMA OverWiden ==
  ASSUME NEW G, NEW H, G \subseteq H
  PROVE  /\ ContsOver(G) \subseteq ContsOver(H) /\ FramesOver(G) \subseteq FramesOver(H)
         /\ Seq(FramesOver(G)) \subseteq Seq(FramesOver(H))
         /\ Seq(G) \subseteq Seq(H)
<1>1. ContsOver(G) \subseteq ContsOver(H)
  BY DEF ContsOver
<1>2. Seq(ContsOver(G)) \subseteq Seq(ContsOver(H))
  BY <1>1
<1>3. FramesOver(G) \subseteq FramesOver(H)
  BY <1>2 DEF FramesOver
<1>4. Seq(FramesOver(G)) \subseteq Seq(FramesOver(H))
  BY <1>3
<1>5. Seq(G) \subseteq Seq(H)
  OBVIOUS
<1> QED BY <1>1, <1>3, <1>4, <1>5

\* gs is fs with its last frame edited or dropped, or with frames put above it.
Reframed(fs, gs, G) ==
  /\ gs \in Seq(FramesOver(G)) /\ Len(gs) \in Nat /\ Len(gs) >= Len(fs) - 1
  /\ \A i \in 1 .. Len(fs) - 1 : gs[i] = fs[i]
Unmoved(fs, gs) == \A kind \in Undoable : Same(fs, gs, kind)

\* A frame's local is bound.
LEMMA BindFrame ==
  ASSUME NEW G, NEW f \in FramesOver(G), NEW v \in G
  PROVE  [f EXCEPT !.local = v] \in FramesOver(G) /\ [f EXCEPT !.local = v].conts = f.conts
BY DEF FramesOver

\* What a frame has pending is replaced.
LEMMA ContsFrame ==
  ASSUME NEW G, NEW f \in FramesOver(G), NEW cs \in Seq(ContsOver(G))
  PROVE  [f EXCEPT !.conts = cs] \in FramesOver(G) /\ [f EXCEPT !.conts = cs].conts = cs
<1> DEFINE T == Seq(ContsOver(G))
<1>1. f \in [cal : G, local : G, conts : T] /\ cs \in T
  BY DEF FramesOver
<1> HIDE DEF T
<1>2. [f EXCEPT !.conts = cs] \in [cal : G, local : G, conts : T] /\ [f EXCEPT !.conts = cs].conts = cs
  BY <1>1
<1> QED BY <1>2 DEF FramesOver, T

\* One is taken from it.
LEMMA PoppedFrame ==
  ASSUME NEW G, NEW f \in FramesOver(G), f.conts # <<>>
  PROVE  /\ [f EXCEPT !.conts = Front(@)] \in FramesOver(G)
         /\ [f EXCEPT !.conts = Front(@)].conts = Front(f.conts)
<1>1. Front(f.conts) \in Seq(ContsOver(G))
  BY FrameFacts, FrontFacts
<1> QED BY <1>1, ContsFrame

LEMMA NewFrame ==
  ASSUME NEW G, NEW c \in G, NEW v \in G
  PROVE  Frame(c, v) \in FramesOver(G) /\ Frame(c, v).conts = <<>>
<1>1. <<>> \in Seq(ContsOver(G))
  OBVIOUS
<1> QED BY <1>1 DEF Frame, FramesOver

\* What the edited frame has pending agrees with a lower part of what it had.
LEMMA AgreesFacts ==
  ASSUME NEW G, NEW c \in Seq(ContsOver(G)), NEW kind
  PROVE  /\ Agrees(c, c, kind, Len(c)) /\ Agrees(c, <<>>, kind, 0)
         /\ c # <<>> => Agrees(c, Front(c), kind, Len(c) - 1) /\ Len(c) - 1 \in 0 .. Len(c)
         /\ \A at \in 1 .. Len(c) : c[at].kind # kind =>
              Agrees(c, SubSeq(c, 1, at - 1), kind, at)
<1>1. Len(c) \in Nat /\ \A j : ~ j \in 1 .. 0
  OBVIOUS
<1>2. Agrees(c, c, kind, Len(c))
  BY DEF Agrees
<1>3. Agrees(c, <<>>, kind, 0)
  BY <1>1 DEF Agrees
<1>4. ASSUME c # <<>> PROVE Agrees(c, Front(c), kind, Len(c) - 1) /\ Len(c) - 1 \in 0 .. Len(c)
  <2>1. Len(Front(c)) = Len(c) - 1 /\ \A i \in 1 .. Len(c) - 1 : Front(c)[i] = c[i]
    BY <1>4, FrontFacts
  <2>2. Len(c) # 0
    BY <1>4
  <2> QED BY <1>1, <2>1, <2>2 DEF Agrees
<1>5. ASSUME NEW at \in 1 .. Len(c), c[at].kind # kind
      PROVE  Agrees(c, SubSeq(c, 1, at - 1), kind, at)
  <2> DEFINE d == SubSeq(c, 1, at - 1)
  <2>1. Len(d) = at - 1 /\ \A i \in 1 .. at - 1 : d[i] = c[i]
    OBVIOUS
  <2> HIDE DEF d
  <2>2. \A j \in Nat : j \in 1 .. at <=> j \in 1 .. Len(d) \/ j = at
    BY <2>1
  <2>3. Agrees(c, d, kind, at)
    BY <1>5, <2>1, <2>2 DEF Agrees
  <2> QED BY <2>3 DEF d
<1> QED BY <1>2, <1>3, <1>4, <1>5

\* The last frame is replaced by f, which has all but the last of what was pending, or none.
LEMMA EditTop ==
  ASSUME NEW G, G \subseteq Refs, NEW fs \in Seq(FramesOver(G)), fs # <<>>,
         NEW f \in FramesOver(G)
  PROVE  /\ Reframed(fs, Append(Front(fs), f), G) /\ Len(Append(Front(fs), f)) = Len(fs)
         /\ Append(Front(fs), f)[Len(fs)] = f /\ Last(Append(Front(fs), f)) = f
         /\ Front(Append(Front(fs), f)) = Front(fs)
<1> DEFINE gs == Append(Front(fs), f)
<1>1. /\ gs \in Seq(FramesOver(G)) /\ Len(gs) = Len(fs) /\ gs[Len(fs)] = f
      /\ \A i \in 1 .. Len(fs) - 1 : gs[i] = fs[i]
  BY ReplaceLastFacts
<1>2. Len(fs) \in Nat
  OBVIOUS
<1>3. Front(fs) \in Seq(FramesOver(G))
  BY FrontFacts
<1>4. Last(gs) = f
  BY <1>1 DEF Last
<1>5. Front(gs) = Front(fs)
  <2>1. Len(fs) # 0
    OBVIOUS
  <2>2. gs # <<>>
    <3> HIDE DEF gs
    <3> QED BY <1>1, <1>2, <2>1
  <2>3. /\ Front(gs) \in Seq(FramesOver(G)) /\ Len(Front(gs)) = Len(gs) - 1
        /\ \A i \in 1 .. Len(gs) - 1 : Front(gs)[i] = gs[i]
    BY <1>1, <2>2, FrontFacts
  <2>4. /\ Len(Front(fs)) = Len(fs) - 1
        /\ \A i \in 1 .. Len(fs) - 1 : Front(fs)[i] = fs[i]
    BY FrontFacts
  <2> HIDE DEF gs
  <2> DEFINE a == Front(gs)
             b == Front(fs)
  <2>5. a \in Seq(FramesOver(G)) /\ b \in Seq(FramesOver(G)) /\ Len(a) = Len(b)
        /\ \A i \in 1 .. Len(b) : a[i] = b[i]
    BY <1>1, <1>3, <2>3, <2>4
  <2> HIDE DEF a, b
  <2>6. a = b
    BY <2>5
  <2> QED BY <2>6 DEF a, b
<1> HIDE DEF gs
<1> QED BY <1>1, <1>2, <1>4, <1>5 DEF gs, Reframed

\* The last frame's local is bound.
LEMMA Rebind ==
  ASSUME NEW G, G \subseteq Refs, NEW fs \in Seq(FramesOver(G)), fs # <<>>, NEW v \in G
  PROVE  /\ Reframed(fs, Append(Front(fs), [Last(fs) EXCEPT !.local = v]), G)
         /\ Unmoved(fs, Append(Front(fs), [Last(fs) EXCEPT !.local = v]))
<1> DEFINE f == [Last(fs) EXCEPT !.local = v]
           gs == Append(Front(fs), f)
           c == Last(fs).conts
<1>1. Last(fs) \in FramesOver(G)
  BY LastFacts
<1>2. f \in FramesOver(G) /\ f.conts = c
  BY <1>1, BindFrame
<1> HIDE DEF f
<1>3. fs \in Stacks /\ f \in FramesOver(Refs)
  BY <1>2, OverWiden DEF Stacks
<1>4. c \in Seq(ContsOver(G)) /\ Len(c) \in Nat
  BY <1>1, FrameFacts
<1>5. Reframed(fs, gs, G)
  BY <1>2, EditTop
<1>6. \A kind : Same(fs, gs, kind)
  <2> TAKE kind
  <2>1. Agrees(c, f.conts, kind, Len(c)) /\ Len(c) \in 0 .. Len(c)
    BY <1>2, <1>4, AgreesFacts
  <2>2. Cut(fs, gs, kind, Len(c))
    BY <1>3, <2>1, CutTop
  <2> HIDE DEF gs
  <2> QED BY <1>3, <1>4, <2>2, CutNothing
<1> HIDE DEF gs
<1>7. Unmoved(fs, gs)
  BY <1>6 DEF Unmoved
<1> QED BY <1>5, <1>7 DEF f, gs

\* A continuation is put on the last frame.
Topped(fs, gs, kd, m, G) ==
  /\ Reframed(fs, gs, G)
  /\ \A kind : kind # kd => Same(fs, gs, kind)
  /\ \E top : Grown(fs, gs, kd, top, m)

LEMMA PushCont ==
  ASSUME NEW G, G \subseteq Refs, NEW fs \in Seq(FramesOver(G)), fs # <<>>,
         NEW kd \in ContKinds, NEW v \in G, NEW m \in Nat, NEW gs,
         gs = Append(Front(fs), [Last(fs) EXCEPT !.conts = Append(@, Cont(kd, v, m))])
  PROVE  Topped(fs, gs, kd, m, G)
<1> DEFINE f == [Last(fs) EXCEPT !.conts = Append(@, Cont(kd, v, m))]
           c == Cont(kd, v, m)
<1>1. Last(fs) \in FramesOver(G)
  BY LastFacts
<1>2. f \in FramesOver(G) /\ f.conts = Append(Last(fs).conts, c) /\ c \in ContsOver(G)
  <2>1. c \in ContsOver(G)
    BY DEF Cont, ContsOver
  <2> HIDE DEF c
  <2>2. Append(Last(fs).conts, c) \in Seq(ContsOver(G))
    BY <1>1, <2>1, FrameFacts, AppendFacts
  <2> QED BY <1>1, <2>1, <2>2, ContsFrame DEF c
<1> HIDE DEF f
<1>3. fs \in Stacks /\ f \in FramesOver(Refs) /\ c \in ContsOver(Refs)
  BY <1>2, OverWiden DEF Stacks
<1>4. c.kind = kd /\ c.mark = m
  BY DEF Cont
<1>5. gs = Append(Front(fs), f)
  BY DEF f
<1> HIDE DEF c
<1>6. Reframed(fs, gs, G)
  BY <1>2, <1>5, EditTop
<1>7. /\ \A kind : kind # c.kind => Same(fs, gs, kind)
      /\ Grown(fs, gs, c.kind, <<Len(fs), Len(Last(fs).conts) + 1>>, c.mark)
  BY <1>2, <1>3, <1>5, PushTop
<1> QED BY <1>4, <1>6, <1>7 DEF Topped

\* The last continuation of the last frame is dropped.
LEMMA PopCont ==
  ASSUME NEW G, G \subseteq Refs, NEW fs \in Seq(FramesOver(G)), fs # <<>>,
         Last(fs).conts # <<>>, NEW gs,
         gs = Append(Front(fs), [Last(fs) EXCEPT !.conts = Front(@)])
  PROVE  /\ Reframed(fs, gs, G) /\ gs # <<>>
         /\ \A kind : Cut(fs, gs, kind, Len(Last(fs).conts) - 1)
         /\ Len(Last(fs).conts) - 1 \in 0 .. Len(Last(fs).conts)
         /\ \A kind : Last(Last(fs).conts).kind # kind => Same(fs, gs, kind)
<1> DEFINE f == [Last(fs) EXCEPT !.conts = Front(@)]
           c == Last(fs).conts
           k == Len(c) - 1
<1>1. Last(fs) \in FramesOver(G)
  BY LastFacts
<1>2. f \in FramesOver(G) /\ f.conts = Front(c)
  BY <1>1, PoppedFrame
<1> HIDE DEF f
<1>3. fs \in Stacks /\ f \in FramesOver(Refs)
  BY <1>2, OverWiden DEF Stacks
<1>4. c \in Seq(ContsOver(G)) /\ Len(c) \in Nat
  BY <1>1, FrameFacts
<1>5. gs = Append(Front(fs), f)
  BY DEF f
<1>6. Reframed(fs, gs, G) /\ Len(gs) = Len(fs) /\ gs # <<>>
  <2>1. Reframed(fs, gs, G) /\ Len(gs) = Len(fs)
    BY <1>2, <1>5, EditTop
  <2>2. Len(fs) # 0
    OBVIOUS
  <2>3. gs # <<>>
    BY <2>1, <2>2
  <2> QED BY <2>1, <2>3
<1>7. k \in 0 .. Len(c) /\ Last(c) = c[Len(c)] /\ Len(c) = k + 1 /\ k \in Nat
  <2> HIDE DEF c
  <2>1. Last(c) = c[Len(c)] /\ Len(c) \in Nat \ {0}
    BY <1>4, LastFacts DEF c
  <2> QED BY <2>1
<1>8. \A kind : Agrees(c, f.conts, kind, k)
  BY <1>2, <1>4, AgreesFacts
<1>9. \A kind : Cut(fs, gs, kind, k)
  BY <1>3, <1>5, <1>7, <1>8, CutTop
<1>10. \A kind : Last(c).kind # kind => Same(fs, gs, kind)
  <2> SUFFICES ASSUME NEW kind, Last(c).kind # kind PROVE Same(fs, gs, kind)
    OBVIOUS
  <2>1. \A j \in 1 .. Len(c) : c[j].kind = kind => j <= k
    <3> HIDE DEF c, k
    <3> QED BY <1>7
  <2>2. Cut(fs, gs, kind, k)
    BY <1>9
  <2> QED BY <1>3, <1>7, <2>1, <2>2, CutNothing
<1> QED BY <1>6, <1>7, <1>9, <1>10

\* A frame that has nothing pending replaces the last one, which has one call pending.
LEMMA Replace ==
  ASSUME NEW G, G \subseteq Refs, NEW fs \in Seq(FramesOver(G)), fs # <<>>,
         Len(Last(fs).conts) = 1, Last(Last(fs).conts).kind = "Call",
         NEW f \in FramesOver(G), f.conts = <<>>
  PROVE  Reframed(fs, Append(Front(fs), f), G) /\ Unmoved(fs, Append(Front(fs), f))
<1> DEFINE gs == Append(Front(fs), f)
           c == Last(fs).conts
<1>1. c \in Seq(ContsOver(G)) /\ c # <<>>
  BY LastFacts, FrameFacts
<1>2. fs \in Stacks /\ f \in FramesOver(Refs)
  BY OverWiden DEF Stacks
<1>3. Reframed(fs, gs, G)
  BY EditTop
<1>4. Last(c) = c[1]
  BY DEF Last
<1>5. \A kind : Agrees(c, f.conts, kind, 0) /\ 0 \in 0 .. Len(c)
  BY <1>1, AgreesFacts
<1>6. \A kind : Cut(fs, gs, kind, 0)
  BY <1>2, <1>5, CutTop
<1> HIDE DEF gs
<1>7. \A kind : kind # "Call" => Same(fs, gs, kind)
  <2> SUFFICES ASSUME NEW kind, kind # "Call" PROVE Same(fs, gs, kind)
    OBVIOUS
  <2>1. \A j \in 1 .. Len(c) : c[j].kind = kind => j <= 0
    BY <1>4
  <2>2. Cut(fs, gs, kind, 0)
    BY <1>6
  <2> QED BY <1>2, <2>1, <2>2, CutNothing
<1>8. Unmoved(fs, gs)
  BY <1>7 DEF Unmoved, Undoable
<1> QED BY <1>3, <1>8 DEF gs

\* The last frame is dropped.
LEMMA DropFrame ==
  ASSUME NEW G, G \subseteq Refs, NEW fs \in Seq(FramesOver(G)), fs # <<>>
  PROVE  /\ Reframed(fs, Front(fs), G) /\ Len(Front(fs)) = Len(fs) - 1
         /\ \A kind : Cut(fs, Front(fs), kind, 0)
         /\ Last(fs).conts = <<>> => Unmoved(fs, Front(fs))
<1> DEFINE gs == Front(fs)
<1>1. /\ gs \in Seq(FramesOver(G)) /\ Len(gs) = Len(fs) - 1
      /\ \A i \in 1 .. Len(fs) - 1 : gs[i] = fs[i]
  BY FrontFacts
<1>2. fs \in Stacks
  BY OverWiden DEF Stacks
<1>3. \A kind : Cut(fs, gs, kind, 0)
  BY <1>2, CutFrame
<1> HIDE DEF gs
<1>4. Reframed(fs, gs, G)
  BY <1>1 DEF Reframed
<1>5. ASSUME Last(fs).conts = <<>> PROVE Unmoved(fs, gs)
  <2>1. \A kind : \A j \in 1 .. Len(Last(fs).conts) : Last(fs).conts[j].kind = kind => j <= 0
    BY <1>5
  <2>2. \A kind : Same(fs, gs, kind)
    BY <1>2, <1>3, <2>1, CutNothing
  <2> QED BY <2>2 DEF Unmoved
<1> QED BY <1>1, <1>3, <1>4, <1>5 DEF gs

\* A frame that has nothing pending is put on top.
LEMMA PushFrame ==
  ASSUME NEW G, G \subseteq Refs, NEW fs \in Seq(FramesOver(G)),
         NEW f \in FramesOver(G), f.conts = <<>>
  PROVE  /\ Reframed(fs, Append(fs, f), G) /\ Unmoved(fs, Append(fs, f))
         /\ \A kind : Same(fs, Append(fs, f), kind)
         /\ \A i \in 1 .. Len(fs) : Append(fs, f)[i] = fs[i]
         /\ Len(Append(fs, f)) = Len(fs) + 1
<1> DEFINE gs == Append(fs, f)
<1>1. /\ gs \in Seq(FramesOver(G)) /\ Len(gs) = Len(fs) + 1 /\ Len(fs) \in Nat
      /\ \A i \in 1 .. Len(fs) : gs[i] = fs[i]
  BY AppendFacts
<1>2. fs \in Stacks /\ f \in FramesOver(Refs)
  BY OverWiden DEF Stacks
<1>3. \A kind : Same(fs, gs, kind)
  BY <1>2, PushSame
<1> HIDE DEF gs
<1>4. Reframed(fs, gs, G)
  BY <1>1 DEF Reframed
<1>5. Unmoved(fs, gs)
  BY <1>3 DEF Unmoved
<1> QED BY <1>1, <1>3, <1>4, <1>5 DEF gs

\* A handler at the place at takes an exception: what is above it is dropped, its place is
\* the rescue body's and the local is the exception.
LEMMA Rescue ==
  ASSUME NEW G, G \subseteq Refs, NEW fs \in Seq(FramesOver(G)), fs # <<>>,
         NEW at \in 1 .. Len(Last(fs).conts), Last(fs).conts[at].kind = "Try",
         NEW v \in G, Scalar \in G, NEW gs,
         gs = Append(Front(fs),
                [Last(fs) EXCEPT !.local = v,
                                 !.conts = Append(SubSeq(Last(fs).conts, 1, at - 1),
                                                  Cont("Handler", Scalar, 0))])
  PROVE  /\ Reframed(fs, gs, G)
         /\ \E hs \in Stacks :
              /\ Reframed(fs, hs, G) /\ CutAt(fs, hs, at)
              /\ Same(hs, gs, "With") /\ Same(hs, gs, "Native")
              /\ \E top : Grown(hs, gs, "Handler", top, 0)
<1> DEFINE c == Last(fs).conts
           d == SubSeq(c, 1, at - 1)
           e == Cont("Handler", Scalar, 0)
           f == [Last(fs) EXCEPT !.local = v, !.conts = d]
           g == [Last(fs) EXCEPT !.local = v, !.conts = Append(d, e)]
           hs == Append(Front(fs), f)
<1>1. Last(fs) \in FramesOver(G)
  BY LastFacts
<1>2. c \in Seq(ContsOver(G)) /\ Len(c) \in Nat
  BY <1>1, FrameFacts
<1>3. d \in Seq(ContsOver(G)) /\ Len(d) = at - 1
  BY <1>2
<1>4. e \in ContsOver(G) /\ e.kind = "Handler" /\ e.mark = 0
  BY DEF Cont, ContsOver, ContKinds
<1>5. Append(d, e) \in Seq(ContsOver(G))
  <2> HIDE DEF d, e
  <2> QED BY <1>3, <1>4
<1>8. gs = Append(Front(fs), g)
  OBVIOUS
<1>9. \A kind \in Undoable : Agrees(c, d, kind, at) /\ at \in 0 .. Len(c)
  <2> SUFFICES ASSUME NEW kind \in Undoable PROVE Agrees(c, d, kind, at) /\ at \in 0 .. Len(c)
    OBVIOUS
  <2>1. c[at].kind # kind
    BY DEF Undoable
  <2> HIDE DEF c
  <2>2. at \in 0 .. Len(c) /\ at \in 1 .. Len(c)
    BY <1>2 DEF c
  <2> QED BY <1>2, <2>1, <2>2, AgreesFacts
<1> HIDE DEF d, e
<1>6. /\ f \in FramesOver(G) /\ f.conts = d
      /\ g \in FramesOver(G) /\ g.conts = Append(d, e)
  <2> DEFINE T == Seq(ContsOver(G))
             l == Last(fs)
             x == Append(d, e)
  <2>1. l \in [cal : G, local : G, conts : T] /\ d \in T /\ x \in T
    BY <1>1, <1>3, <1>5 DEF FramesOver
  <2> HIDE DEF T, l, x, c
  <2>2. /\ f \in [cal : G, local : G, conts : T] /\ f.conts = d
        /\ g \in [cal : G, local : G, conts : T] /\ g.conts = x
    <3>1. f = [l EXCEPT !.local = v, !.conts = d] /\ g = [l EXCEPT !.local = v, !.conts = x]
      BY Zenon DEF l, x
    <3> QED BY <2>1, <3>1
  <2> QED BY <2>2, Zenon DEF FramesOver, T, x
<1> HIDE DEF f, g
<1>7. fs \in Stacks /\ f \in FramesOver(Refs) /\ g \in FramesOver(Refs) /\ e \in ContsOver(Refs)
  BY <1>4, <1>6, OverWiden DEF Stacks
<1>10. Reframed(fs, gs, G)
  BY <1>6, <1>8, EditTop
<1>11. CutAt(fs, hs, at)
  BY <1>6, <1>7, <1>9, CutTop DEF CutAt
<1>12. /\ Reframed(fs, hs, G) /\ Len(hs) = Len(fs) /\ Last(hs) = f /\ Front(hs) = Front(fs)
  BY <1>6, EditTop
<1> HIDE DEF hs
<1>13. hs \in Stacks
  BY <1>12, OverWiden DEF Reframed, Stacks
<1>14. hs # <<>>
  <2>1. Len(fs) # 0
    OBVIOUS
  <2> QED BY <1>12, <2>1
<1>15. gs = Append(Front(hs), g) /\ g.conts = Append(Last(hs).conts, e)
  BY <1>6, <1>8, <1>12
<1>16. /\ \A kind : kind # e.kind => Same(hs, gs, kind)
       /\ Grown(hs, gs, e.kind, <<Len(hs), Len(Last(hs).conts) + 1>>, e.mark)
  BY <1>7, <1>13, <1>14, <1>15, PushTop
<1>17. /\ Same(hs, gs, "With") /\ Same(hs, gs, "Native")
       /\ \E top : Grown(hs, gs, "Handler", top, 0)
  BY <1>4, <1>16
<1> QED BY <1>10, <1>11, <1>12, <1>13, <1>17

\* What is left: all of what is pending, the last of it, or what is above a place.
LEMMA LeftFacts ==
  ASSUME NEW G, G \subseteq Refs, NEW c \in Seq(ContsOver(G))
  PROVE  /\ Topmost(c, 0, c)
         /\ c # <<>> => Topmost(c, Len(c) - 1, <<Last(c)>>)
         /\ \A at \in 1 .. Len(c) : Topmost(c, at, SubSeq(c, at + 1, Len(c)))
<1>1. c \in Seq(ContsOver(Refs)) /\ Len(c) \in Nat
  BY OverWiden
<1>2. Topmost(c, 0, c)
  BY <1>1 DEF Topmost
<1>3. ASSUME c # <<>> PROVE Topmost(c, Len(c) - 1, <<Last(c)>>)
  <2>1. Last(c) = c[Len(c)] /\ Last(c) \in ContsOver(Refs) /\ Len(c) \in Nat \ {0}
    BY <1>1, <1>3, LastFacts
  <2> QED BY <2>1 DEF Topmost
<1>4. ASSUME NEW at \in 1 .. Len(c) PROVE Topmost(c, at, SubSeq(c, at + 1, Len(c)))
  <2> DEFINE d == SubSeq(c, at + 1, Len(c))
  <2>1. CASE at = Len(c)
    <3>1. d = <<>>
      BY <1>1, <2>1
    <3> HIDE DEF d
    <3> QED BY <1>1, <2>1, <3>1 DEF d, Topmost
  <2>2. CASE at # Len(c)
    <3>1. at + 1 \in 1 .. Len(c)
      BY <1>1, <2>2
    <3>2. /\ d \in Seq(ContsOver(Refs)) /\ Len(d) = Len(c) - at
          /\ \A i \in 1 .. Len(c) - at : d[i] = c[at + i]
      BY <1>1, <3>1
    <3> HIDE DEF d
    <3> QED BY <3>2 DEF d, Topmost
  <2> QED BY <2>1, <2>2
<1> QED BY <1>2, <1>3, <1>4

----------------------------------------------------------------------------
(* The inductive invariant.                                                 *)

Stopped == {"Paused", "Suspended", "Completed", "Raised"}

\* What the machine, the host and the machine that is set aside refer to is in G.
MachineOver(G) ==
  /\ Scalar \in G /\ Stringable \in G
  /\ frames \in Seq(FramesOver(G)) /\ reg \in G /\ param \in G
  /\ unwind \in UnwindOver(G, {unwind.trace})
  /\ IsSeq(handling) /\ \A i \in 1 .. Len(handling) : handling[i].value \in G
  /\ dyn \in Seq(G) /\ foreignRoots \in Seq(G) /\ pending \in Seq(G)
  /\ handles \subseteq G /\ raised.value \in G
  /\ aux.on => /\ aux.reg \in G /\ aux.pending \in Seq(G)
               /\ aux.unwind \in UnwindOver(G, {aux.unwind.trace})

\* The types of the rest of what an evaluation has set aside.
AuxTyped ==
  /\ aux.on \in BOOLEAN
  /\ aux.on =>
       /\ aux.was = [frames |-> aux.was.frames, handling |-> aux.was.handling,
                     dyn |-> aux.was.dyn, param |-> aux.was.param,
                     foreignRoots |-> aux.was.foreignRoots]
       /\ aux.was.frames \in Stacks /\ aux.was.dyn \in Seq(Refs)
       /\ aux.was.foreignRoots \in Seq(Refs) /\ IsSeq(aux.was.handling)
       /\ aux.base = Len(aux.was.frames) /\ aux.handling = Len(aux.was.handling)
       /\ aux.dyn = Len(aux.was.dyn) /\ aux.foreign = Len(aux.was.foreignRoots)
       /\ aux.turn # "Running"

Extends(s, t) == Len(s) >= Len(t) /\ \A i \in 1 .. Len(t) : s[i] = t[i]

\* What the native roots begin with during an evaluation.
SetAside == aux.was.foreignRoots \o <<aux.reg, aux.unwind.value>> \o aux.pending

\* What an evaluation may not undo.
DynFloor == IF aux.on THEN aux.dyn ELSE 0
Floor == IF aux.on THEN Len(SetAside) ELSE 0

\* The value that is in force when n bindings are saved.
BoundAt(ds, v, n) == IF n < Len(ds) THEN ds[n + 1] ELSE v

Balanced == Balance(frames, Len(dyn), Len(handling)) /\ BoundAt(dyn, param, 0) = Scalar

Arguments ==
  /\ aux.on \/ turn = "Running" => Above(frames, Len(dyn), Len(foreignRoots), Base, DynFloor, Floor)
  /\ ~ aux.on /\ turn \in Stopped => Places(frames, "Native") = {}

AuxIntact ==
  aux.on =>
    /\ aux.turn \in Stopped => Places(aux.was.frames, "Native") = {}
    /\ Extends(frames, aux.was.frames) /\ Extends(handling, aux.was.handling)
    /\ Extends(dyn, aux.was.dyn) /\ Extends(foreignRoots, SetAside)
    /\ BoundAt(dyn, param, aux.dyn) = aux.was.param
    /\ Balance(aux.was.frames, Len(aux.was.dyn), Len(aux.was.handling))

Inv ==
  /\ Sound(heap) /\ MachineOver(Alive(heap))
  /\ AuxTyped /\ Balanced /\ Arguments /\ AuxIntact

----------------------------------------------------------------------------
(* Sequences.                                                               *)

\* A sequence is one of its own members.
LEMMA SeqFacts ==
  /\ \A S : \A s \in Seq(S) : IsSeq(s)
  /\ \A s, e : IsSeq(s) => IsSeq(Append(s, e))
  /\ \A s : IsSeq(s) => /\ Len(s) \in Nat /\ DOMAIN s = 1 .. Len(s)
                        /\ \A n \in 0 .. Len(s) : IsSeq(SubSeq(s, 1, n))
<1>1. \A S : \A s \in Seq(S) : IsSeq(s)
  <2> SUFFICES ASSUME NEW S, NEW s \in Seq(S) PROVE s \in Seq(ToSet(s))
    BY DEF IsSeq
  <2>1. DOMAIN s = 1 .. Len(s) /\ s = [i \in 1 .. Len(s) |-> s[i]] /\ Len(s) \in Nat
    OBVIOUS
  <2>2. \A i \in 1 .. Len(s) : s[i] \in ToSet(s)
    BY <2>1 DEF ToSet
  <2> QED BY <2>1, <2>2
<1>2. \A s, e : IsSeq(s) => IsSeq(Append(s, e))
  <2> SUFFICES ASSUME NEW s, NEW e, IsSeq(s) PROVE IsSeq(Append(s, e))
    OBVIOUS
  <2>1. s \in Seq(ToSet(s) \cup {e})
    BY DEF IsSeq
  <2>2. Append(s, e) \in Seq(ToSet(s) \cup {e})
    BY <2>1
  <2> QED BY <1>1, <2>2
<1>3. ASSUME NEW s, IsSeq(s)
      PROVE  /\ Len(s) \in Nat /\ DOMAIN s = 1 .. Len(s)
             /\ \A n \in 0 .. Len(s) : IsSeq(SubSeq(s, 1, n))
  <2>1. s \in Seq(ToSet(s))
    BY <1>3 DEF IsSeq
  <2>2. \A n \in 0 .. Len(s) : SubSeq(s, 1, n) \in Seq(ToSet(s))
    BY <2>1
  <2>3. \A n \in 0 .. Len(s) : IsSeq(SubSeq(s, 1, n))
    BY <1>1, <2>2
  <2>4. Len(s) \in Nat /\ DOMAIN s = 1 .. Len(s)
    BY <2>1
  <2> QED BY <2>3, <2>4
<1> QED BY <1>1, <1>2, <1>3

\* A prefix.
LEMMA PrefixFacts ==
  ASSUME NEW S, NEW s \in Seq(S), NEW n \in 0 .. Len(s)
  PROVE  /\ SubSeq(s, 1, n) \in Seq(S) /\ Len(SubSeq(s, 1, n)) = n
         /\ \A i \in 1 .. n : SubSeq(s, 1, n)[i] = s[i]
OBVIOUS

\* What is extended is the beginning of what extends it.
LEMMA ExtendsFacts ==
  ASSUME NEW s, NEW t, IsSeq(s), IsSeq(t), Extends(s, t)
  PROVE  SubSeq(s, 1, Len(t)) = t /\ Len(t) \in 0 .. Len(s)
<1>1. Len(s) \in Nat /\ Len(t) \in Nat /\ DOMAIN t = 1 .. Len(t)
  BY SeqFacts
<1>2. Len(t) \in 0 .. Len(s)
  BY <1>1 DEF Extends
<1> DEFINE S == ToSet(s) \cup ToSet(t)
           u == SubSeq(s, 1, Len(t))
<1>3. s \in Seq(S) /\ t \in Seq(S)
  BY DEF IsSeq
<1>4. u \in Seq(S) /\ Len(u) = Len(t) /\ \A i \in 1 .. Len(t) : u[i] = s[i]
  BY <1>2, <1>3, PrefixFacts
<1>5. \A i \in 1 .. Len(t) : u[i] = t[i]
  BY <1>4 DEF Extends
<1> HIDE DEF u, S
<1>6. u = t
  BY <1>3, <1>4, <1>5
<1> QED BY <1>2, <1>6 DEF u

\* Frames that extend others have their continuations.
LEMMA ExtendsPlaces ==
  ASSUME NEW fs \in Stacks, NEW ws \in Stacks, Extends(fs, ws), NEW kind
  PROVE  /\ Places(ws, kind) \subseteq Places(fs, kind)
         /\ Cardinality(Places(ws, kind)) <= Cardinality(Places(fs, kind))
<1>1. Len(fs) \in Nat /\ Len(ws) \in Nat
  BY DEF Stacks
<1>2. \A i \in 1 .. Len(ws) : i \in 1 .. Len(fs) /\ fs[i] = ws[i]
  BY <1>1 DEF Extends
<1>3. \A p \in Places(ws, kind) :
        /\ p = <<p[1], p[2]>> /\ p[1] \in 1 .. Len(ws)
        /\ p[2] \in 1 .. Len(ws[p[1]].conts) /\ ws[p[1]].conts[p[2]].kind = kind
  BY PlacesFacts
<1>4. \A i, j : <<i, j>> \in Places(fs, kind) <=>
              i \in 1 .. Len(fs) /\ j \in 1 .. Len(fs[i].conts) /\ fs[i].conts[j].kind = kind
  BY PlacesFacts
<1>5. \A p \in Places(ws, kind) : p \in Places(fs, kind)
  BY <1>2, <1>3, <1>4
<1>6. IsFiniteSet(Places(fs, kind))
  BY PlacesFinite
<1> QED BY <1>5, <1>6, FS_Subset

----------------------------------------------------------------------------
(* What a transition of the machine does to what bodies set up.             *)

\* The exceptions that the rescue bodies of gs have in hand, of the frames or of what was
\* left of them before another body began, stay in hand.
InHand(gs) ==
  /\ gs \in Stacks /\ Base <= Len(gs) /\ \A i \in 1 .. Base : gs[i] = frames[i]
  /\ Cardinality(Places(gs, "Handler")) <= Len(handling')
  /\ \A i \in 1 .. Cardinality(Places(gs, "Handler")) : handling'[i] = handling[i]

\* The stacks stay balanced, and what an evaluation has set aside stays beneath.
Outcome ==
  /\ Balance(frames', Len(dyn'), Len(handling'))
  /\ Above(frames', Len(dyn'), Len(foreignRoots'), Base, DynFloor, Floor)
  /\ \A i \in 1 .. Base : frames'[i] = frames[i]
  /\ \A i \in 1 .. DynFloor : dyn'[i] = dyn[i]
  /\ \A i \in 1 .. Floor : foreignRoots'[i] = foreignRoots[i]
  /\ \E gs : InHand(gs)
  /\ \A n \in 0 .. DynFloor : BoundAt(dyn', param', n) = BoundAt(dyn, param, n)
  /\ UNCHANGED aux

\* A stop of the machine has no native call running.
Ending == ~ aux.on /\ turn' \in Stopped => Places(frames', "Native") = {}

LEMMA OutcomeKeeps ==
  ASSUME AuxTyped, Balanced, Arguments, AuxIntact, turn = "Running",
         frames' \in Stacks, IsSeq(handling'),
         Outcome, Ending
  PROVE  AuxTyped' /\ Balanced' /\ Arguments' /\ AuxIntact'
<1>1. aux' = aux
  BY DEF Outcome
<1>2. AuxTyped'
  BY <1>1 DEF AuxTyped
<1>3. Base' = Base /\ DynFloor' = DynFloor /\ Floor' = Floor /\ SetAside' = SetAside
  BY <1>1 DEF Base, DynFloor, Floor, SetAside
<1>4. /\ Balance(frames', Len(dyn'), Len(handling'))
      /\ Above(frames', Len(dyn'), Len(foreignRoots'), Base, DynFloor, Floor)
  BY DEF Outcome
<1>5. Arguments'
  BY <1>1, <1>3, <1>4 DEF Arguments, Ending
<1>6. DynFloor \in Nat
  <2>1. Above(frames, Len(dyn), Len(foreignRoots), Base, DynFloor, Floor)
    BY DEF Arguments
  <2> QED BY <2>1 DEF Above
<1>7. Balanced'
  <2>1. BoundAt(dyn', param', 0) = BoundAt(dyn, param, 0)
    BY <1>6 DEF Outcome
  <2> QED BY <1>4, <2>1 DEF Balanced
<1>8. ASSUME aux.on PROVE AuxIntact'
  <2>1. /\ Base = aux.base /\ DynFloor = aux.dyn /\ Floor = Len(SetAside)
        /\ aux.base = Len(aux.was.frames) /\ aux.dyn = Len(aux.was.dyn)
        /\ aux.was.frames \in Stacks /\ IsSeq(aux.was.handling)
    BY <1>8 DEF AuxTyped, Base, DynFloor, Floor
  <2>2. /\ aux.turn \in Stopped => Places(aux.was.frames, "Native") = {}
        /\ Extends(frames, aux.was.frames) /\ Extends(handling, aux.was.handling)
        /\ Extends(dyn, aux.was.dyn) /\ Extends(foreignRoots, SetAside)
        /\ BoundAt(dyn, param, aux.dyn) = aux.was.param
        /\ Balance(aux.was.frames, Len(aux.was.dyn), Len(aux.was.handling))
    BY <1>8 DEF AuxIntact
  <2>3. /\ Base \in 0 .. Len(frames') /\ DynFloor \in 0 .. Len(dyn')
        /\ Floor \in 0 .. Len(foreignRoots')
    BY <1>4 DEF Above
  <2>4. Extends(frames', aux.was.frames)
    BY <2>1, <2>2, <2>3 DEF Outcome, Extends
  <2>5. Extends(dyn', aux.was.dyn)
    BY <2>1, <2>2, <2>3 DEF Outcome, Extends
  <2>6. Extends(foreignRoots', SetAside)
    BY <2>1, <2>2, <2>3 DEF Outcome, Extends
  <2>7. Extends(handling', aux.was.handling)
    <3>1. PICK gs : InHand(gs)
      BY DEF Outcome
    <3> DEFINE n == Cardinality(Places(gs, "Handler"))
    <3>2. /\ gs \in Stacks /\ Base <= Len(gs) /\ \A i \in 1 .. Base : gs[i] = frames[i]
          /\ n <= Len(handling') /\ \A i \in 1 .. n : handling'[i] = handling[i]
      BY <3>1 DEF InHand
    <3>3. Extends(gs, aux.was.frames)
      BY <2>1, <2>2, <3>2 DEF Extends
    <3>4. Len(aux.was.handling) = Cardinality(Places(aux.was.frames, "Handler"))
      BY <2>2 DEF Balance
    <3>5. Len(aux.was.handling) <= n /\ n \in Nat
      BY <2>1, <3>2, <3>3, <3>4, ExtendsPlaces, PlacesFinite
    <3>6. Len(aux.was.handling) \in Nat /\ Len(handling') \in Nat
      BY <2>1, SeqFacts
    <3>7. \A i \in 1 .. Len(aux.was.handling) : handling[i] = aux.was.handling[i]
      BY <2>2 DEF Extends
    <3> HIDE DEF n
    <3> QED BY <3>2, <3>5, <3>6, <3>7 DEF Extends
  <2>8. BoundAt(dyn', param', aux.dyn) = aux.was.param
    BY <1>6, <2>1, <2>2 DEF Outcome
  <2> QED BY <1>1, <1>3, <2>2, <2>4, <2>5, <2>6, <2>7, <2>8 DEF AuxIntact
<1>9. AuxIntact'
  BY <1>1, <1>8 DEF AuxIntact
<1> QED BY <1>2, <1>5, <1>7, <1>9

----------------------------------------------------------------------------
(* The kinds of transition: those that leave what bodies set up as it is,   *)
(* those that add to it, and those that undo it.                            *)

Prepared ==
  /\ turn = "Running" /\ Len(frames) > Base
  /\ frames \in Stacks /\ dyn \in Seq(Refs) /\ foreignRoots \in Seq(Refs) /\ IsSeq(handling)
  /\ Balanced /\ Arguments

LEMMA PreparedFacts ==
  ASSUME Prepared
  PROVE  /\ Balance(frames, Len(dyn), Len(handling))
         /\ Above(frames, Len(dyn), Len(foreignRoots), Base, DynFloor, Floor)
         /\ Len(frames) \in Nat \ {0} /\ frames # <<>> /\ Base \in Nat /\ DynFloor \in Nat
         /\ Floor \in Nat
         /\ Base <= Len(frames) - 1 /\ DynFloor <= Len(dyn) /\ Floor <= Len(foreignRoots)
         /\ Len(dyn) \in Nat /\ Len(foreignRoots) \in Nat /\ Len(handling) \in Nat
<1>1. /\ Len(frames) \in Nat /\ Len(dyn) \in Nat /\ Len(foreignRoots) \in Nat
      /\ Len(handling) \in Nat
  BY SeqFacts DEF Prepared, Stacks
<1>2. /\ Balance(frames, Len(dyn), Len(handling))
      /\ Above(frames, Len(dyn), Len(foreignRoots), Base, DynFloor, Floor)
  BY DEF Prepared, Balanced, Arguments
<1>3. /\ Base \in Nat /\ DynFloor \in Nat /\ Floor \in Nat
      /\ DynFloor <= Len(dyn) /\ Floor <= Len(foreignRoots)
  BY <1>1, <1>2 DEF Above
<1>4. Base <= Len(frames) - 1 /\ Len(frames) # 0
  BY <1>1, <1>3 DEF Prepared
<1>5. frames # <<>>
  BY <1>4
<1> QED BY <1>1, <1>2, <1>3, <1>4, <1>5

LEMMA ReframedFacts ==
  ASSUME Prepared, NEW gs, Reframed(frames, gs, Refs)
  PROVE  gs \in Stacks /\ Base <= Len(gs) /\ \A i \in 1 .. Base : gs[i] = frames[i]
<1>1. gs \in Stacks
  BY DEF Reframed, Stacks
<1>2. Base \in Nat /\ Base <= Len(frames) - 1 /\ Len(frames) \in Nat
  BY PreparedFacts
<1>3. Len(gs) \in Nat /\ Len(gs) >= Len(frames) - 1
      /\ \A i \in 1 .. Len(frames) - 1 : gs[i] = frames[i]
  BY DEF Reframed
<1>4. Base <= Len(gs)
  BY <1>2, <1>3
<1>5. \A i \in 1 .. Base : i \in 1 .. Len(frames) - 1
  BY <1>2
<1> QED BY <1>1, <1>3, <1>4, <1>5

LEMMA StillInHand ==
  ASSUME Prepared, frames' \in Stacks, Base <= Len(frames'),
         \A i \in 1 .. Base : frames'[i] = frames[i],
         Cardinality(Places(frames', "Handler")) = Len(handling'),
         IsSeq(handling'), \A i \in 1 .. Len(handling') : handling'[i] = handling[i]
  PROVE  InHand(frames')
<1>1. Len(handling') \in Nat
  BY SeqFacts
<1> QED BY <1>1 DEF InHand

LEMMA QuietOutcome ==
  ASSUME Prepared, Reframed(frames, frames', Refs), Unmoved(frames, frames'),
         UNCHANGED <<dyn, param, handling, foreignRoots, aux>>
  PROVE  Outcome
<1>1. /\ frames' \in Stacks /\ Base <= Len(frames')
      /\ \A i \in 1 .. Base : frames'[i] = frames[i]
  BY ReframedFacts
<1>2. /\ Balance(frames, Len(dyn), Len(handling))
      /\ Above(frames, Len(dyn), Len(foreignRoots), Base, DynFloor, Floor)
  BY PreparedFacts
<1>3. /\ Balance(frames', Len(dyn), Len(handling))
      /\ Above(frames', Len(dyn), Len(foreignRoots), Base, DynFloor, Floor)
  BY <1>1, <1>2, QuietKeeps DEF Unmoved
<1>4. InHand(frames')
  BY <1>1, <1>3, StillInHand DEF Balance, Prepared
<1> QED BY <1>1, <1>3, <1>4 DEF Outcome

LEMMA SameFrames ==
  ASSUME NEW G, NEW fs \in Seq(FramesOver(G))
  PROVE  Reframed(fs, fs, G) /\ Unmoved(fs, fs)
BY DEF Reframed, Unmoved, Same

LEMMA WithOutcome ==
  ASSUME Prepared, Reframed(frames, frames', Refs), NEW top,
         Grown(frames, frames', "With", top, Len(dyn)),
         Same(frames, frames', "Native"), Same(frames, frames', "Handler"),
         dyn' = Append(dyn, param), param \in Refs,
         UNCHANGED <<handling, foreignRoots, aux>>
  PROVE  Outcome
<1>1. /\ frames' \in Stacks /\ Base <= Len(frames')
      /\ \A i \in 1 .. Base : frames'[i] = frames[i]
  BY ReframedFacts
<1>2. /\ Balance(frames, Len(dyn), Len(handling))
      /\ Above(frames, Len(dyn), Len(foreignRoots), Base, DynFloor, Floor)
      /\ Len(dyn) \in Nat /\ DynFloor \in Nat /\ DynFloor <= Len(dyn)
  BY PreparedFacts
<1>3. /\ Len(dyn') = Len(dyn) + 1 /\ dyn'[Len(dyn) + 1] = param
      /\ \A i \in 1 .. Len(dyn) : dyn'[i] = dyn[i]
  BY AppendFacts DEF Prepared
<1>4. frames \in Stacks
  BY DEF Prepared
<1>5. /\ Balance(frames', Len(dyn'), Len(handling))
      /\ Above(frames', Len(dyn'), Len(foreignRoots), Base, DynFloor, Floor)
  BY <1>1, <1>2, <1>3, <1>4, WithKeeps
<1>6. \A n \in 0 .. DynFloor : BoundAt(dyn', param', n) = BoundAt(dyn, param, n)
  BY <1>2, <1>3 DEF BoundAt
<1>7. \A i \in 1 .. DynFloor : dyn'[i] = dyn[i]
  BY <1>2, <1>3
<1>8. InHand(frames')
  BY <1>1, <1>5, StillInHand DEF Balance, Prepared
<1> QED BY <1>1, <1>5, <1>6, <1>7, <1>8 DEF Outcome

LEMMA NativeOutcome ==
  ASSUME Prepared, Reframed(frames, frames', Refs), NEW top,
         Grown(frames, frames', "Native", top, Len(foreignRoots)),
         Same(frames, frames', "With"), Same(frames, frames', "Handler"),
         NEW v \in Refs, foreignRoots' = Append(foreignRoots, v),
         UNCHANGED <<dyn, param, handling, aux>>
  PROVE  Outcome
<1>1. /\ frames' \in Stacks /\ Base <= Len(frames')
      /\ \A i \in 1 .. Base : frames'[i] = frames[i]
  BY ReframedFacts
<1>2. /\ Balance(frames, Len(dyn), Len(handling))
      /\ Above(frames, Len(dyn), Len(foreignRoots), Base, DynFloor, Floor)
      /\ Len(foreignRoots) \in Nat /\ Floor \in Nat /\ Floor <= Len(foreignRoots)
  BY PreparedFacts
<1>3. /\ Len(foreignRoots') = Len(foreignRoots) + 1
      /\ \A i \in 1 .. Len(foreignRoots) : foreignRoots'[i] = foreignRoots[i]
  BY AppendFacts DEF Prepared
<1>4. frames \in Stacks
  BY DEF Prepared
<1>5. /\ Balance(frames', Len(dyn), Len(handling))
      /\ Above(frames', Len(dyn), Len(foreignRoots'), Base, DynFloor, Floor)
  BY <1>1, <1>2, <1>3, <1>4, NativeKeeps
<1>6. \A i \in 1 .. Floor : foreignRoots'[i] = foreignRoots[i]
  BY <1>2, <1>3
<1>7. InHand(frames')
  BY <1>1, <1>5, StillInHand DEF Balance, Prepared
<1> QED BY <1>1, <1>5, <1>6, <1>7 DEF Outcome

\* What is undone is cut off at the top: see discard_cont.
Undone(gs, is) ==
  /\ Balance(gs, Len(dyn'), Len(is))
  /\ Above(gs, Len(dyn'), Len(foreignRoots'), Base, DynFloor, Floor)
  /\ \A i \in 1 .. DynFloor : dyn'[i] = dyn[i]
  /\ \A i \in 1 .. Floor : foreignRoots'[i] = foreignRoots[i]
  /\ IsSeq(is) /\ Len(is) <= Len(handling) /\ \A i \in 1 .. Len(is) : is[i] = handling[i]
  /\ \A n \in 0 .. DynFloor : BoundAt(dyn', param', n) = BoundAt(dyn, param, n)

LEMMA UndoFacts ==
  ASSUME Prepared, NEW gs \in Stacks, Base <= Len(gs), NEW k \in 0 .. Len(Top.conts),
         CutAt(frames, gs, k),
         NEW left, Topmost(Top.conts, k, left), Undo(left)
  PROVE  Undone(gs, HandlingWithout(left))
<1> DEFINE m == Mark("With", left, Len(dyn))
           n == Mark("Native", left, Len(foreignRoots))
           h == Len(handling) - Cardinality(Rescues(left))
           is == HandlingWithout(left)
<1>1. /\ Balance(frames, Len(dyn), Len(handling))
      /\ Above(frames, Len(dyn), Len(foreignRoots), Base, DynFloor, Floor)
      /\ Len(dyn) \in Nat /\ Len(foreignRoots) \in Nat /\ Len(handling) \in Nat
      /\ frames # <<>> /\ DynFloor \in Nat /\ Floor \in Nat /\ Base < Len(frames)
      /\ frames \in Stacks
  BY PreparedFacts DEF Prepared
<1>2. /\ dyn \in Seq(Refs) /\ foreignRoots \in Seq(Refs) /\ IsSeq(handling)
      /\ handling \in Seq(ToSet(handling))
  BY DEF Prepared, IsSeq
<1>3. /\ dyn' = SubSeq(dyn, 1, m) /\ param' = ParamAt(m)
      /\ foreignRoots' = SubSeq(foreignRoots, 1, n)
  BY Zenon DEF Undo
<1>4. is = SubSeq(handling, 1, h)
  BY DEF HandlingWithout
<1>5. m \in 0 .. Len(dyn) /\ n \in 0 .. Len(foreignRoots)
  <2>1. left \in Seq(ContsOver(Refs))
    BY DEF Topmost
  <2>2. m \in Nat /\ m <= Len(dyn) /\ n \in Nat /\ n <= Len(foreignRoots)
    BY <1>1, <2>1, MarkFacts
  <2> HIDE DEF m, n
  <2> QED BY <1>1, <2>2
<1>6. h \in 0 .. Len(handling)
  <2> DEFINE x == Cardinality(Rescues(left))
             y == Cardinality(Places(frames, "Handler"))
  <2>1. Cut(frames, gs, "Handler", k)
    BY DEF Undoable, CutAt
  <2>2. x \in 0 .. y
    BY <1>1, <2>1, CutCount DEF Top
  <2>3. y = Len(handling)
    BY <1>1 DEF Balance
  <2> HIDE DEF x, y
  <2>4. Len(handling) - x \in 0 .. Len(handling)
    BY <1>1, <2>2, <2>3
  <2> QED BY <2>4 DEF x
<1> HIDE DEF m, n, h, is
<1>7. /\ Len(dyn') = m /\ \A i \in 1 .. m : dyn'[i] = dyn[i]
      /\ Len(foreignRoots') = n /\ \A i \in 1 .. n : foreignRoots'[i] = foreignRoots[i]
      /\ Len(is) = h /\ \A i \in 1 .. h : is[i] = handling[i]
  BY <1>2, <1>3, <1>4, <1>5, <1>6, PrefixFacts
<1>8. /\ Balance(gs, Len(dyn'), Len(is))
      /\ Above(gs, Len(dyn'), Len(foreignRoots'), Base, DynFloor, Floor)
      /\ Len(dyn') \in DynFloor .. Len(dyn) /\ Len(foreignRoots') \in Floor .. Len(foreignRoots)
  <2>1. /\ k \in 0 .. Len(Last(frames).conts) /\ Topmost(Last(frames).conts, k, left)
    BY DEF Top
  <2>2. /\ Balance(gs, Mark("With", left, Len(dyn)), Len(handling) - Cardinality(Rescues(left)))
        /\ Above(gs, Mark("With", left, Len(dyn)), Mark("Native", left, Len(foreignRoots)),
                 Base, DynFloor, Floor)
        /\ Mark("With", left, Len(dyn)) \in DynFloor .. Len(dyn)
        /\ Mark("Native", left, Len(foreignRoots)) \in Floor .. Len(foreignRoots)
    BY <1>1, <2>1, UndoKeeps
  <2>3. /\ Balance(gs, m, h) /\ Above(gs, m, n, Base, DynFloor, Floor)
        /\ m \in DynFloor .. Len(dyn) /\ n \in Floor .. Len(foreignRoots)
    BY <2>2, Zenon DEF m, n, h
  <2> QED BY <1>7, <2>3
<1>9. IsSeq(is)
  BY <1>2, <1>4, <1>6, SeqFacts
<1>10. \A i \in 0 .. DynFloor : BoundAt(dyn', param', i) = BoundAt(dyn, param, i)
  <2> TAKE i \in 0 .. DynFloor
  <2>1. i \in Nat /\ m \in Nat /\ i <= m /\ m <= Len(dyn) /\ Len(dyn') = m
    BY <1>1, <1>5, <1>7, <1>8
  <2>2. CASE i < m
    <3>1. i + 1 \in 1 .. m /\ i < Len(dyn)
      BY <1>1, <2>1, <2>2
    <3>2. dyn'[i + 1] = dyn[i + 1]
      BY <1>7, <3>1
    <3> QED BY <2>1, <2>2, <3>1, <3>2 DEF BoundAt
  <2>3. CASE i = m
    <3>1. BoundAt(dyn', param', i) = param'
      BY <2>1, <2>3 DEF BoundAt
    <3>2. param' = BoundAt(dyn, param, i)
      BY <1>3, <2>3 DEF ParamAt, BoundAt
    <3> QED BY <3>1, <3>2
  <2> QED BY <2>1, <2>2, <2>3
<1>11. /\ \A i \in 1 .. DynFloor : dyn'[i] = dyn[i]
       /\ \A i \in 1 .. Floor : foreignRoots'[i] = foreignRoots[i]
  <2>1. DynFloor <= m /\ Floor <= n /\ m \in Nat /\ n \in Nat
    BY <1>1, <1>5, <1>7, <1>8
  <2>2. DynFloor \in Nat /\ Floor \in Nat
    BY <1>1
  <2>3. 1 .. DynFloor \subseteq 1 .. m /\ 1 .. Floor \subseteq 1 .. n
    BY <2>1, <2>2
  <2>4. (\A i \in 1 .. m : dyn'[i] = dyn[i]) /\ \A i \in 1 .. n : foreignRoots'[i] = foreignRoots[i]
    BY <1>7
  <2> QED BY <2>3, <2>4
<1>12. Len(is) <= Len(handling) /\ \A i \in 1 .. Len(is) : is[i] = handling[i]
  BY <1>1, <1>6, <1>7
<1> QED BY <1>8, <1>9, <1>10, <1>11, <1>12 DEF Undone, is

LEMMA UndoOutcome ==
  ASSUME Prepared, Reframed(frames, frames', Refs), NEW k \in 0 .. Len(Top.conts),
         CutAt(frames, frames', k),
         NEW left, Topmost(Top.conts, k, left), Undo(left),
         handling' = HandlingWithout(left), UNCHANGED aux
  PROVE  Outcome
<1>1. /\ frames' \in Stacks /\ Base <= Len(frames')
      /\ \A i \in 1 .. Base : frames'[i] = frames[i]
  BY ReframedFacts
<1>2. Undone(frames', handling')
  BY <1>1, UndoFacts
<1>3. InHand(frames')
  BY <1>1, <1>2, StillInHand DEF Undone, Balance
<1> QED BY <1>1, <1>2, <1>3 DEF Outcome, Undone

LEMMA RescueOutcome ==
  ASSUME Prepared, Reframed(frames, frames', Refs), NEW k \in 0 .. Len(Top.conts),
         NEW hs, Reframed(frames, hs, Refs),
         CutAt(frames, hs, k),
         Same(hs, frames', "With"), Same(hs, frames', "Native"),
         NEW top, Grown(hs, frames', "Handler", top, 0),
         NEW left, Topmost(Top.conts, k, left), Undo(left),
         NEW e, handling' = Append(HandlingWithout(left), e), UNCHANGED aux
  PROVE  Outcome
<1> DEFINE is == HandlingWithout(left)
<1>1. /\ frames' \in Stacks /\ Base <= Len(frames')
      /\ \A i \in 1 .. Base : frames'[i] = frames[i]
  BY ReframedFacts
<1>2. hs \in Stacks /\ Base <= Len(hs) /\ \A i \in 1 .. Base : hs[i] = frames[i]
  BY ReframedFacts
<1>3. Undone(hs, is)
  BY <1>2, UndoFacts
<1> HIDE DEF is
<1>4. /\ Len(is) \in Nat /\ Len(handling') = Len(is) + 1
      /\ \A i \in 1 .. Len(is) : handling'[i] = is[i]
  <2>1. handling' = Append(is, e)
    BY DEF is
  <2>2. is \in Seq(ToSet(is) \cup {e})
    BY <1>3 DEF Undone, IsSeq
  <2> QED BY <2>1, <2>2
<1>5. /\ Balance(hs, Len(dyn'), Len(is))
      /\ Above(hs, Len(dyn'), Len(foreignRoots'), Base, DynFloor, Floor)
  BY <1>3 DEF Undone
<1>6. /\ Balance(frames', Len(dyn'), Len(handling'))
      /\ Above(frames', Len(dyn'), Len(foreignRoots'), Base, DynFloor, Floor)
  BY <1>1, <1>2, <1>4, <1>5, RescueKeeps
<1>7. InHand(hs)
  <2>1. Cardinality(Places(hs, "Handler")) = Len(is)
    BY <1>5 DEF Balance
  <2>2. Len(is) <= Len(handling) /\ \A j \in 1 .. Len(is) : is[j] = handling[j]
    BY <1>3 DEF Undone
  <2>3. Len(is) <= Len(handling') /\ \A j \in 1 .. Len(is) : handling'[j] = handling[j]
    BY <1>4, <2>2
  <2> QED BY <1>2, <2>1, <2>3 DEF InHand
<1> QED BY <1>1, <1>3, <1>6, <1>7 DEF Outcome, Undone

----------------------------------------------------------------------------
(* The transitions, each over a set of values G that is closed under what   *)
(* objects hold.                                                            *)

Readable(G) == \A r \in G : r # Scalar => Object(heap, r).refs \in Seq(G)

Ready(G) ==
  /\ G \subseteq Refs /\ MachineOver(G) /\ Readable(G)
  /\ AuxTyped /\ Balanced /\ Arguments /\ AuxIntact

\* A transition leaves the machine over G, and what bodies set up in balance.
Stepped(G) == MachineOver(G)' /\ Outcome

LEMMA ReadyFacts ==
  ASSUME NEW G, Ready(G), turn = "Running", Len(frames) > Base
  PROVE  /\ Prepared /\ G \subseteq Refs
         /\ frames \in Seq(FramesOver(G)) /\ frames # <<>>
         /\ Top = Last(frames) /\ Top \in FramesOver(G) /\ Top.cal \in G /\ Top.local \in G
         /\ Top.conts \in Seq(ContsOver(G))
<1>1. frames \in Seq(FramesOver(G)) /\ G \subseteq Refs
  BY DEF Ready, MachineOver
<1>2. frames \in Stacks
  BY <1>1, OverWiden DEF Stacks
<1>3. dyn \in Seq(Refs) /\ foreignRoots \in Seq(Refs) /\ IsSeq(handling)
  BY <1>1, OverWiden DEF Ready, MachineOver
<1>4. Prepared
  BY <1>2, <1>3 DEF Ready, Prepared
<1>5. frames # <<>>
  BY <1>4, PreparedFacts
<1>6. Top = Last(frames) /\ Top \in FramesOver(G)
  BY <1>1, <1>5, LastFacts DEF Top
<1> QED BY <1>1, <1>4, <1>5, <1>6, FrameFacts

LEMMA ReframedWiden ==
  ASSUME NEW G, G \subseteq Refs, NEW fs, NEW gs, Reframed(fs, gs, G)
  PROVE  Reframed(fs, gs, Refs)
BY OverWiden DEF Reframed

\* The transitions that change the frames, the register and the raise alone.
LEMMA PlainStep ==
  ASSUME NEW G, Ready(G), turn = "Running", Len(frames) > Base,
         Reframed(frames, frames', G), Unmoved(frames, frames'), reg' \in G,
         unwind' \in UnwindOver(G, {unwind'.trace}),
         UNCHANGED <<handling, dyn, param, foreignRoots, pending, handles, raised, aux>>
  PROVE  Stepped(G)
<1>1. MachineOver(G) /\ G \subseteq Refs
  BY DEF Ready
<1>2. frames' \in Seq(FramesOver(G))
  BY DEF Reframed
<1>3. MachineOver(G)'
  BY <1>1, <1>2 DEF MachineOver
<1>4. Prepared /\ Reframed(frames, frames', Refs)
  BY <1>1, ReadyFacts, ReframedWiden
<1>5. Outcome
  BY <1>4, QuietOutcome
<1> QED BY <1>3, <1>5 DEF Stepped

LEMMA SameUnwind ==
  ASSUME NEW G, MachineOver(G), unwind' = unwind
  PROVE  unwind' \in UnwindOver(G, {unwind'.trace})
BY DEF MachineOver

LEMMA StatementStep ==
  ASSUME NEW G, Ready(G), Statement
  PROVE  Stepped(G)
<1>1. /\ turn = "Running" /\ Len(frames) > Base
      /\ reg' = Scalar /\ UNCHANGED <<frames, contexts, host>>
  BY DEF Statement, Runs
<1>2. frames \in Seq(FramesOver(G)) /\ MachineOver(G) /\ Scalar \in G
  BY DEF Ready, MachineOver
<1>3. Reframed(frames, frames', G) /\ Unmoved(frames, frames')
  BY <1>1, <1>2, SameFrames
<1>4. unwind' \in UnwindOver(G, {unwind'.trace})
  BY <1>1, <1>2, SameUnwind DEF contexts
<1> QED BY <1>1, <1>2, <1>3, <1>4, PlainStep DEF contexts, host

LEMMA ReadStep ==
  ASSUME NEW G, Ready(G), Read
  PROVE  Stepped(G)
<1>1. /\ turn = "Running" /\ Len(frames) > Base
      /\ UNCHANGED <<frames, contexts, host>>
  BY DEF Read, Runs
<1>2. frames \in Seq(FramesOver(G)) /\ MachineOver(G) /\ param \in G /\ Top.local \in G
  BY <1>1, ReadyFacts DEF Ready, MachineOver
<1>3. Reframed(frames, frames', G) /\ Unmoved(frames, frames')
  BY <1>1, <1>2, SameFrames
<1>4. unwind' \in UnwindOver(G, {unwind'.trace})
  BY <1>1, <1>2, SameUnwind DEF contexts
<1>5. reg' \in G
  <2>1. CASE reg' \in {Top.local, param}
    BY <1>2, <2>1
  <2>2. CASE Top.local # Scalar /\ reg' \in ToSet(Object(heap, Top.local).refs)
    <3>1. Object(heap, Top.local).refs \in Seq(G)
      BY <1>2, <2>2 DEF Ready, Readable
    <3> QED BY <2>2, <3>1 DEF ToSet
  <2> QED BY <2>1, <2>2 DEF Read
<1> QED BY <1>1, <1>3, <1>4, <1>5, PlainStep DEF contexts, host

\* The reference to a new object is outside G: H has it.
LEMMA MakeStep ==
  ASSUME NEW G, Ready(G), NEW H, G \subseteq H, NextRef(heap) \in H, Make
  PROVE  MachineOver(H)' /\ Outcome
<1>1. /\ turn = "Running" /\ Len(frames) > Base /\ reg' = NextRef(heap)
      /\ UNCHANGED <<frames, contexts, host>>
  BY DEF Make, Runs
<1>2. frames \in Seq(FramesOver(G)) /\ MachineOver(G) /\ G \subseteq Refs
  BY DEF Ready, MachineOver
<1>3. Reframed(frames, frames', G) /\ Unmoved(frames, frames')
  BY <1>1, <1>2, SameFrames
<1>4. Outcome
  BY <1>1, <1>2, <1>3, ReadyFacts, ReframedWiden, QuietOutcome DEF contexts, host
<1>5. Seq(FramesOver(G)) \subseteq Seq(FramesOver(H)) /\ Seq(G) \subseteq Seq(H)
  BY OverWiden
<1>6. \A T : UnwindOver(G, T) \subseteq UnwindOver(H, T)
  BY DEF UnwindOver
<1>7. MachineOver(H)'
  BY <1>1, <1>2, <1>5, <1>6 DEF MachineOver, contexts, host
<1> QED BY <1>4, <1>7

LEMMA BindStep ==
  ASSUME NEW G, Ready(G), Bind
  PROVE  Stepped(G)
<1>1. /\ turn = "Running" /\ Len(frames) > Base
      /\ frames' = Append(Front(frames), [Last(frames) EXCEPT !.local = reg])
      /\ reg' = Scalar /\ UNCHANGED <<contexts, host>>
  BY DEF Bind, Runs, WithTop, Top
<1>2. MachineOver(G) /\ reg \in G /\ Scalar \in G
  BY DEF Ready, MachineOver
<1>3. Reframed(frames, frames', G) /\ Unmoved(frames, frames')
  BY <1>1, <1>2, ReadyFacts, Rebind
<1>4. unwind' \in UnwindOver(G, {unwind'.trace})
  BY <1>1, <1>2, SameUnwind DEF contexts
<1> QED BY <1>1, <1>2, <1>3, <1>4, PlainStep DEF contexts, host

LEMMA AppendItemStep ==
  ASSUME NEW G, Ready(G), AppendItem
  PROVE  Stepped(G)
<1>1. /\ turn = "Running" /\ Len(frames) > Base
      /\ reg' = Scalar /\ UNCHANGED <<frames, contexts, host>>
  BY DEF AppendItem, Runs
<1>2. frames \in Seq(FramesOver(G)) /\ MachineOver(G) /\ Scalar \in G
  BY DEF Ready, MachineOver
<1>3. Reframed(frames, frames', G) /\ Unmoved(frames, frames')
  BY <1>1, <1>2, SameFrames
<1>4. unwind' \in UnwindOver(G, {unwind'.trace})
  BY <1>1, <1>2, SameUnwind DEF contexts
<1> QED BY <1>1, <1>2, <1>3, <1>4, PlainStep DEF contexts, host

LEMMA GotCalleeStep ==
  ASSUME NEW G, Ready(G), GotCallee
  PROVE  Stepped(G)
<1>1. /\ turn = "Running" /\ Len(frames) > Base
      /\ frames' = Append(Front(frames), [Last(frames) EXCEPT !.conts = Append(@, Cont("Call", reg, 0))])
      /\ reg' = Scalar /\ UNCHANGED <<contexts, host>>
  BY DEF GotCallee, Runs, WithTop, Top, Push
<1>2. MachineOver(G) /\ reg \in G /\ Scalar \in G
  BY DEF Ready, MachineOver
<1>3. "Call" \in ContKinds /\ 0 \in Nat
  BY DEF ContKinds
<1>4. Topped(frames, frames', "Call", 0, G)
  <2>1. frames \in Seq(FramesOver(G)) /\ frames # <<>> /\ G \subseteq Refs
    BY <1>1, ReadyFacts
  <2> QED BY <1>1, <1>2, <1>3, <2>1, PushCont, Zenon
<1>5. Reframed(frames, frames', G) /\ Unmoved(frames, frames')
  BY <1>4 DEF Topped, Unmoved, Undoable
<1>6. unwind' \in UnwindOver(G, {unwind'.trace})
  BY <1>1, <1>2, SameUnwind DEF contexts
<1> QED BY <1>1, <1>2, <1>4, <1>5, <1>6, PlainStep DEF contexts, host

LEMMA EnterTryStep ==
  ASSUME NEW G, Ready(G), EnterTry
  PROVE  Stepped(G)
<1>1. /\ turn = "Running" /\ Len(frames) > Base
      /\ frames' = Append(Front(frames), [Last(frames) EXCEPT !.conts = Append(@, Cont("Try", Scalar, 0))])
      /\ reg' = reg /\ UNCHANGED <<contexts, host>>
  BY DEF EnterTry, Runs, WithTop, Top, Push
<1>2. MachineOver(G) /\ reg \in G /\ Scalar \in G
  BY DEF Ready, MachineOver
<1>3. "Try" \in ContKinds /\ 0 \in Nat
  BY DEF ContKinds
<1>4. Topped(frames, frames', "Try", 0, G)
  <2>1. frames \in Seq(FramesOver(G)) /\ frames # <<>> /\ G \subseteq Refs
    BY <1>1, ReadyFacts
  <2> QED BY <1>1, <1>2, <1>3, <2>1, PushCont, Zenon
<1>5. Reframed(frames, frames', G) /\ Unmoved(frames, frames')
  BY <1>4 DEF Topped, Unmoved, Undoable
<1>6. unwind' \in UnwindOver(G, {unwind'.trace})
  BY <1>1, <1>2, SameUnwind DEF contexts
<1> QED BY <1>1, <1>2, <1>4, <1>5, <1>6, PlainStep DEF contexts, host

\* The value a pending call waits with is in G.
LEMMA SeatFacts ==
  ASSUME NEW G, Ready(G), turn = "Running", Len(frames) > Base, NEW kind, Seat(kind)
  PROVE  /\ Last(frames).conts # <<>> /\ Last(Last(frames).conts).kind = kind
         /\ Last(Top.conts).val \in G /\ Last(Top.conts).mark \in Nat
         /\ Last(Top.conts) = Top.conts[Len(Top.conts)]
<1>1. Top = Last(frames) /\ Top.conts \in Seq(ContsOver(G))
  BY ReadyFacts
<1>2. Top.conts # <<>> /\ Last(Top.conts).kind = kind
  BY DEF Seat
<1>3. Last(Top.conts) \in ContsOver(G) /\ Last(Top.conts) = Top.conts[Len(Top.conts)]
  BY <1>1, <1>2, LastFacts
<1> QED BY <1>1, <1>2, <1>3 DEF ContsOver

LEMMA CallStep ==
  ASSUME NEW G, Ready(G), Call
  PROVE  Stepped(G)
<1> DEFINE l == Last(frames)
           fs == Append(Front(frames), [l EXCEPT !.conts = Front(@)])
           f == Frame(Last(Top.conts).val, reg)
<1>1. /\ turn = "Running" /\ Len(frames) > Base /\ Seat("Call")
      /\ frames' = Append(fs, f)
      /\ reg' = Scalar /\ UNCHANGED <<contexts, host>>
  BY DEF Call, Runs, WithTop, Top, Popped
<1>2. MachineOver(G) /\ reg \in G /\ Scalar \in G /\ G \subseteq Refs
  BY DEF Ready, MachineOver
<1>3. /\ l.conts # <<>> /\ Last(l.conts).kind = "Call" /\ Last(Top.conts).val \in G
  BY <1>1, SeatFacts
<1>4. f \in FramesOver(G) /\ f.conts = <<>>
  BY <1>2, <1>3, NewFrame
<1>5. /\ Reframed(frames, fs, G)
      /\ \A kind : kind # "Call" => Same(frames, fs, kind)
  BY <1>1, <1>2, <1>3, ReadyFacts, PopCont
<1> HIDE DEF fs, f
<1>6. /\ fs \in Seq(FramesOver(G)) /\ Len(fs) \in Nat /\ Len(fs) >= Len(frames) - 1
      /\ \A i \in 1 .. Len(frames) - 1 : fs[i] = frames[i]
  BY <1>5 DEF Reframed
<1>7. /\ Reframed(fs, frames', G) /\ \A kind : Same(fs, frames', kind)
      /\ \A i \in 1 .. Len(fs) : frames'[i] = fs[i]
      /\ Len(frames') = Len(fs) + 1
  BY <1>1, <1>2, <1>4, <1>6, PushFrame
<1>8. Reframed(frames, frames', G)
  <2>1. Len(frames) \in Nat
    BY <1>1, ReadyFacts, PreparedFacts
  <2>2. frames' \in Seq(FramesOver(G)) /\ Len(frames') \in Nat
    BY <1>7 DEF Reframed
  <2>3. \A i \in 1 .. Len(frames) - 1 : frames'[i] = frames[i]
    BY <1>6, <1>7, <2>1
  <2> QED BY <1>6, <1>7, <2>1, <2>2, <2>3 DEF Reframed
<1>9. Unmoved(frames, frames')
  <2> SUFFICES ASSUME NEW kind \in Undoable PROVE Same(frames, frames', kind)
    BY DEF Unmoved
  <2>1. kind # "Call"
    BY DEF Undoable
  <2>2. Same(frames, fs, kind) /\ Same(fs, frames', kind)
    BY <1>5, <1>7, <2>1
  <2> QED BY <2>2, SameTrans
<1>10. unwind' \in UnwindOver(G, {unwind'.trace})
  BY <1>1, <1>2, SameUnwind DEF contexts
<1> QED BY <1>1, <1>2, <1>8, <1>9, <1>10, PlainStep DEF contexts, host

LEMMA TailCallStep ==
  ASSUME NEW G, Ready(G), TailCall
  PROVE  Stepped(G)
<1> DEFINE f == Frame(Last(Top.conts).val, reg)
<1>1. /\ turn = "Running" /\ Len(frames) > Base /\ Seat("Call") /\ Len(Last(frames).conts) = 1
      /\ frames' = Append(Front(frames), f)
      /\ reg' = Scalar
      /\ UNCHANGED <<unwind, handling, dyn, param, foreignRoots, pending, host>>
  BY DEF TailCall, Runs, WithTop, Top
<1>2. MachineOver(G) /\ reg \in G /\ Scalar \in G /\ G \subseteq Refs
  BY DEF Ready, MachineOver
<1>3. Last(Last(frames).conts).kind = "Call" /\ Last(Top.conts).val \in G
  BY <1>1, SeatFacts
<1>4. f \in FramesOver(G) /\ f.conts = <<>>
  BY <1>2, <1>3, NewFrame
<1> HIDE DEF f
<1>5. Reframed(frames, frames', G) /\ Unmoved(frames, frames')
  BY <1>1, <1>2, <1>3, <1>4, ReadyFacts, Replace
<1>6. unwind' \in UnwindOver(G, {unwind'.trace})
  BY <1>1, <1>2, SameUnwind
<1> QED BY <1>1, <1>2, <1>5, <1>6, PlainStep DEF host

LEMMA ReturnStep ==
  ASSUME NEW G, Ready(G), Return
  PROVE  Stepped(G)
<1>1. /\ turn = "Running" /\ Len(frames) > Base /\ Last(frames).conts = <<>>
      /\ frames' = Front(frames)
      /\ reg' \in {reg, Scalar} /\ UNCHANGED <<contexts, host>>
  BY DEF Return, Runs, Top
<1>2. MachineOver(G) /\ reg \in G /\ Scalar \in G /\ G \subseteq Refs
  BY DEF Ready, MachineOver
<1>3. Reframed(frames, frames', G) /\ Unmoved(frames, frames')
  BY <1>1, <1>2, ReadyFacts, DropFrame
<1>4. unwind' \in UnwindOver(G, {unwind'.trace})
  BY <1>1, <1>2, SameUnwind DEF contexts
<1> QED BY <1>1, <1>2, <1>3, <1>4, PlainStep DEF contexts, host

LEMMA EnterNativeStep ==
  ASSUME NEW G, Ready(G), EnterNative
  PROVE  Stepped(G)
<1>1. /\ turn = "Running" /\ Len(frames) > Base
      /\ frames' = Append(Front(frames),
                          [Last(frames) EXCEPT !.conts =
                             Append(@, Cont("Native", Scalar, Len(foreignRoots)))])
      /\ foreignRoots' = Append(foreignRoots, reg) /\ reg' = Scalar
      /\ UNCHANGED <<unwind, handling, dyn, param, pending, host>>
  BY DEF EnterNative, Runs, WithTop, Top, Push
<1>2. MachineOver(G) /\ reg \in G /\ Scalar \in G /\ foreignRoots \in Seq(G)
  BY DEF Ready, MachineOver
<1>3. "Native" \in ContKinds /\ Len(foreignRoots) \in Nat
  BY <1>2 DEF ContKinds
<1>4. /\ frames \in Seq(FramesOver(G)) /\ frames # <<>> /\ G \subseteq Refs /\ Prepared
  BY <1>1, ReadyFacts
<1>5. Topped(frames, frames', "Native", Len(foreignRoots), G)
  BY <1>1, <1>2, <1>3, <1>4, PushCont, Zenon
<1>6. /\ Reframed(frames, frames', G)
      /\ Same(frames, frames', "With") /\ Same(frames, frames', "Handler")
  BY <1>5 DEF Topped
<1>7. PICK top : Grown(frames, frames', "Native", top, Len(foreignRoots))
  BY <1>5 DEF Topped
<1>8. Outcome
  <2>1. reg \in Refs
    BY <1>2, <1>4
  <2>2. Reframed(frames, frames', Refs)
    BY <1>4, <1>6, ReframedWiden
  <2> QED BY <1>1, <1>4, <1>6, <1>7, <2>1, <2>2, NativeOutcome DEF host
<1>9. MachineOver(G)'
  <2>1. foreignRoots' \in Seq(G) /\ frames' \in Seq(FramesOver(G))
    BY <1>1, <1>2, <1>6 DEF Reframed
  <2> QED BY <1>1, <1>2, <2>1 DEF MachineOver, host
<1> QED BY <1>8, <1>9 DEF Stepped

LEMMA EnterWithStep ==
  ASSUME NEW G, Ready(G), EnterWith
  PROVE  Stepped(G)
<1>1. /\ turn = "Running" /\ Len(frames) > Base
      /\ frames' = Append(Front(frames),
                          [Last(frames) EXCEPT !.conts =
                             Append(@, Cont("With", Scalar, Len(dyn)))])
      /\ dyn' = Append(dyn, param) /\ param' = reg /\ reg' = Scalar
      /\ UNCHANGED <<unwind, handling, foreignRoots, pending, host>>
  BY DEF EnterWith, Runs, WithTop, Top, Push
<1>2. MachineOver(G) /\ reg \in G /\ Scalar \in G /\ dyn \in Seq(G) /\ param \in G
  BY DEF Ready, MachineOver
<1>3. "With" \in ContKinds /\ Len(dyn) \in Nat
  BY <1>2 DEF ContKinds
<1>4. /\ frames \in Seq(FramesOver(G)) /\ frames # <<>> /\ G \subseteq Refs /\ Prepared
  BY <1>1, ReadyFacts
<1>5. Topped(frames, frames', "With", Len(dyn), G)
  BY <1>1, <1>2, <1>3, <1>4, PushCont, Zenon
<1>6. /\ Reframed(frames, frames', G)
      /\ Same(frames, frames', "Native") /\ Same(frames, frames', "Handler")
  BY <1>5 DEF Topped
<1>7. PICK top : Grown(frames, frames', "With", top, Len(dyn))
  BY <1>5 DEF Topped
<1>8. Outcome
  <2>1. param \in Refs
    BY <1>2, <1>4
  <2>2. Reframed(frames, frames', Refs)
    BY <1>4, <1>6, ReframedWiden
  <2> QED BY <1>1, <1>4, <1>6, <1>7, <2>1, <2>2, WithOutcome DEF host
<1>9. MachineOver(G)'
  <2>1. dyn' \in Seq(G) /\ frames' \in Seq(FramesOver(G))
    BY <1>1, <1>2, <1>6 DEF Reframed
  <2> QED BY <1>1, <1>2, <2>1 DEF MachineOver, host
<1> QED BY <1>8, <1>9 DEF Stepped

\* The mark of the last frame's last continuation is beneath the height of the roots.
LEMMA TopMark ==
  ASSUME NEW G, Ready(G), turn = "Running", Len(frames) > Base, Seat("Native")
  PROVE  Last(Top.conts).mark < Len(foreignRoots)
<1> DEFINE n == Len(frames)
           c == Last(frames).conts
           p == <<n, Len(c)>>
<1>1. Prepared /\ frames \in Stacks /\ Top = Last(frames) /\ c \in Seq(ContsOver(G))
  BY ReadyFacts DEF Prepared
<1>2. /\ Above(frames, Len(dyn), Len(foreignRoots), Base, DynFloor, Floor)
      /\ n \in Nat \ {0} /\ frames # <<>>
  BY <1>1, PreparedFacts
<1>3. Last(frames) = frames[n]
  BY <1>1, <1>2, TopPlaces
<1>4. c # <<>> /\ Last(c).kind = "Native" /\ Last(c) = c[Len(c)] /\ Len(c) \in 1 .. Len(c)
  <2>1. c # <<>> /\ Last(c).kind = "Native"
    BY SeatFacts
  <2> HIDE DEF c
  <2>2. Last(c) = c[Len(c)] /\ Len(c) \in Nat \ {0}
    BY <1>1, <2>1, LastFacts
  <2> QED BY <2>1, <2>2
<1>5. p \in Places(frames, "Native")
  <2>1. n \in 1 .. n
    BY <1>2
  <2> HIDE DEF n
  <2>2. Len(c) \in 1 .. Len(frames[n].conts) /\ frames[n].conts[Len(c)].kind = "Native"
    BY <1>3, <1>4
  <2> QED BY <1>1, <2>1, <2>2, PlacesFacts DEF n
<1>6. MarkAt(frames, p) = Last(Top.conts).mark
  BY <1>1, <1>3, <1>4 DEF MarkAt
<1>7. p[1] > Base
  OBVIOUS
<1> QED BY <1>2, <1>5, <1>6, <1>7 DEF Above, Rising

LEMMA InvokeBlockStep ==
  ASSUME NEW G, Ready(G), InvokeBlock
  PROVE  Stepped(G)
<1>1. PICK item \in {Scalar} \cup (IF Last(foreignRoots) = Scalar THEN {}
                                   ELSE ToSet(Object(heap, Last(foreignRoots)).refs)) :
        frames' = Append(frames, Frame(Scalar, item))
  BY Zenon DEF InvokeBlock
<1>2. /\ turn = "Running" /\ Len(frames) > Base /\ Seat("Native")
      /\ reg' = reg /\ UNCHANGED <<contexts, host>>
  BY DEF InvokeBlock, Runs
<1>3. /\ MachineOver(G) /\ reg \in G /\ Scalar \in G /\ G \subseteq Refs
      /\ foreignRoots \in Seq(G) /\ frames \in Seq(FramesOver(G))
  BY DEF Ready, MachineOver
<1>4. Last(foreignRoots) \in G
  <2>1. Last(Top.conts).mark \in Nat /\ Last(Top.conts).mark < Len(foreignRoots)
    BY <1>2, TopMark, SeatFacts
  <2>2. foreignRoots # <<>>
    BY <2>1
  <2> QED BY <1>3, <2>2, LastFacts
<1>5. item \in G
  <2>1. CASE Last(foreignRoots) = Scalar
    BY <1>3, <2>1
  <2>2. CASE Last(foreignRoots) # Scalar
    <3>1. Object(heap, Last(foreignRoots)).refs \in Seq(G)
      BY <1>4, <2>2 DEF Ready, Readable
    <3>2. ToSet(Object(heap, Last(foreignRoots)).refs) \subseteq G
      BY <3>1 DEF ToSet
    <3> QED BY <1>3, <2>2, <3>2
  <2> QED BY <2>1, <2>2
<1>6. Frame(Scalar, item) \in FramesOver(G) /\ Frame(Scalar, item).conts = <<>>
  BY <1>3, <1>5, NewFrame
<1>7. Reframed(frames, frames', G) /\ Unmoved(frames, frames')
  BY <1>1, <1>3, <1>6, PushFrame
<1>8. unwind' \in UnwindOver(G, {unwind'.trace})
  BY <1>2, <1>3, SameUnwind DEF contexts
<1> QED BY <1>2, <1>3, <1>7, <1>8, PlainStep DEF contexts, host

\* What is written back when bodies are undone was saved, and what is in hand was in hand.
LEMMA UndoOver ==
  ASSUME NEW G, Ready(G), turn = "Running", Len(frames) > Base,
         NEW gs, NEW left, left \in Seq(ContsOver(Refs)), Undo(left),
         NEW is, Undone(gs, is)
  PROVE  /\ dyn' \in Seq(G) /\ param' \in G /\ foreignRoots' \in Seq(G)
         /\ IsSeq(is) /\ \A i \in 1 .. Len(is) : is[i].value \in G
<1> DEFINE m == Mark("With", left, Len(dyn))
           n == Mark("Native", left, Len(foreignRoots))
<1>1. /\ dyn \in Seq(G) /\ foreignRoots \in Seq(G) /\ param \in G
      /\ IsSeq(handling) /\ \A i \in 1 .. Len(handling) : handling[i].value \in G
  BY DEF Ready, MachineOver
<1>2. /\ dyn' = SubSeq(dyn, 1, m) /\ param' = ParamAt(m)
      /\ foreignRoots' = SubSeq(foreignRoots, 1, n)
  BY Zenon DEF Undo
<1>3. m \in 0 .. Len(dyn) /\ n \in 0 .. Len(foreignRoots)
  <2>1. Len(dyn) \in Nat /\ Len(foreignRoots) \in Nat
    BY <1>1
  <2>2. m \in Nat /\ m <= Len(dyn) /\ n \in Nat /\ n <= Len(foreignRoots)
    BY <2>1, MarkFacts
  <2> HIDE DEF m, n
  <2> QED BY <2>1, <2>2
<1> HIDE DEF m, n
<1>4. dyn' \in Seq(G) /\ foreignRoots' \in Seq(G)
  BY <1>1, <1>2, <1>3, PrefixFacts
<1>5. param' \in G
  BY <1>1, <1>2, <1>3 DEF ParamAt
<1>6. IsSeq(is) /\ Len(is) <= Len(handling) /\ \A i \in 1 .. Len(is) : is[i] = handling[i]
  BY DEF Undone
<1>7. Len(is) \in Nat /\ Len(handling) \in Nat
  BY <1>1, <1>6, SeqFacts
<1> QED BY <1>1, <1>4, <1>5, <1>6, <1>7

\* The transitions that undo what is left of the last frame.
LEMMA UndoStep ==
  ASSUME NEW G, Ready(G), turn = "Running", Len(frames) > Base,
         Reframed(frames, frames', G), NEW k \in 0 .. Len(Top.conts),
         CutAt(frames, frames', k), NEW left, Topmost(Top.conts, k, left), Undo(left),
         handling' = HandlingWithout(left), reg' \in G,
         unwind' \in UnwindOver(G, {unwind'.trace}), raised'.value \in G,
         UNCHANGED <<pending, handles, aux>>
  PROVE  Stepped(G)
<1>1. MachineOver(G) /\ G \subseteq Refs
  BY DEF Ready
<1>2. frames' \in Seq(FramesOver(G))
  BY DEF Reframed
<1>3. Prepared /\ Reframed(frames, frames', Refs)
  BY <1>1, ReadyFacts, ReframedWiden
<1>4. Outcome
  BY <1>3, UndoOutcome
<1>5. left \in Seq(ContsOver(Refs)) /\ Undone(frames', HandlingWithout(left))
  BY <1>3, ReframedFacts, UndoFacts DEF Topmost
<1>6. /\ dyn' \in Seq(G) /\ param' \in G /\ foreignRoots' \in Seq(G)
      /\ IsSeq(handling') /\ \A i \in 1 .. Len(handling') : handling'[i].value \in G
  BY <1>5, UndoOver
<1>7. MachineOver(G)'
  BY <1>1, <1>2, <1>6 DEF MachineOver
<1> QED BY <1>4, <1>7 DEF Stepped

LEMMA WholePrefix ==
  ASSUME NEW s, IsSeq(s)
  PROVE  SubSeq(s, 1, Len(s)) = s
<1>1. s \in Seq(ToSet(s))
  BY DEF IsSeq
<1> QED BY <1>1

LEMMA PopFacts ==
  ASSUME NEW G, Ready(G), turn = "Running", Len(frames) > Base, Top.conts # <<>>,
         frames' = WithTop(Popped)
  PROVE  /\ Reframed(frames, frames', G) /\ Len(Top.conts) - 1 \in 0 .. Len(Top.conts)
         /\ CutAt(frames, frames', Len(Top.conts) - 1)
         /\ Topmost(Top.conts, Len(Top.conts) - 1, <<Last(Top.conts)>>)
<1>1. /\ frames \in Seq(FramesOver(G)) /\ frames # <<>> /\ G \subseteq Refs
      /\ Top = Last(frames) /\ Top.conts \in Seq(ContsOver(G))
  BY ReadyFacts
<1>2. frames' = Append(Front(frames), [Last(frames) EXCEPT !.conts = Front(@)])
  BY <1>1 DEF WithTop, Popped
<1>3. /\ Reframed(frames, frames', G)
      /\ \A kind : Cut(frames, frames', kind, Len(Top.conts) - 1)
      /\ Len(Top.conts) - 1 \in 0 .. Len(Top.conts)
  BY <1>1, <1>2, PopCont
<1>4. CutAt(frames, frames', Len(Top.conts) - 1)
  BY <1>3 DEF CutAt
<1>5. Topmost(Top.conts, Len(Top.conts) - 1, <<Last(Top.conts)>>)
  BY <1>1, LeftFacts
<1> QED BY <1>3, <1>4, <1>5

\* The end of a native call is the undoing of its continuation alone.
LEMMA LeaveNativeStep ==
  ASSUME NEW G, Ready(G), LeaveNative
  PROVE  Stepped(G)
<1> DEFINE c == Last(Top.conts)
           left == <<c>>
           n == Len(foreignRoots)
<1>1. /\ turn = "Running" /\ Len(frames) > Base /\ Seat("Native")
      /\ frames' = WithTop(Popped) /\ reg' = Scalar
      /\ foreignRoots' = SubSeq(foreignRoots, 1, c.mark)
      /\ UNCHANGED <<unwind, handling, dyn, param, pending, host>>
  BY DEF LeaveNative, Runs
<1>2. /\ MachineOver(G) /\ Scalar \in G /\ dyn \in Seq(G) /\ IsSeq(handling)
      /\ raised.value \in G /\ foreignRoots \in Seq(G)
  BY DEF Ready, MachineOver
<1>3. Top.conts # <<>> /\ c.kind = "Native" /\ c.mark \in Nat /\ c.mark < n
  BY <1>1, SeatFacts, TopMark DEF Seat
<1>4. /\ Reframed(frames, frames', G) /\ Len(Top.conts) - 1 \in 0 .. Len(Top.conts)
      /\ CutAt(frames, frames', Len(Top.conts) - 1)
      /\ Topmost(Top.conts, Len(Top.conts) - 1, left)
  BY <1>1, <1>3, PopFacts
<1>5. left \in Seq(ContsOver(Refs))
  BY <1>4 DEF Topmost
<1>6. Len(left) = 1 /\ left[1] = c /\ DOMAIN left = 1 .. 1
  OBVIOUS
<1>7. n \in Nat /\ Len(dyn) \in Nat
  BY <1>2
<1> HIDE DEF left, c
<1>8. Mark("With", left, Len(dyn)) = Len(dyn)
  <2>1. ~ \E j \in 1 .. Len(left) : left[j].kind = "With"
    BY <1>3, <1>6
  <2> DEFINE m == Mark("With", left, Len(dyn))
  <2>2. m = Len(dyn) \/ \E j \in 1 .. Len(left) : left[j].kind = "With" /\ left[j].mark = m
    BY <1>5, <1>7, MarkFacts
  <2> HIDE DEF m
  <2>3. m = Len(dyn)
    BY <2>1, <2>2
  <2> QED BY <2>3 DEF m
<1>9. Mark("Native", left, n) = c.mark
  <2>1. /\ Mark("Native", left, n) \in Nat
        /\ \A j \in 1 .. Len(left) : left[j].kind = "Native" => Mark("Native", left, n) <= left[j].mark
        /\ \/ Mark("Native", left, n) = n
           \/ \E j \in 1 .. Len(left) : left[j].kind = "Native" /\ left[j].mark = Mark("Native", left, n)
    BY <1>5, <1>7, MarkFacts
  <2> QED BY <1>3, <1>6, <1>7, <2>1
<1>10. Rescues(left) = {}
  BY <1>3, <1>6 DEF Rescues
<1>11. Cardinality(Rescues(left)) = 0
  BY <1>10, FS_EmptySet
<1>12. handling' = HandlingWithout(left)
  <2>1. Len(handling) - Cardinality(Rescues(left)) = Len(handling)
    BY <1>2, <1>11, SeqFacts
  <2> QED BY <1>1, <1>2, <2>1, WholePrefix DEF HandlingWithout
<1>13. Undo(left)
  <2>1. IsSeq(dyn)
    BY <1>2, SeqFacts
  <2>2. dyn' = SubSeq(dyn, 1, Mark("With", left, Len(dyn)))
    BY <1>1, <1>8, <2>1, WholePrefix
  <2>3. param' = ParamAt(Mark("With", left, Len(dyn)))
    BY <1>1, <1>7, <1>8 DEF ParamAt
  <2>4. foreignRoots' = SubSeq(foreignRoots, 1, Mark("Native", left, Len(foreignRoots)))
    BY <1>1, <1>9
  <2> QED BY <2>2, <2>3, <2>4, Zenon DEF Undo
<1>14. unwind' \in UnwindOver(G, {unwind'.trace}) /\ raised'.value \in G
  BY <1>1, <1>2, SameUnwind DEF host
<1>15. Topmost(Top.conts, Len(Top.conts) - 1, left)
  BY <1>4 DEF left
<1> QED BY <1>1, <1>2, <1>4, <1>12, <1>13, <1>14, <1>15, UndoStep DEF host

LEMMA EndBodyStep ==
  ASSUME NEW G, Ready(G), EndBody
  PROVE  Stepped(G)
<1>1. /\ turn = "Running" /\ Len(frames) > Base /\ Top.conts # <<>>
      /\ frames' = WithTop(Popped) /\ reg' = reg
      /\ handling' = HandlingWithout(<<Last(Top.conts)>>) /\ Undo(<<Last(Top.conts)>>)
      /\ UNCHANGED <<unwind, pending, host>>
  BY DEF EndBody, Runs, Seat
<1>2. MachineOver(G) /\ reg \in G /\ raised.value \in G
  BY DEF Ready, MachineOver
<1>3. /\ Reframed(frames, frames', G) /\ Len(Top.conts) - 1 \in 0 .. Len(Top.conts)
      /\ CutAt(frames, frames', Len(Top.conts) - 1)
      /\ Topmost(Top.conts, Len(Top.conts) - 1, <<Last(Top.conts)>>)
  BY <1>1, PopFacts
<1>4. unwind' \in UnwindOver(G, {unwind'.trace}) /\ raised'.value \in G
  BY <1>1, <1>2, SameUnwind DEF host
<1> QED BY <1>1, <1>2, <1>3, <1>4, UndoStep DEF host

LEMMA DropFacts ==
  ASSUME NEW G, Ready(G), turn = "Running", Len(frames) > Base, frames' = Front(frames)
  PROVE  /\ Reframed(frames, frames', G) /\ 0 \in 0 .. Len(Top.conts)
         /\ CutAt(frames, frames', 0) /\ Topmost(Top.conts, 0, Top.conts)
         /\ Len(frames') = Len(frames) - 1
<1>1. /\ frames \in Seq(FramesOver(G)) /\ frames # <<>> /\ G \subseteq Refs
      /\ Top = Last(frames) /\ Top.conts \in Seq(ContsOver(G))
  BY ReadyFacts
<1>2. /\ Reframed(frames, frames', G) /\ \A kind : Cut(frames, frames', kind, 0)
      /\ Len(frames') = Len(frames) - 1
  BY <1>1, DropFrame
<1>3. CutAt(frames, frames', 0)
  BY <1>2 DEF CutAt
<1>4. Topmost(Top.conts, 0, Top.conts)
  BY <1>1, LeftFacts, Zenon
<1>5. 0 \in 0 .. Len(Top.conts)
  <2>1. Len(Top.conts) \in Nat
    BY <1>1
  <2> QED BY <2>1
<1> QED BY <1>2, <1>3, <1>4, <1>5

LEMMA ExitStep ==
  ASSUME NEW G, Ready(G), Exit
  PROVE  Stepped(G)
<1>1. /\ turn = "Running" /\ Len(frames) > Base
      /\ frames' = Front(frames) /\ reg' = reg
      /\ handling' = HandlingWithout(Top.conts) /\ Undo(Top.conts)
      /\ UNCHANGED <<unwind, pending, host>>
  BY DEF Exit, Runs
<1>2. MachineOver(G) /\ reg \in G /\ raised.value \in G
  BY DEF Ready, MachineOver
<1>3. /\ Reframed(frames, frames', G) /\ 0 \in 0 .. Len(Top.conts)
      /\ CutAt(frames, frames', 0) /\ Topmost(Top.conts, 0, Top.conts)
  BY <1>1, DropFacts
<1>4. unwind' \in UnwindOver(G, {unwind'.trace}) /\ raised'.value \in G
  BY <1>1, <1>2, SameUnwind DEF host
<1> QED BY <1>1, <1>2, <1>3, <1>4, UndoStep DEF host

LEMMA RaiseValueStep ==
  ASSUME NEW G, Ready(G), RaiseValue
  PROVE  Stepped(G)
<1>1. /\ turn = "Running" /\ Len(frames) > Base /\ reg' = Scalar
      /\ unwind' = Raise(reg, Capture)
      /\ UNCHANGED <<frames, handling, dyn, param, foreignRoots, pending, host>>
  BY DEF RaiseValue, Runs
<1>2. frames \in Seq(FramesOver(G)) /\ MachineOver(G) /\ Scalar \in G /\ reg \in G
  BY DEF Ready, MachineOver
<1>3. Reframed(frames, frames', G) /\ Unmoved(frames, frames')
  BY <1>1, <1>2, SameFrames
<1>4. unwind' \in UnwindOver(G, {unwind'.trace})
  BY <1>1, <1>2 DEF Raise, UnwindOver
<1> QED BY <1>1, <1>2, <1>3, <1>4, PlainStep DEF host

\* In a rescue body there is an exception in hand.
LEMMA ReraiseStep ==
  ASSUME NEW G, Ready(G), Reraise
  PROVE  Stepped(G)
<1>1. /\ turn = "Running" /\ Len(frames) > Base /\ reg' = reg
      /\ \E c \in ToSet(Top.conts) : c.kind = "Handler"
      /\ unwind' = Raise(Last(handling).value, Last(handling).trace)
      /\ UNCHANGED <<frames, handling, dyn, param, foreignRoots, pending, host>>
  BY DEF Reraise, Runs
<1>2. /\ frames \in Seq(FramesOver(G)) /\ MachineOver(G) /\ reg \in G /\ IsSeq(handling)
      /\ \A i \in 1 .. Len(handling) : handling[i].value \in G
  BY DEF Ready, MachineOver
<1>3. Reframed(frames, frames', G) /\ Unmoved(frames, frames')
  BY <1>1, <1>2, SameFrames
<1>4. Len(handling) > 0
  <2>1. /\ Prepared /\ frames \in Stacks /\ Top = Last(frames)
        /\ Top.conts \in Seq(ContsOver(G))
    BY <1>1, ReadyFacts DEF Prepared
  <2>2. PICK j \in 1 .. Len(Top.conts) : Top.conts[j].kind = "Handler"
    BY <1>1, <2>1 DEF ToSet
  <2>3. /\ Len(frames) \in 1 .. Len(frames) /\ Top = frames[Len(frames)]
        /\ Cardinality(Places(frames, "Handler")) = Len(handling)
    BY <2>1, PreparedFacts, TopPlaces DEF Balance
  <2>4. <<Len(frames), j>> \in Places(frames, "Handler")
    BY <2>1, <2>2, <2>3, PlacesFacts
  <2>5. IsFiniteSet(Places(frames, "Handler")) /\ Cardinality(Places(frames, "Handler")) \in Nat
    BY <2>1, PlacesFinite
  <2>6. Cardinality(Places(frames, "Handler")) # 0
    BY <2>4, <2>5, FS_EmptySet
  <2> QED BY <2>3, <2>5, <2>6
<1>5. Last(handling).value \in G
  <2>1. Len(handling) \in 1 .. Len(handling) /\ Last(handling) = handling[Len(handling)]
    BY <1>2, <1>4, SeqFacts DEF Last
  <2> QED BY <1>2, <2>1
<1>6. unwind' \in UnwindOver(G, {unwind'.trace})
  BY <1>1, <1>5 DEF Raise, UnwindOver
<1> QED BY <1>1, <1>2, <1>3, <1>6, PlainStep DEF host

LEMMA CatchStep ==
  ASSUME NEW G, Ready(G), Catch
  PROVE  Stepped(G)
<1> DEFINE at == Max(Handlers)
           left == SubSeq(Top.conts, at + 1, Len(Top.conts))
           is == HandlingWithout(left)
           e == [value |-> unwind.value, trace |-> unwind.trace]
<1>1. /\ turn = "Running" /\ Len(frames) > Base /\ Handlers # {}
      /\ Undo(left) /\ handling' = Append(is, e)
      /\ frames' = Append(Front(frames),
                     [Top EXCEPT !.local = unwind.value,
                                 !.conts = Append(SubSeq(Top.conts, 1, at - 1),
                                                  Cont("Handler", Scalar, 0))])
      /\ unwind' = NoUnwind
      /\ UNCHANGED <<reg, pending, host>>
  BY Zenon DEF Catch, Unwinds, WithTop
<1>2. /\ MachineOver(G) /\ Scalar \in G /\ unwind.value \in G
  BY DEF Ready, MachineOver, UnwindOver
<1>3. /\ frames \in Seq(FramesOver(G)) /\ frames # <<>> /\ G \subseteq Refs /\ Prepared
      /\ Top = Last(frames) /\ Top.conts \in Seq(ContsOver(G))
  BY <1>1, ReadyFacts
<1>4. at \in 1 .. Len(Top.conts) /\ Top.conts[at].kind = "Try"
  <2>1. DOMAIN Top.conts = 1 .. Len(Top.conts) /\ Len(Top.conts) \in Nat
    BY <1>3
  <2>2. Handlers \subseteq 1 .. Len(Top.conts)
        /\ \A i \in Handlers : Top.conts[i].kind = "Try"
    BY <2>1 DEF Handlers
  <2>3. Max(Handlers) \in Handlers
    <3>1. Handlers \in SUBSET (1 .. Len(Top.conts))
      BY <2>2
    <3> QED BY <1>1, <2>1, <3>1, MaxFacts, Zenon
  <2> QED BY <2>2, <2>3
<1> HIDE DEF at
<1>5. Topmost(Top.conts, at, left)
  BY <1>3, <1>4, LeftFacts
<1> HIDE DEF left, is, e
<1>6. /\ Reframed(frames, frames', G)
      /\ \E hs \in Stacks :
           /\ Reframed(frames, hs, G) /\ CutAt(frames, hs, at)
           /\ Same(hs, frames', "With") /\ Same(hs, frames', "Native")
           /\ \E top : Grown(hs, frames', "Handler", top, 0)
  BY <1>1, <1>2, <1>3, <1>4, Rescue
<1>7. PICK hs \in Stacks :
           /\ Reframed(frames, hs, G) /\ CutAt(frames, hs, at)
           /\ Same(hs, frames', "With") /\ Same(hs, frames', "Native")
           /\ \E top : Grown(hs, frames', "Handler", top, 0)
  BY <1>6
<1>8. PICK top : Grown(hs, frames', "Handler", top, 0)
  BY <1>7
<1>9. Reframed(frames, hs, Refs) /\ Reframed(frames, frames', Refs)
  BY <1>3, <1>6, <1>7, ReframedWiden
<1>10. at \in 0 .. Len(Top.conts)
  BY <1>3, <1>4
<1>11. Outcome
  <2>1. handling' = Append(HandlingWithout(left), e)
    BY <1>1 DEF is
  <2> QED BY <1>1, <1>3, <1>5, <1>7, <1>8, <1>9, <1>10, <2>1, RescueOutcome DEF host
<1>12. left \in Seq(ContsOver(Refs)) /\ Undone(hs, is)
  <2>1. Base <= Len(hs)
    BY <1>3, <1>9, ReframedFacts
  <2> QED BY <1>1, <1>3, <1>5, <1>7, <1>10, <2>1, UndoFacts DEF Topmost, is
<1>13. /\ dyn' \in Seq(G) /\ param' \in G /\ foreignRoots' \in Seq(G)
       /\ IsSeq(is) /\ \A i \in 1 .. Len(is) : is[i].value \in G
  BY <1>1, <1>12, UndoOver
<1>14. IsSeq(handling') /\ \A i \in 1 .. Len(handling') : handling'[i].value \in G
  <2>1. IsSeq(handling')
    BY <1>1, <1>13, SeqFacts
  <2>2. is \in Seq(ToSet(is) \cup {e})
    BY <1>13 DEF IsSeq
  <2>3. /\ Len(handling') = Len(is) + 1 /\ handling'[Len(is) + 1] = e /\ Len(is) \in Nat
        /\ \A i \in 1 .. Len(is) : handling'[i] = is[i]
    BY <1>1, <2>2
  <2>4. e.value \in G
    BY <1>2 DEF e
  <2>5. \A i \in 1 .. Len(handling') : i \in 1 .. Len(is) \/ i = Len(is) + 1
    BY <2>3
  <2> QED BY <1>13, <2>1, <2>3, <2>4, <2>5
<1>15. unwind' \in UnwindOver(G, {unwind'.trace})
  BY <1>1, <1>2 DEF NoUnwind, UnwindOver
<1>16. frames' \in Seq(FramesOver(G))
  BY <1>6 DEF Reframed
<1>17. MachineOver(G)'
  BY <1>1, <1>2, <1>13, <1>14, <1>15, <1>16 DEF MachineOver, host
<1> QED BY <1>11, <1>17 DEF Stepped

LEMMA AbandonStep ==
  ASSUME NEW G, Ready(G), Abandon
  PROVE  Stepped(G)
<1>1. /\ turn = "Running" /\ Len(frames) > Base
      /\ frames' = Front(frames) /\ reg' = reg
      /\ handling' = HandlingWithout(Top.conts) /\ Undo(Top.conts)
      /\ \/ raised' = [value |-> unwind.value, trace |-> unwind.trace] /\ unwind' = NoUnwind
         \/ UNCHANGED <<raised, unwind>>
      /\ UNCHANGED <<pending, handles, aux>>
  BY DEF Abandon, Unwinds
<1>2. MachineOver(G) /\ reg \in G /\ raised.value \in G /\ Scalar \in G /\ unwind.value \in G
  BY DEF Ready, MachineOver, UnwindOver
<1>3. /\ Reframed(frames, frames', G) /\ 0 \in 0 .. Len(Top.conts)
      /\ CutAt(frames, frames', 0) /\ Topmost(Top.conts, 0, Top.conts)
  BY <1>1, DropFacts
<1>4. unwind' \in UnwindOver(G, {unwind'.trace}) /\ raised'.value \in G
  <2>1. NoUnwind \in UnwindOver(G, {NoUnwind.trace})
    BY <1>2 DEF NoUnwind, UnwindOver
  <2>2. CASE raised' = [value |-> unwind.value, trace |-> unwind.trace] /\ unwind' = NoUnwind
    BY <1>2, <2>1, <2>2
  <2>3. CASE UNCHANGED <<raised, unwind>>
    BY <1>2, <2>3, SameUnwind
  <2> QED BY <1>1, <2>2, <2>3
<1> QED BY <1>1, <1>2, <1>3, <1>4, UndoStep

LEMMA SuspendStep ==
  ASSUME NEW G, Ready(G), Suspend
  PROVE  Stepped(G)
<1>1. /\ turn = "Running" /\ Len(frames) > Base /\ reg' = Scalar
      /\ \/ UNCHANGED <<pending, handles>>
         \/ pending' = <<reg>> /\ handles' = handles \cup ({reg} \ {Scalar})
      /\ UNCHANGED <<frames, unwind, handling, dyn, param, foreignRoots, raised, aux>>
  BY DEF Suspend, Runs
<1>2. /\ frames \in Seq(FramesOver(G)) /\ MachineOver(G) /\ G \subseteq Refs
      /\ Scalar \in G /\ reg \in G
  BY DEF Ready, MachineOver
<1>3. Reframed(frames, frames', G) /\ Unmoved(frames, frames')
  BY <1>1, <1>2, SameFrames
<1>4. Outcome
  BY <1>1, <1>2, <1>3, ReadyFacts, ReframedWiden, QuietOutcome
<1>5. pending' \in Seq(G) /\ handles' \subseteq G
  <2>1. <<reg>> \in Seq(G)
    BY <1>2
  <2> QED BY <1>1, <1>2, <2>1 DEF MachineOver
<1>6. MachineOver(G)'
  BY <1>1, <1>2, <1>5 DEF MachineOver
<1> QED BY <1>4, <1>6 DEF Stepped

----------------------------------------------------------------------------
(* A safe point.                                                            *)

\* Without a native call there is none among the continuations.
LEMMA NoNative ==
  ASSUME NEW fs \in Stacks,
         ~ \E f \in ToSet(fs) : \E c \in ToSet(f.conts) : c.kind = "Native"
  PROVE  Places(fs, "Native") = {}
<1>1. /\ DOMAIN fs = 1 .. Len(fs) /\ \A i \in 1 .. Len(fs) : fs[i] \in FramesOver(Refs)
      /\ \A p \in Places(fs, "Native") :
           /\ p[1] \in 1 .. Len(fs) /\ p[2] \in 1 .. Len(fs[p[1]].conts)
           /\ fs[p[1]].conts[p[2]].kind = "Native"
  BY PlacesFacts DEF Stacks
<1>2. \A i \in 1 .. Len(fs) : fs[i] \in ToSet(fs)
  BY <1>1 DEF ToSet
<1>3. \A i \in 1 .. Len(fs) : \A j \in 1 .. Len(fs[i].conts) :
        fs[i].conts[j] \in ToSet(fs[i].conts)
  BY <1>1, FrameFacts DEF ToSet
<1> QED BY <1>1, <1>2, <1>3

LEMMA NoFrames == \A kind : Places(<<>>, kind) = {}
BY DEF Places

\* Where a safe point may stop, no native call is running.
LEMMA OnwardEnding ==
  ASSUME frames' \in Stacks, turn' \in Onward, aux' = aux
  PROVE  Ending
<1> SUFFICES ASSUME ~ aux.on, turn' \in Stopped PROVE Places(frames', "Native") = {}
  BY DEF Ending
<1>1. CASE frames' = <<>>
  BY <1>1, NoFrames
<1>2. CASE frames' # <<>>
  <2>1. ~ Nested'
    BY <1>2 DEF Onward, Stopped
  <2> QED BY <2>1, NoNative DEF Nested
<1> QED BY <1>1, <1>2

LEMMA LeftEnding ==
  ASSUME frames' \in Stacks, NEW h, Left(h), aux' = aux
  PROVE  Ending
<1>1. turn' = "OutOfHeap" \/ turn' \in Onward
  BY DEF Left
<1>2. CASE turn' = "OutOfHeap"
  BY <1>2 DEF Ending, Stopped
<1> QED BY <1>1, <1>2, OnwardEnding

\* What a safe point does to the heap.
LEMMA SafePointCases ==
  ASSUME SafePoint(heap)
  PROVE  /\ UNCHANGED stress
         /\ \/ /\ heap' = heap /\ UNCHANGED <<threshold, finalized>>
               /\ turn' = "Panicked" \/ (Left(heap) /\ ~ Due(heap))
            \/ LET marked == Marked(heap, RootSlots')
                   after == Sweep(heap, marked)
               IN /\ marked \cap Holes(heap) = {}
                  /\ heap' = after /\ Left(after)
                  /\ threshold' = Max({2 * after.bytes, GcMinBytes})
                  /\ Finalize(Finalizers(heap, Swept(heap, marked)))
<1> DEFINE marked == Marked(heap, RootSlots')
           after == Sweep(heap, marked)
<1>1. UNCHANGED stress
  BY Zenon DEF SafePoint
<1>2. CASE Due(heap)
  <2>1. Collect(heap, marked)
    <3>1. PICK m \in {marked} : Collect(heap, m)
      BY <1>2, Zenon DEF SafePoint
    <3>2. m = marked
      OBVIOUS
    <3> HIDE DEF marked
    <3> QED BY <3>1, <3>2
  <2> HIDE DEF marked
  <2>2. CASE marked \cap Holes(heap) # {}
    BY <1>1, <2>1, <2>2 DEF Collect
  <2>3. CASE marked \cap Holes(heap) = {}
    <3>1. /\ \E g \in {after} : Left(g) /\ threshold' = Max({2 * g.bytes, GcMinBytes})
          /\ Finalize(Finalizers(heap, Swept(heap, marked)))
      BY <2>1, <2>3, Zenon DEF Collect
    <3> HIDE DEF after
    <3>2. Left(after) /\ threshold' = Max({2 * after.bytes, GcMinBytes})
      BY <3>1
    <3>3. heap' = after
      BY <3>2, Zenon DEF Left
    <3> QED BY <1>1, <2>3, <3>1, <3>2, <3>3, Zenon DEF marked, after
  <2> QED BY <2>2, <2>3
<1>3. CASE ~ Due(heap)
  <2>1. Left(heap) /\ UNCHANGED <<threshold, finalized>>
    BY <1>3, Zenon DEF SafePoint
  <2> QED BY <1>1, <1>3, <2>1 DEF Left
<1> QED BY <1>2, <1>3

\* What is over G and refers to nothing but members of H is over H.
LEMMA SeqNarrow ==
  ASSUME NEW G, NEW H, NEW s \in Seq(G), ToSet(s) \subseteq H
  PROVE  s \in Seq(H)
<1>1. DOMAIN s = 1 .. Len(s) /\ s = [i \in 1 .. Len(s) |-> s[i]] /\ Len(s) \in Nat
  OBVIOUS
<1>2. \A i \in 1 .. Len(s) : s[i] \in H
  BY <1>1 DEF ToSet
<1> QED BY <1>1, <1>2

LEMMA FrameNarrow ==
  ASSUME NEW G, NEW H, NEW f \in FramesOver(G), FrameRefs(f) \subseteq H
  PROVE  f \in FramesOver(H)
<1>1. /\ f = [cal |-> f.cal, local |-> f.local, conts |-> f.conts]
      /\ f.conts \in Seq(ContsOver(G))
  BY DEF FramesOver
<1>2. f.cal \in H /\ f.local \in H /\ \A c \in ToSet(f.conts) : c.val \in H
  BY DEF FrameRefs
<1>3. \A c \in ContsOver(G) : c.val \in H => c \in ContsOver(H)
  BY DEF ContsOver
<1>4. ToSet(f.conts) \subseteq ContsOver(H)
  BY <1>1, <1>2, <1>3 DEF ToSet
<1>5. f.conts \in Seq(ContsOver(H))
  BY <1>1, <1>4, SeqNarrow
<1> QED BY <1>1, <1>2, <1>5 DEF FramesOver

LEMMA FramesNarrow ==
  ASSUME NEW G, NEW H, NEW fs \in Seq(FramesOver(G)),
         (UNION {FrameRefs(f) : f \in ToSet(fs)}) \subseteq H
  PROVE  fs \in Seq(FramesOver(H))
<1>1. \A f \in ToSet(fs) : f \in FramesOver(G)
  BY DEF ToSet
<1>2. \A f \in ToSet(fs) : FrameRefs(f) \subseteq H
  OBVIOUS
<1>3. ToSet(fs) \subseteq FramesOver(H)
  BY <1>1, <1>2, FrameNarrow
<1> QED BY <1>3, SeqNarrow

LEMMA UnwindNarrow ==
  ASSUME NEW G, NEW H, NEW u, u \in UnwindOver(G, {u.trace}), u.value \in H
  PROVE  u \in UnwindOver(H, {u.trace})
BY DEF UnwindOver

\* The values in use are all that the machine must be over.
LEMMA NarrowOver ==
  ASSUME NEW G, MachineOver(G)', NEW H, Scalar \in H, Stringable \in H, InUse' \subseteq H
  PROVE  MachineOver(H)'
<1>1. /\ frames' \in Seq(FramesOver(G))
      /\ unwind' \in UnwindOver(G, {unwind'.trace})
      /\ IsSeq(handling') /\ dyn' \in Seq(G) /\ foreignRoots' \in Seq(G) /\ pending' \in Seq(G)
      /\ aux'.on => /\ aux'.pending \in Seq(G)
                    /\ aux'.unwind \in UnwindOver(G, {aux'.unwind.trace})
  BY DEF MachineOver
<1>2. /\ UNION {FrameRefs(f) : f \in ToSet(frames')} \subseteq H
      /\ reg' \in H /\ unwind'.value \in H /\ param' \in H
      /\ ToSet(dyn') \subseteq H /\ ToSet(foreignRoots') \subseteq H
      /\ {e.value : e \in ToSet(handling')} \subseteq H
      /\ handles' \subseteq H /\ ToSet(pending') \subseteq H /\ raised'.value \in H
      /\ aux'.on => aux'.reg \in H /\ aux'.unwind.value \in H /\ ToSet(aux'.pending) \subseteq H
  BY DEF InUse
<1>3. frames' \in Seq(FramesOver(H))
  BY <1>1, <1>2, FramesNarrow
<1>4. unwind' \in UnwindOver(H, {unwind'.trace})
  BY <1>1, <1>2, UnwindNarrow
<1>5. dyn' \in Seq(H) /\ foreignRoots' \in Seq(H) /\ pending' \in Seq(H)
  BY <1>1, <1>2, SeqNarrow
<1>6. aux'.on => /\ aux'.pending \in Seq(H)
                 /\ aux'.unwind \in UnwindOver(H, {aux'.unwind.trace})
  BY <1>1, <1>2, SeqNarrow, UnwindNarrow
<1>7. \A i \in 1 .. Len(handling') : handling'[i].value \in H
  <2>1. DOMAIN handling' = 1 .. Len(handling')
    BY <1>1, SeqFacts
  <2>2. \A i \in 1 .. Len(handling') : handling'[i] \in ToSet(handling')
    BY <2>1 DEF ToSet
  <2> QED BY <1>2, <2>2
<1> QED BY <1>1, <1>2, <1>3, <1>4, <1>5, <1>6, <1>7 DEF MachineOver

\* What is in use is over what the machine is over.
LEMMA UsedOver ==
  ASSUME NEW G, MachineOver(G)'
  PROVE  InUse' \subseteq G
<1>1. /\ frames' \in Seq(FramesOver(G))
      /\ unwind' \in UnwindOver(G, {unwind'.trace})
      /\ IsSeq(handling') /\ dyn' \in Seq(G) /\ foreignRoots' \in Seq(G) /\ pending' \in Seq(G)
      /\ \A i \in 1 .. Len(handling') : handling'[i].value \in G
      /\ reg' \in G /\ param' \in G /\ handles' \subseteq G /\ raised'.value \in G
      /\ aux'.on => /\ aux'.pending \in Seq(G) /\ aux'.reg \in G
                    /\ aux'.unwind \in UnwindOver(G, {aux'.unwind.trace})
  BY DEF MachineOver
<1>2. \A s \in Seq(G) : ToSet(s) \subseteq G
  BY DEF ToSet
<1>3. \A f \in ToSet(frames') : FrameRefs(f) \subseteq G
  <2> TAKE f \in ToSet(frames')
  <2>1. f \in FramesOver(G)
    BY <1>1 DEF ToSet
  <2>2. f.cal \in G /\ f.local \in G /\ \A c \in ToSet(f.conts) : c.val \in G
    BY <2>1, FrameFacts DEF ToSet
  <2> QED BY <2>2 DEF FrameRefs
<1>4. \A e \in ToSet(handling') : e.value \in G
  <2>1. DOMAIN handling' = 1 .. Len(handling')
    BY <1>1, SeqFacts
  <2> QED BY <1>1, <2>1 DEF ToSet
<1>5. unwind'.value \in G /\ (aux'.on => aux'.unwind.value \in G)
  BY <1>1 DEF UnwindOver
<1> QED BY <1>1, <1>2, <1>3, <1>4, <1>5 DEF InUse

\* Two sequences in a row.
LEMMA ConcatFacts ==
  ASSUME NEW S, NEW a \in Seq(S), NEW b \in Seq(S)
  PROVE  /\ a \o b \in Seq(S) /\ Len(a \o b) = Len(a) + Len(b)
         /\ \A i \in 1 .. Len(a) : (a \o b)[i] = a[i]
         /\ \A j \in 1 .. Len(b) : (a \o b)[Len(a) + j] = b[j]
OBVIOUS

LEMMA TripleFacts ==
  ASSUME NEW G, NEW a \in Seq(G), NEW r \in G, NEW u \in G, NEW b \in Seq(G)
  PROVE  LET t == a \o <<r, u>> \o b IN
         /\ Len(t) = Len(a) + 2 + Len(b) /\ t[Len(a) + 1] = r /\ t[Len(a) + 2] = u
         /\ \A j \in 1 .. Len(b) : t[Len(a) + 2 + j] = b[j]
<1> DEFINE w == a \o <<r, u>>
<1>1. w \in Seq(G) /\ Len(w) = Len(a) + 2 /\ w[Len(a) + 1] = r /\ w[Len(a) + 2] = u
  OBVIOUS
<1>2. Len(a) \in Nat
  OBVIOUS
<1>3. w \in Seq(G)
  OBVIOUS
<1> HIDE DEF w
<1>4. /\ Len(w \o b) = Len(w) + Len(b) /\ \A i \in 1 .. Len(w) : (w \o b)[i] = w[i]
      /\ \A j \in 1 .. Len(b) : (w \o b)[Len(w) + j] = b[j]
  BY <1>3, ConcatFacts
<1>5. Len(a) + 1 \in 1 .. Len(w) /\ Len(a) + 2 \in 1 .. Len(w)
  BY <1>1, <1>2
<1>6. /\ Len(w \o b) = Len(a) + 2 + Len(b)
      /\ (w \o b)[Len(a) + 1] = r /\ (w \o b)[Len(a) + 2] = u
      /\ \A j \in 1 .. Len(b) : (w \o b)[Len(a) + 2 + j] = b[j]
  BY <1>1, <1>4, <1>5
<1> QED BY <1>6 DEF w

\* The prefix of the native roots that an evaluation has set aside has these values.
LEMMA SetAsideFacts ==
  ASSUME NEW G, NEW was \in Seq(G), NEW r \in G, NEW u \in G, NEW ps \in Seq(G),
         NEW s \in Seq(G), Extends(s, was \o <<r, u>> \o ps)
  PROVE  {r, u} \cup ToSet(ps) \subseteq ToSet(s)
<1> DEFINE n == Len(was)
           m == Len(ps)
           t == was \o <<r, u>> \o ps
<1>1. n \in Nat /\ m \in Nat /\ Len(s) \in Nat /\ DOMAIN s = 1 .. Len(s)
      /\ DOMAIN ps = 1 .. m
  OBVIOUS
<1>2. Len(s) >= Len(t) /\ \A i \in 1 .. Len(t) : s[i] = t[i]
  BY DEF Extends
<1>3. /\ Len(t) = n + 2 + m
      /\ t[n + 1] = r /\ t[n + 2] = u /\ \A j \in 1 .. m : t[n + 2 + j] = ps[j]
  BY TripleFacts
<1> HIDE DEF n, m, t
<1>4. \A i \in 1 .. n + 2 + m : i \in DOMAIN s /\ s[i] = t[i]
  BY <1>1, <1>2, <1>3
<1>5. \A i \in 1 .. n + 2 + m : t[i] \in ToSet(s)
  BY <1>4 DEF ToSet
<1>6. r \in ToSet(s) /\ u \in ToSet(s)
  BY <1>1, <1>3, <1>5
<1>7. \A j \in 1 .. m : ps[j] \in ToSet(s)
  BY <1>1, <1>3, <1>5
<1>8. ToSet(ps) \subseteq ToSet(s)
  BY <1>1, <1>7 DEF ToSet
<1> QED BY <1>6, <1>8

\* Every value in use is a root, or one that an evaluation has set aside among the roots.
LEMMA UsedAreRoots ==
  ASSUME NEW G, G \subseteq Refs, MachineOver(G)', AuxTyped', AuxIntact'
  PROVE  InUse' \subseteq RootRefs' /\ Stringable \in RootRefs'
<1>1. ASSUME aux'.on
      PROVE  {aux'.reg, aux'.unwind.value} \cup ToSet(aux'.pending) \subseteq ToSet(foreignRoots')
  <2>1. /\ aux'.was.foreignRoots \in Seq(Refs) /\ aux'.pending \in Seq(Refs)
        /\ foreignRoots' \in Seq(Refs) /\ aux'.reg \in Refs /\ aux'.unwind.value \in Refs
    BY <1>1, OverWiden DEF AuxTyped, MachineOver, UnwindOver
  <2>2. Extends(foreignRoots',
                aux'.was.foreignRoots \o <<aux'.reg, aux'.unwind.value>> \o aux'.pending)
    BY <1>1 DEF AuxIntact, SetAside
  <2> QED BY <2>1, <2>2, SetAsideFacts
<1>2. InUse' \subseteq RootRefs'
  BY <1>1 DEF InUse, RootRefs, SavedRefs
<1>3. Stringable \in RootRefs'
  BY DEF RootRefs
<1> QED BY <1>2, <1>3

\* A safe point leaves alive what is in use.
LEMMA SafePointSound ==
  ASSUME Sound(heap), NEW G, G = Alive(heap), MachineOver(G)', AuxTyped', AuxIntact',
         SafePoint(heap)
  PROVE  Sound(heap') /\ MachineOver(Alive(heap))'
<1> DEFINE marked == Marked(heap, RootSlots')
<1>1. CASE heap' = heap
  BY <1>1
<1>2. CASE marked \cap Holes(heap) = {} /\ heap' = Sweep(heap, marked)
  <2>1. /\ marked \subseteq SlotsOf(heap) /\ Closed(heap, marked)
        /\ RootSlots' \cap SlotsOf(heap) \subseteq marked
    BY MarkedFacts
  <2>2. G \subseteq Refs /\ heap \in Heaps
    BY DEF Alive, Sound
  <2>3. InUse' \subseteq RootRefs' /\ Stringable \in RootRefs'
    BY <2>2, UsedAreRoots
  <2> HIDE DEF marked
  <2>4. /\ Sound(heap')
        /\ \A r \in Alive(heap) : r = Scalar \/ r.slot \in marked => r \in Alive(heap')
    BY <1>2, <2>1, SweepSound
  <2>5. \A r \in RootRefs' : r \in G => r \in Alive(heap')
    <3> SUFFICES ASSUME NEW r \in RootRefs', r \in G, r # Scalar PROVE r \in Alive(heap')
      BY <2>4
    <3>1. r.slot \in SlotsOf(heap) /\ r.slot # 0
      BY <2>2, LiveFacts DEF Occupied
    <3>2. r.slot \in RootSlots'
      BY <3>1 DEF RootSlots
    <3> QED BY <2>1, <2>4, <3>1, <3>2
  <2>6. InUse' \subseteq G /\ Scalar \in G /\ Stringable \in G
    BY UsedOver DEF MachineOver
  <2>7. Scalar \in Alive(heap')
    BY DEF Alive, Refs, Live
  <2>8. \A H : H = Alive(heap') => MachineOver(H)'
    BY <2>3, <2>5, <2>6, <2>7, NarrowOver
  <2>9. PICK H : H = Alive(heap')
    OBVIOUS
  <2> QED BY <2>4, <2>8
<1> QED BY <1>1, <1>2, SafePointCases

----------------------------------------------------------------------------
(* The transitions keep the invariant.                                      *)

LEMMA InvReady ==
  ASSUME Inv, NEW G, G = Alive(heap)
  PROVE  Ready(G) /\ G \subseteq Refs /\ Scalar \in G
<1>1. Sound(heap) /\ heap \in Heaps
  BY DEF Inv, Sound
<1>2. G \subseteq Refs
  BY DEF Alive
<1>3. Readable(G)
  <2> SUFFICES ASSUME NEW r \in G, r # Scalar PROVE Object(heap, r).refs \in Seq(G)
    BY DEF Readable
  <2>1. r.slot \in SlotsOf(heap)
    BY <1>1, LiveFacts DEF Occupied
  <2> QED BY <1>1, <2>1 DEF Sound, Holding, Object
<1>4. Ready(G)
  BY <1>2, <1>3 DEF Inv, Ready
<1>5. Scalar \in G
  BY <1>4 DEF Ready, MachineOver
<1> QED BY <1>2, <1>4, <1>5

\* What OutcomeKeeps asks for besides the outcome.
LEMMA OverFacts ==
  ASSUME NEW G, G \subseteq Refs, MachineOver(G)'
  PROVE  frames' \in Stacks /\ IsSeq(handling')
<1>1. frames' \in Seq(FramesOver(G)) /\ IsSeq(handling')
  BY DEF MachineOver
<1>2. Seq(FramesOver(G)) \subseteq Seq(FramesOver(Refs))
  BY OverWiden
<1> QED BY <1>1, <1>2 DEF Stacks

LEMMA StepKeeps ==
  ASSUME Inv, NEW G, G = Alive(heap), turn = "Running", Stepped(G), Ending, heap' = heap
  PROVE  Inv'
<1>1. G \subseteq Refs /\ MachineOver(G)' /\ Outcome
  BY DEF Stepped, Alive
<1>2. AuxTyped' /\ Balanced' /\ Arguments' /\ AuxIntact'
  BY <1>1, OverFacts, OutcomeKeeps DEF Inv
<1>3. Sound(heap)' /\ Alive(heap)' = G
  BY DEF Inv
<1>4. MachineOver(Alive(heap))'
  BY <1>1, <1>3
<1> QED BY <1>2, <1>3, <1>4 DEF Inv

LEMMA SafePointEnding ==
  ASSUME frames' \in Stacks, aux' = aux, SafePoint(heap)
  PROVE  Ending
<1>1. CASE turn' = "Panicked"
  BY <1>1 DEF Ending, Stopped
<1>2. CASE Left(heap)
  BY <1>2, LeftEnding
<1>3. CASE Left(Sweep(heap, Marked(heap, RootSlots')))
  BY <1>3, LeftEnding
<1> QED BY <1>1, <1>2, <1>3, SafePointCases

LEMMA SafeStepKeeps ==
  ASSUME Inv, NEW G, G = Alive(heap), turn = "Running", Stepped(G), SafePoint(heap)
  PROVE  Inv'
<1>1. G \subseteq Refs /\ MachineOver(G)' /\ Outcome /\ aux' = aux
  BY DEF Stepped, Alive, Outcome
<1>2. frames' \in Stacks /\ IsSeq(handling')
  BY <1>1, OverFacts
<1>3. AuxTyped' /\ Balanced' /\ Arguments' /\ AuxIntact'
  BY <1>1, <1>2, SafePointEnding, OutcomeKeeps DEF Inv
<1>4. Sound(heap') /\ MachineOver(Alive(heap))'
  BY <1>1, <1>3, SafePointSound DEF Inv
<1> QED BY <1>3, <1>4 DEF Inv

LEMMA MakeKeeps ==
  ASSUME Inv, Make
  PROVE  Inv'
<1>1. PICK G : G = Alive(heap)
  OBVIOUS
<1>2. Ready(G) /\ G \subseteq Refs
  BY <1>1, InvReady
<1>3. /\ turn = "Running" /\ turn' = turn /\ Len(frames) > Base
      /\ \E kind \in Kinds, holds \in Seq(G) : heap' = Alloc(heap, kind, holds)
  <2>1. PICK kind \in Kinds :
          heap' = Alloc(heap, kind, IF kind = "Callable" /\ Top.local # Scalar
                                    THEN <<Top.local>> ELSE <<>>)
    BY Zenon DEF Make
  <2>2. turn = "Running" /\ turn' = turn /\ Len(frames) > Base
    BY DEF Make, Runs
  <2>3. Top.local \in G
    BY <1>2, <2>2, ReadyFacts
  <2> DEFINE holds == IF kind = "Callable" /\ Top.local # Scalar THEN <<Top.local>> ELSE <<>>
  <2>4. holds \in Seq(G)
    BY <2>3
  <2> QED BY <2>1, <2>2, <2>4
<1>4. PICK kind \in Kinds, holds \in Seq(G) : heap' = Alloc(heap, kind, holds)
  BY <1>3
<1>5. Sound(heap') /\ G \subseteq Alive(heap') /\ NextRef(heap) \in Alive(heap')
  BY <1>1, <1>4, AllocSound DEF Inv
<1>6. PICK H : H = Alive(heap')
  OBVIOUS
<1>7. MachineOver(H)' /\ Outcome
  BY <1>2, <1>5, <1>6, MakeStep
<1>8. H \subseteq Refs
  BY <1>6 DEF Alive
<1>9. frames' \in Stacks /\ IsSeq(handling')
  BY <1>7, <1>8, OverFacts
<1>10. Ending
  BY <1>3 DEF Ending, Stopped
<1>11. AuxTyped' /\ Balanced' /\ Arguments' /\ AuxIntact'
  BY <1>3, <1>7, <1>9, <1>10, OutcomeKeeps DEF Inv
<1>12. Sound(heap)' /\ MachineOver(Alive(heap))'
  BY <1>5, <1>6, <1>7
<1> QED BY <1>11, <1>12 DEF Inv

LEMMA AppendItemKeeps ==
  ASSUME Inv, AppendItem
  PROVE  Inv'
<1>1. PICK G : G = Alive(heap)
  OBVIOUS
<1>2. Ready(G) /\ G \subseteq Refs /\ MachineOver(G)
  BY <1>1, InvReady DEF Ready
<1>3. /\ turn = "Running" /\ turn' = turn /\ Len(frames) > Base
      /\ Top.local # Scalar /\ reg \in G
      /\ heap' = ListPush(heap, Top.local, reg)
  BY <1>2 DEF AppendItem, Runs, Is, MachineOver
<1>4. Top.local \in G
  BY <1>2, <1>3, ReadyFacts
<1>5. Sound(heap)' /\ Alive(heap)' = G
  BY <1>1, <1>3, <1>4, PushSound DEF Inv
<1>6. MachineOver(G)' /\ Outcome
  BY <1>2, AppendItemStep DEF Stepped
<1>7. Ending
  BY <1>3 DEF Ending, Stopped
<1>8. AuxTyped' /\ Balanced' /\ Arguments' /\ AuxIntact'
  BY <1>2, <1>3, <1>6, <1>7, OverFacts, OutcomeKeeps DEF Inv
<1>9. MachineOver(Alive(heap))'
  BY <1>5, <1>6
<1> QED BY <1>5, <1>8, <1>9 DEF Inv

\* The program ends with a raise once no frame is left, and a capability that is asked for
\* under a native call is a fault.
LEMMA AbandonKeeps ==
  ASSUME Inv, Abandon
  PROVE  Inv'
<1>1. PICK G : G = Alive(heap)
  OBVIOUS
<1>2. Ready(G)
  BY <1>1, InvReady
<1>3. turn = "Running" /\ heap' = heap /\ aux' = aux /\ Len(frames) > Base
      /\ frames' = Front(frames)
  BY DEF Abandon, Unwinds
<1>4. turn' = turn \/ (Len(frames) = 1 /\ turn' = "Raised")
  BY DEF Abandon
<1>5. Ending
  <2>1. CASE turn' = turn
    BY <1>3, <2>1 DEF Ending, Stopped
  <2>2. CASE Len(frames) = 1
    <3>1. frames \in Seq(FramesOver(G)) /\ frames # <<>>
      BY <1>2, <1>3, ReadyFacts
    <3>2. frames' \in Seq(FramesOver(G)) /\ Len(frames') = 0
      BY <1>3, <2>2, <3>1, FrontFacts
    <3>3. frames' = <<>>
      BY <3>2
    <3> QED BY <3>3, NoFrames DEF Ending
  <2> QED BY <1>4, <2>1, <2>2
<1> QED BY <1>1, <1>2, <1>3, <1>5, AbandonStep, StepKeeps

LEMMA SuspendKeeps ==
  ASSUME Inv, Suspend
  PROVE  Inv'
<1>1. PICK G : G = Alive(heap)
  OBVIOUS
<1>2. Ready(G)
  BY <1>1, InvReady
<1>3. turn = "Running" /\ heap' = heap /\ aux' = aux /\ frames' = frames /\ Len(frames) > Base
  BY DEF Suspend, Runs
<1>4. turn' = "Faulted" \/ ~ Nested
  BY DEF Suspend
<1>5. Ending
  <2>1. CASE turn' = "Faulted"
    BY <2>1 DEF Ending, Stopped
  <2>2. CASE ~ Nested
    <3>1. Places(frames, "Native") = {}
      BY <1>2, <1>3, <2>2, ReadyFacts, NoNative DEF Nested, Prepared
    <3> QED BY <1>3, <3>1 DEF Ending
  <2> QED BY <1>4, <2>1, <2>2
<1> QED BY <1>1, <1>2, <1>3, <1>5, SuspendStep, StepKeeps

\* A transition of the machine.
Transition ==
  \/ Statement \/ Make \/ Read \/ Bind \/ AppendItem
  \/ GotCallee \/ Call \/ TailCall \/ Return \/ Exit
  \/ EnterNative \/ InvokeBlock \/ LeaveNative
  \/ EnterWith \/ EnterTry \/ EndBody
  \/ RaiseValue \/ Reraise \/ Catch \/ Abandon \/ Suspend

LEMMA TransitionKeeps ==
  ASSUME Inv, Transition
  PROVE  Inv'
<1>1. PICK G : G = Alive(heap)
  OBVIOUS
<1>2. Ready(G)
  BY <1>1, InvReady
<1>3. ASSUME turn = "Running", Stepped(G), SafePoint(heap) PROVE Inv'
  BY <1>1, <1>3, SafeStepKeeps
<1>4. ASSUME turn = "Running", turn' = turn, heap' = heap, Stepped(G) PROVE Inv'
  <2>1. Ending
    BY <1>4 DEF Ending, Stopped
  <2> QED BY <1>1, <1>4, <2>1, StepKeeps
<1>5. CASE Statement
  <2>1. turn = "Running" /\ SafePoint(heap)
    BY <1>5 DEF Statement, Runs
  <2> QED BY <1>2, <1>3, <1>5, <2>1, StatementStep
<1>6. CASE Call
  <2>1. turn = "Running" /\ SafePoint(heap)
    BY <1>6 DEF Call, Runs
  <2> QED BY <1>2, <1>3, <1>6, <2>1, CallStep
<1>7. CASE Return
  <2>1. turn = "Running" /\ SafePoint(heap)
    BY <1>7 DEF Return, Runs
  <2> QED BY <1>2, <1>3, <1>7, <2>1, ReturnStep
<1>8. CASE InvokeBlock
  <2>1. turn = "Running" /\ SafePoint(heap)
    BY <1>8 DEF InvokeBlock, Runs
  <2> QED BY <1>2, <1>3, <1>8, <2>1, InvokeBlockStep
<1>9. CASE Exit
  <2>1. turn = "Running" /\ SafePoint(heap)
    BY <1>9 DEF Exit, Runs
  <2> QED BY <1>2, <1>3, <1>9, <2>1, ExitStep
<1>10. CASE Read
  <2>1. turn = "Running" /\ turn' = turn /\ heap' = heap
    BY <1>10 DEF Read, Runs
  <2> QED BY <1>2, <1>4, <1>10, <2>1, ReadStep
<1>11. CASE Bind
  <2>1. turn = "Running" /\ turn' = turn /\ heap' = heap
    BY <1>11 DEF Bind, Runs
  <2> QED BY <1>2, <1>4, <1>11, <2>1, BindStep
<1>12. CASE GotCallee
  <2>1. turn = "Running" /\ turn' = turn /\ heap' = heap
    BY <1>12 DEF GotCallee, Runs
  <2> QED BY <1>2, <1>4, <1>12, <2>1, GotCalleeStep
<1>13. CASE TailCall
  <2>1. turn = "Running" /\ turn' = turn /\ heap' = heap
    BY <1>13 DEF TailCall, Runs
  <2> QED BY <1>2, <1>4, <1>13, <2>1, TailCallStep
<1>14. CASE EnterNative
  <2>1. turn = "Running" /\ turn' = turn /\ heap' = heap
    BY <1>14 DEF EnterNative, Runs
  <2> QED BY <1>2, <1>4, <1>14, <2>1, EnterNativeStep
<1>15. CASE LeaveNative
  <2>1. turn = "Running" /\ turn' = turn /\ heap' = heap
    BY <1>15 DEF LeaveNative, Runs
  <2> QED BY <1>2, <1>4, <1>15, <2>1, LeaveNativeStep
<1>16. CASE EnterWith
  <2>1. turn = "Running" /\ turn' = turn /\ heap' = heap
    BY <1>16 DEF EnterWith, Runs
  <2> QED BY <1>2, <1>4, <1>16, <2>1, EnterWithStep
<1>17. CASE EnterTry
  <2>1. turn = "Running" /\ turn' = turn /\ heap' = heap
    BY <1>17 DEF EnterTry, Runs
  <2> QED BY <1>2, <1>4, <1>17, <2>1, EnterTryStep
<1>18. CASE EndBody
  <2>1. turn = "Running" /\ turn' = turn /\ heap' = heap
    BY <1>18 DEF EndBody, Runs
  <2> QED BY <1>2, <1>4, <1>18, <2>1, EndBodyStep
<1>19. CASE RaiseValue
  <2>1. turn = "Running" /\ turn' = turn /\ heap' = heap
    BY <1>19 DEF RaiseValue, Runs
  <2> QED BY <1>2, <1>4, <1>19, <2>1, RaiseValueStep
<1>20. CASE Reraise
  <2>1. turn = "Running" /\ turn' = turn /\ heap' = heap
    BY <1>20 DEF Reraise, Runs
  <2> QED BY <1>2, <1>4, <1>20, <2>1, ReraiseStep
<1>21. CASE Catch
  <2>1. turn = "Running" /\ turn' = turn /\ heap' = heap
    BY <1>21 DEF Catch, Unwinds
  <2> QED BY <1>2, <1>4, <1>21, <2>1, CatchStep
<1>22. CASE Make
  BY <1>22, MakeKeeps
<1>23. CASE AppendItem
  BY <1>23, AppendItemKeeps
<1>24. CASE Abandon
  BY <1>24, AbandonKeeps
<1>25. CASE Suspend
  BY <1>25, SuspendKeeps
<1> QED
  BY <1>5, <1>6, <1>7, <1>8, <1>9, <1>10, <1>11, <1>12, <1>13, <1>14, <1>15, <1>16, <1>17,
     <1>18, <1>19, <1>20, <1>21, <1>22, <1>23, <1>24, <1>25 DEF Transition

----------------------------------------------------------------------------
(* The steps of the host.                                                   *)

\* Without native calls the roots have nothing of the frames'.
LEMMA NothingAbove ==
  ASSUME NEW fs \in Stacks, NEW ds \in Nat, NEW rs \in Nat, NEW hs,
         Balance(fs, ds, hs), Places(fs, "Native") = {}
  PROVE  Above(fs, ds, rs, 0, 0, 0)
<1>1. Len(fs) \in Nat
  BY DEF Stacks
<1>2. Rising(fs, "Native", 0, 0, rs)
  BY DEF Rising
<1>3. Rising(fs, "With", 0, 0, ds)
  BY DEF Balance
<1> QED BY <1>1, <1>2, <1>3 DEF Above

\* The steps that leave what bodies set up alone.
LEMMA HostKeeps ==
  ASSUME Inv, NEW G, G = Alive(heap), MachineOver(G)', Sound(heap)', Alive(heap)' = G,
         UNCHANGED <<frames, dyn, param, handling, foreignRoots, aux>>,
         \/ turn' = turn
         \/ turn' \notin Stopped \cup {"Running"}
         \/ ~ aux.on /\ Places(frames, "Native") = {}
  PROVE  Inv'
<1>1. Sound(heap)' /\ MachineOver(Alive(heap))'
  OBVIOUS
<1>2. AuxTyped' /\ Balanced' /\ AuxIntact'
  BY DEF Inv, AuxTyped, Balanced, AuxIntact, SetAside
<1>3. Base' = Base /\ DynFloor' = DynFloor /\ Floor' = Floor
  BY DEF Base, DynFloor, Floor, SetAside
<1>4. Arguments'
  <2>1. CASE turn' = turn
    BY <1>3, <2>1 DEF Inv, Arguments
  <2>2. CASE turn' \notin Stopped \cup {"Running"}
    BY <1>3, <2>2 DEF Inv, Arguments
  <2>3. CASE ~ aux.on /\ Places(frames, "Native") = {}
    <3>1. frames \in Stacks /\ Len(dyn) \in Nat /\ Len(foreignRoots) \in Nat
      <4>1. /\ frames \in Seq(FramesOver(G)) /\ G \subseteq Refs
            /\ dyn \in Seq(G) /\ foreignRoots \in Seq(G)
        BY DEF Inv, MachineOver, Alive
      <4>2. Seq(FramesOver(G)) \subseteq Seq(FramesOver(Refs))
        BY <4>1, OverWiden
      <4> QED BY <4>1, <4>2 DEF Stacks
    <3>2. Balance(frames, Len(dyn), Len(handling))
      BY DEF Inv, Balanced
    <3>3. Above(frames, Len(dyn), Len(foreignRoots), 0, 0, 0)
      BY <2>3, <3>1, <3>2, NothingAbove
    <3>4. Base = 0 /\ DynFloor = 0 /\ Floor = 0
      BY <2>3 DEF Base, DynFloor, Floor
    <3> QED BY <1>3, <2>3, <3>3, <3>4 DEF Arguments
  <2> QED BY <2>1, <2>2, <2>3
<1> QED BY <1>1, <1>2, <1>4 DEF Inv

\* Those of them that leave the heap and the machine alone but for the register, the raise,
\* the request and what the host holds.
LEMMA HostOver ==
  ASSUME NEW G, MachineOver(G),
         UNCHANGED <<frames, dyn, param, handling, foreignRoots, aux, raised>>,
         reg' \in G, unwind' \in UnwindOver(G, {unwind'.trace}), pending' \in Seq(G),
         handles' \subseteq G
  PROVE  MachineOver(G)'
BY DEF MachineOver

LEMMA TrapRaiseKeeps ==
  ASSUME Inv, TrapRaise
  PROVE  Inv'
<1>1. PICK G : G = Alive(heap)
  OBVIOUS
<1>2. MachineOver(G) /\ G \subseteq Refs /\ Sound(heap)
  BY <1>1, InvReady DEF Ready, Inv
<1>3. /\ unwind' = [unwind EXCEPT !.trapped = TRUE] /\ ~ aux.on /\ ~ Nested
      /\ UNCHANGED <<heap, frames, reg, handling, dyn, param, foreignRoots, pending,
                     handles, raised, aux>>
  BY DEF TrapRaise, host
<1>4. unwind' \in UnwindOver(G, {unwind'.trace})
  BY <1>2, <1>3 DEF MachineOver, UnwindOver
<1>5. MachineOver(G)'
  BY <1>2, <1>3, <1>4, HostOver DEF MachineOver
<1>6. Places(frames, "Native") = {}
  BY <1>2, <1>3, OverWiden, NoNative DEF Nested, MachineOver, Stacks
<1>7. Sound(heap)' /\ Alive(heap)' = G
  BY <1>1, <1>2, <1>3
<1> QED BY <1>1, <1>3, <1>5, <1>6, <1>7, HostKeeps

LEMMA ResumeKeeps ==
  ASSUME Inv, Resume
  PROVE  Inv'
<1>1. PICK G : G = Alive(heap)
  OBVIOUS
<1>2. MachineOver(G) /\ Sound(heap)
  BY <1>1, InvReady DEF Ready, Inv
<1>3. /\ turn = "Paused" /\ ~ aux.on
      /\ UNCHANGED <<heap, frames, reg, unwind, handling, dyn, param, foreignRoots, pending,
                     handles, raised, aux>>
  BY DEF Resume, contexts, host
<1>4. MachineOver(G)'
  BY <1>2, <1>3, HostOver DEF MachineOver
<1>5. Places(frames, "Native") = {}
  BY <1>3 DEF Inv, Arguments, Stopped
<1>6. Sound(heap)' /\ Alive(heap)' = G
  BY <1>1, <1>2, <1>3
<1> QED BY <1>1, <1>3, <1>4, <1>5, <1>6, HostKeeps

LEMMA ResolveKeeps ==
  ASSUME Inv, Resolve
  PROVE  Inv'
<1>1. PICK G : G = Alive(heap)
  OBVIOUS
<1>2. MachineOver(G) /\ Sound(heap) /\ Scalar \in G /\ handles \subseteq G
  BY <1>1, InvReady DEF Ready, Inv, MachineOver
<1>3. /\ turn = "Suspended" /\ ~ aux.on /\ pending' = <<>>
      /\ UNCHANGED <<heap, frames, handling, dyn, param, foreignRoots, handles, raised, aux>>
  BY DEF Resolve, host
<1>4. PICK v \in handles \cup {Scalar} :
        \/ reg' = v /\ UNCHANGED unwind
        \/ unwind' = Raise(v, Capture) /\ UNCHANGED reg
  BY Zenon DEF Resolve
<1>5. v \in G
  BY <1>2
<1>6. reg' \in G /\ unwind' \in UnwindOver(G, {unwind'.trace}) /\ pending' \in Seq(G)
  <2>1. CASE reg' = v /\ UNCHANGED unwind
    BY <1>2, <1>3, <1>5, <2>1 DEF MachineOver
  <2>2. CASE unwind' = Raise(v, Capture) /\ UNCHANGED reg
    BY <1>2, <1>3, <1>5, <2>2 DEF MachineOver, Raise, UnwindOver
  <2> QED BY <1>4, <2>1, <2>2
<1>7. MachineOver(G)'
  BY <1>2, <1>3, <1>6, HostOver
<1>8. Places(frames, "Native") = {}
  BY <1>3 DEF Inv, Arguments, Stopped
<1>9. Sound(heap)' /\ Alive(heap)' = G
  BY <1>1, <1>2, <1>3
<1> QED BY <1>1, <1>3, <1>7, <1>8, <1>9, HostKeeps

LEMMA HoldKeeps ==
  ASSUME Inv, Hold
  PROVE  Inv'
<1>1. PICK G : G = Alive(heap)
  OBVIOUS
<1>2. MachineOver(G) /\ Sound(heap) /\ frames \in Seq(FramesOver(G)) /\ raised.value \in G
  BY <1>1, InvReady DEF Ready, Inv, MachineOver
<1>3. /\ UNCHANGED <<heap, frames, reg, unwind, handling, dyn, param, foreignRoots, pending,
                     raised, aux, turn>>
      /\ \E v \in (UNION {{f.cal, f.local} : f \in ToSet(frames)}) \cup {raised.value} :
           handles' = handles \cup {v}
  BY DEF Hold, contexts
<1>4. \A f \in ToSet(frames) : f.cal \in G /\ f.local \in G
  <2> TAKE f \in ToSet(frames)
  <2>1. f \in FramesOver(G)
    BY <1>2 DEF ToSet
  <2> QED BY <2>1, FrameFacts
<1>5. handles' \subseteq G
  BY <1>2, <1>3, <1>4 DEF MachineOver
<1>6. MachineOver(G)'
  BY <1>2, <1>3, <1>5, HostOver DEF MachineOver
<1>7. Sound(heap)' /\ Alive(heap)' = G
  BY <1>1, <1>2, <1>3
<1> QED BY <1>1, <1>3, <1>6, <1>7, HostKeeps

\* The steps that change nothing the machine is over, unless it lets go of a handle.
LEMMA LooseKeeps ==
  ASSUME Inv, ReadTrace \/ Release \/ AuxBudget
  PROVE  Inv'
<1>1. PICK G : G = Alive(heap)
  OBVIOUS
<1>2. MachineOver(G) /\ Sound(heap)
  BY <1>1, InvReady DEF Ready, Inv
<1>3. /\ UNCHANGED <<heap, frames, reg, unwind, handling, dyn, param, foreignRoots, pending,
                     raised, aux>>
      /\ turn' \in {turn, "Panicked", "Faulted"} /\ handles' \subseteq handles
  BY DEF ReadTrace, Release, AuxBudget, contexts, host
<1>4. MachineOver(G)'
  BY <1>2, <1>3, HostOver DEF MachineOver
<1>5. Sound(heap)' /\ Alive(heap)' = G
  BY <1>1, <1>2, <1>3
<1>6. turn' = turn \/ turn' \notin Stopped \cup {"Running"}
  BY <1>3 DEF Stopped
<1> QED BY <1>1, <1>3, <1>4, <1>5, <1>6, HostKeeps

LEMMA DestroyKeeps ==
  ASSUME Inv, Destroy
  PROVE  Inv'
<1>1. PICK G : G = Alive(heap)
  OBVIOUS
<1>2. MachineOver(G) /\ Sound(heap)
  BY <1>1, InvReady DEF Ready, Inv
<1>3. /\ heap' = FinalizeAll(heap) /\ turn' = "Destroyed"
      /\ UNCHANGED <<frames, reg, unwind, handling, dyn, param, foreignRoots, pending,
                     raised, aux, handles>>
  BY DEF Destroy, contexts, host
<1>4. MachineOver(G)'
  BY <1>2, <1>3, HostOver DEF MachineOver
<1>5. Sound(heap)' /\ Alive(heap)' = G
  BY <1>1, <1>2, <1>3, DropSound
<1> QED BY <1>1, <1>3, <1>4, <1>5, HostKeeps DEF Stopped

----------------------------------------------------------------------------
(* Auxiliary evaluation.                                                    *)

\* What the native roots hold during an evaluation begins with what is set aside.
Aside(s, t, roots, G) ==
  /\ s = t /\ s \in Seq(G) /\ Len(t) \in Nat
  /\ Len(roots) \in 0 .. Len(t) /\ \A i \in 1 .. Len(roots) : t[i] = roots[i]

LEMMA AsideFacts ==
  ASSUME NEW G, NEW roots \in Seq(G), NEW r \in G, NEW u \in G, NEW ps \in Seq(G)
  PROVE  Aside(roots \o (<<r, u>> \o ps), roots \o <<r, u>> \o ps, roots, G)
<1> DEFINE k == <<r, u>>
           w == k \o ps
           x == roots \o k
           s == roots \o w
           t == x \o ps
<1>1. k \in Seq(G) /\ Len(k) = 2 /\ Len(roots) \in Nat /\ Len(ps) \in Nat
  OBVIOUS
<1>2. k \in Seq(G)
  OBVIOUS
<1> HIDE DEF k
<1>3. w \in Seq(G)
  BY <1>2, ConcatFacts
<1>4. /\ Len(w) = 2 + Len(ps) /\ \A i \in 1 .. 2 : w[i] = k[i]
      /\ \A j \in 1 .. Len(ps) : w[2 + j] = ps[j]
  <2>1. /\ Len(w) = Len(k) + Len(ps) /\ \A i \in 1 .. Len(k) : w[i] = k[i]
        /\ \A j \in 1 .. Len(ps) : w[Len(k) + j] = ps[j]
    BY <1>2, ConcatFacts
  <2> HIDE DEF w
  <2> QED BY <1>1, <2>1
<1>5. x \in Seq(G)
  BY <1>2, ConcatFacts
<1>6. /\ Len(x) = Len(roots) + 2 /\ \A i \in 1 .. Len(roots) : x[i] = roots[i]
      /\ \A j \in 1 .. 2 : x[Len(roots) + j] = k[j]
  <2>1. /\ Len(x) = Len(roots) + Len(k) /\ \A i \in 1 .. Len(roots) : x[i] = roots[i]
        /\ \A j \in 1 .. Len(k) : x[Len(roots) + j] = k[j]
    BY <1>2, ConcatFacts
  <2> HIDE DEF x
  <2> QED BY <1>1, <2>1
<1> HIDE DEF w, x
<1>7. s \in Seq(G)
  BY <1>3, ConcatFacts
<1>8. /\ Len(s) = Len(roots) + Len(w) /\ \A i \in 1 .. Len(roots) : s[i] = roots[i]
      /\ \A j \in 1 .. Len(w) : s[Len(roots) + j] = w[j]
  BY <1>3, ConcatFacts
<1>9. t \in Seq(G)
  BY <1>5, ConcatFacts
<1>10. /\ Len(t) = Len(x) + Len(ps) /\ \A i \in 1 .. Len(x) : t[i] = x[i]
       /\ \A j \in 1 .. Len(ps) : t[Len(x) + j] = ps[j]
  BY <1>5, ConcatFacts
<1> HIDE DEF s, t
<1>11. Len(s) = Len(t) /\ Len(t) \in Nat /\ Len(roots) \in 0 .. Len(t)
  BY <1>1, <1>4, <1>6, <1>8, <1>10
<1>12. \A i \in 1 .. Len(roots) : s[i] = roots[i] /\ t[i] = roots[i]
  BY <1>1, <1>6, <1>8, <1>10
<1>13. \A j \in 1 .. 2 : s[Len(roots) + j] = k[j] /\ t[Len(roots) + j] = k[j]
  BY <1>1, <1>4, <1>6, <1>8, <1>10
<1>14. \A j \in 1 .. Len(ps) : s[Len(roots) + 2 + j] = ps[j] /\ t[Len(roots) + 2 + j] = ps[j]
  <2> TAKE j \in 1 .. Len(ps)
  <2>1. 2 + j \in 1 .. Len(w) /\ Len(roots) + (2 + j) = Len(roots) + 2 + j
    BY <1>1, <1>4
  <2>2. s[Len(roots) + (2 + j)] = w[2 + j]
    BY <1>8, <2>1
  <2>3. t[Len(roots) + 2 + j] = ps[j]
    BY <1>6, <1>10
  <2> QED BY <1>4, <2>1, <2>2, <2>3
<1>15. \A i \in 1 .. Len(t) : s[i] = t[i]
  <2> TAKE i \in 1 .. Len(t)
  <2>1. i \in Nat /\ i >= 1
    BY <1>11
  <2>2. CASE i <= Len(roots)
    BY <1>1, <1>12, <2>1, <2>2
  <2>3. CASE i = Len(roots) + 1 \/ i = Len(roots) + 2
    BY <1>13, <2>3
  <2>4. CASE i > Len(roots) + 2
    <3>1. Len(t) = Len(roots) + 2 + Len(ps)
      BY <1>6, <1>10
    <3>2. PICK j \in 1 .. Len(ps) : i = Len(roots) + 2 + j
      <4> DEFINE j == i - (Len(roots) + 2)
      <4>1. j \in 1 .. Len(ps) /\ i = Len(roots) + 2 + j
        BY <1>1, <2>1, <2>4, <3>1
      <4> QED BY <4>1
    <3> QED BY <1>14, <3>2
  <2> QED BY <1>1, <2>1, <2>2, <2>3, <2>4
<1>16. s = t
  BY <1>7, <1>9, <1>11, <1>15
<1> QED BY <1>7, <1>11, <1>12, <1>16 DEF Aside, s, t, w, x, k

LEMMA BeginAuxKeeps ==
  ASSUME Inv, BeginAux
  PROVE  Inv'
<1> DEFINE roots == IF Faults THEN <<>> ELSE foreignRoots
<1>1. PICK G : G = Alive(heap)
  OBVIOUS
<1>2. Ready(G) /\ MachineOver(G) /\ G \subseteq Refs /\ Sound(heap) /\ Scalar \in G
  BY <1>1, InvReady DEF Ready, Inv
<1>3. /\ Stops
      /\ aux' = [on |-> TRUE, reg |-> reg, unwind |-> unwind, pending |-> pending,
                 ring |-> ring, threshold |-> threshold, turn |-> turn,
                 base |-> Len(frames), handling |-> Len(handling), dyn |-> Len(dyn),
                 foreign |-> Len(roots),
                 was |-> [frames |-> frames, handling |-> handling, dyn |-> dyn,
                          param |-> param, foreignRoots |-> roots]]
      /\ foreignRoots' = roots \o (<<reg, unwind.value>> \o pending)
      /\ unwind' = NoUnwind /\ pending' = <<>>
      /\ UNCHANGED <<heap, reg, handling, dyn, param, handles, raised>>
  BY Zenon DEF BeginAux, Kept
<1>4. PICK v \in handles : frames' = Append(frames, Frame(Stringable, v))
  BY Zenon DEF BeginAux
<1> HIDE DEF roots
<1>5. /\ aux'.on = TRUE /\ aux'.reg = reg /\ aux'.unwind = unwind /\ aux'.pending = pending
      /\ aux'.turn = turn /\ aux'.base = Len(frames) /\ aux'.handling = Len(handling)
      /\ aux'.dyn = Len(dyn) /\ aux'.foreign = Len(roots)
      /\ aux'.was = [frames |-> frames, handling |-> handling, dyn |-> dyn,
                     param |-> param, foreignRoots |-> roots]
  BY <1>3
<1>6. /\ aux'.was.frames = frames /\ aux'.was.handling = handling /\ aux'.was.dyn = dyn
      /\ aux'.was.param = param /\ aux'.was.foreignRoots = roots
  BY <1>5
<1>7. ~ aux.on /\ turn # "Running"
  BY <1>3 DEF Stops, Faults
<1>8. /\ frames \in Seq(FramesOver(G)) /\ reg \in G /\ param \in G
      /\ unwind \in UnwindOver(G, {unwind.trace}) /\ unwind.value \in G
      /\ IsSeq(handling) /\ dyn \in Seq(G) /\ foreignRoots \in Seq(G) /\ pending \in Seq(G)
      /\ handles \subseteq G /\ Stringable \in G
  BY <1>2 DEF MachineOver, UnwindOver
<1>9. /\ frames \in Stacks /\ dyn \in Seq(Refs)
      /\ Len(frames) \in Nat /\ Len(dyn) \in Nat /\ Len(handling) \in Nat
  BY <1>2, <1>8, OverWiden, SeqFacts DEF Stacks
<1>10. roots \in Seq(G)
  BY <1>8 DEF roots
<1>11. roots \in Seq(Refs)
  BY <1>2, <1>10, OverWiden
<1>12. /\ SetAside' = roots \o <<reg, unwind.value>> \o pending
       /\ foreignRoots' = SetAside' /\ foreignRoots' \in Seq(G)
       /\ Len(SetAside') \in Nat
  <2>1. SetAside' = roots \o <<reg, unwind.value>> \o pending
    BY <1>5, <1>6 DEF SetAside
  <2>2. /\ roots \o (<<reg, unwind.value>> \o pending) = roots \o <<reg, unwind.value>> \o pending
        /\ roots \o (<<reg, unwind.value>> \o pending) \in Seq(G)
        /\ Len(roots \o <<reg, unwind.value>> \o pending) \in Nat
    <3>1. Aside(roots \o (<<reg, unwind.value>> \o pending),
                roots \o <<reg, unwind.value>> \o pending, roots, G)
      BY <1>8, <1>10, AsideFacts
    <3> QED BY <3>1, Zenon DEF Aside
  <2> QED BY <1>3, <2>1, <2>2
<1>13. Frame(Stringable, v) \in FramesOver(G) /\ Frame(Stringable, v).conts = <<>>
  BY <1>2, <1>4, <1>8, NewFrame
<1>14. /\ Reframed(frames, frames', G) /\ Unmoved(frames, frames')
       /\ \A kind : Same(frames, frames', kind)
       /\ \A i \in 1 .. Len(frames) : frames'[i] = frames[i]
       /\ Len(frames') = Len(frames) + 1
  BY <1>2, <1>4, <1>8, <1>13, PushFrame
<1>15. frames' \in Seq(FramesOver(G)) /\ frames' \in Stacks
  BY <1>2, <1>14, OverWiden DEF Reframed, Stacks
<1>16. MachineOver(G)'
  <2>1. unwind' \in UnwindOver(G, {unwind'.trace}) /\ pending' \in Seq(G)
    BY <1>3, <1>8, <1>2 DEF NoUnwind, UnwindOver
  <2> QED BY <1>2, <1>3, <1>5, <1>8, <1>12, <1>15, <2>1 DEF MachineOver
<1>17. Sound(heap)' /\ MachineOver(Alive(heap))'
  BY <1>1, <1>2, <1>3, <1>16
<1>18. AuxTyped'
  BY <1>5, <1>6, <1>7, <1>8, <1>9, <1>11 DEF AuxTyped
<1>19. Balance(frames, Len(dyn), Len(handling)) /\ BoundAt(dyn, param, 0) = Scalar
  BY DEF Inv, Balanced
<1>20. Balance(frames', Len(dyn'), Len(handling'))
  <2>1. Balance(frames', Len(dyn), Len(handling))
    BY <1>9, <1>14, <1>15, <1>19, QuietKeeps DEF Unmoved
  <2> QED BY <1>3, <2>1
<1>21. Balanced'
  BY <1>3, <1>19, <1>20 DEF Balanced
<1>22. Arguments'
  <2>1. Base' = Len(frames) /\ DynFloor' = Len(dyn) /\ Floor' = Len(SetAside')
    BY <1>5 DEF Base, DynFloor, Floor
  <2>2. \A kind : \A p \in Places(frames', kind) : ~ (p[1] > Len(frames))
    <3>1. \A kind : Places(frames', kind) = Places(frames, kind)
      BY <1>14 DEF Same
    <3>2. \A kind : \A p \in Places(frames, kind) : p[1] \in 1 .. Len(frames)
      BY <1>9, PlacesFacts
    <3> QED BY <1>9, <3>1, <3>2
  <2>3. \A kind, lo, n : Rising(frames', kind, Len(frames), lo, n)
    BY <2>2 DEF Rising
  <2>4. Above(frames', Len(dyn'), Len(foreignRoots'), Len(frames), Len(dyn), Len(SetAside'))
    BY <1>3, <1>9, <1>12, <1>14, <2>3 DEF Above
  <2> QED BY <1>5, <2>1, <2>4 DEF Arguments
<1>23. AuxIntact'
  <2>1. turn \in Stopped => Places(frames, "Native") = {}
    BY <1>7 DEF Inv, Arguments
  <2>2. Extends(frames', frames) /\ Extends(handling', handling) /\ Extends(dyn', dyn)
    BY <1>3, <1>9, <1>14 DEF Extends
  <2>3. Extends(foreignRoots', SetAside')
    BY <1>12 DEF Extends
  <2>4. BoundAt(dyn', param', Len(dyn)) = param
    BY <1>3, <1>9 DEF BoundAt
  <2> QED BY <1>5, <1>6, <1>19, <2>1, <2>2, <2>3, <2>4 DEF AuxIntact
<1> QED BY <1>17, <1>18, <1>21, <1>22, <1>23 DEF Inv

\* What an evaluation has set aside is put back as it was.
LEMMA EndAuxRestores ==
  ASSUME Inv, EndAux
  PROVE  /\ aux.on /\ aux'.on = FALSE
         /\ frames' = aux.was.frames /\ handling' = aux.was.handling /\ dyn' = aux.was.dyn
         /\ param' = aux.was.param /\ foreignRoots' = aux.was.foreignRoots
         /\ aux.foreign \in 0 .. Len(foreignRoots)
<1>1. /\ aux.on /\ aux' = NoAux
      /\ frames' = SubSeq(frames, 1, aux.base)
      /\ dyn' = SubSeq(dyn, 1, aux.dyn) /\ param' = ParamAt(aux.dyn)
      /\ handling' = SubSeq(handling, 1, aux.handling)
      /\ foreignRoots' = SubSeq(foreignRoots, 1, aux.foreign)
  BY DEF EndAux
<1>2. /\ aux.was.frames \in Stacks /\ aux.was.dyn \in Seq(Refs)
      /\ aux.was.foreignRoots \in Seq(Refs) /\ IsSeq(aux.was.handling)
      /\ aux.base = Len(aux.was.frames) /\ aux.handling = Len(aux.was.handling)
      /\ aux.dyn = Len(aux.was.dyn) /\ aux.foreign = Len(aux.was.foreignRoots)
  BY <1>1 DEF Inv, AuxTyped
<1>3. /\ Extends(frames, aux.was.frames) /\ Extends(handling, aux.was.handling)
      /\ Extends(dyn, aux.was.dyn) /\ Extends(foreignRoots, SetAside)
      /\ BoundAt(dyn, param, aux.dyn) = aux.was.param
  BY <1>1 DEF Inv, AuxIntact
<1>4. PICK G : G = Alive(heap)
  OBVIOUS
<1>5. MachineOver(G) /\ G \subseteq Refs
  BY <1>4, InvReady DEF Ready
<1>6. /\ foreignRoots \in Seq(Refs) /\ aux.reg \in Refs /\ aux.unwind.value \in Refs
      /\ aux.pending \in Seq(Refs)
  BY <1>1, <1>5, OverWiden DEF MachineOver, UnwindOver
<1>7. IsSeq(frames) /\ IsSeq(dyn) /\ IsSeq(handling) /\ IsSeq(foreignRoots)
  BY <1>5, SeqFacts DEF MachineOver
<1>8. IsSeq(aux.was.frames) /\ IsSeq(aux.was.dyn) /\ IsSeq(aux.was.foreignRoots)
  BY <1>2, SeqFacts DEF Stacks
<1>9. Extends(foreignRoots, aux.was.foreignRoots)
  <2> DEFINE a == aux.was.foreignRoots
  <2>1. /\ Len(a) \in 0 .. Len(SetAside) /\ \A i \in 1 .. Len(a) : SetAside[i] = a[i]
        /\ Len(SetAside) \in Nat
    <3>1. Aside(a \o (<<aux.reg, aux.unwind.value>> \o aux.pending), SetAside, a, Refs)
      BY <1>2, <1>6, AsideFacts DEF SetAside
    <3> QED BY <3>1, Zenon DEF Aside
  <2>2. Len(foreignRoots) >= Len(SetAside)
        /\ \A i \in 1 .. Len(SetAside) : foreignRoots[i] = SetAside[i]
    BY <1>3 DEF Extends
  <2>3. Len(foreignRoots) \in Nat
    BY <1>6
  <2> HIDE DEF a
  <2>4. Len(foreignRoots) >= Len(a) /\ \A i \in 1 .. Len(a) : foreignRoots[i] = a[i]
    BY <2>1, <2>2, <2>3
  <2> QED BY <2>4 DEF a, Extends
<1>10. frames' = aux.was.frames
  BY <1>1, <1>2, <1>3, <1>7, <1>8, ExtendsFacts
<1>11. handling' = aux.was.handling
  BY <1>1, <1>2, <1>3, <1>7, <1>8, ExtendsFacts
<1>12. dyn' = aux.was.dyn
  BY <1>1, <1>2, <1>3, <1>7, <1>8, ExtendsFacts
<1>13. foreignRoots' = aux.was.foreignRoots /\ aux.foreign \in 0 .. Len(foreignRoots)
  BY <1>1, <1>2, <1>7, <1>8, <1>9, ExtendsFacts
<1>14. param' = aux.was.param
  BY <1>1, <1>3 DEF ParamAt, BoundAt
<1>15. aux'.on = FALSE
  BY <1>1 DEF NoAux
<1> QED BY <1>1, <1>10, <1>11, <1>12, <1>13, <1>14, <1>15

LEMMA EndAuxKeeps ==
  ASSUME Inv, EndAux
  PROVE  Inv'
<1>1. PICK G : G = Alive(heap)
  OBVIOUS
<1>2. MachineOver(G) /\ G \subseteq Refs /\ Sound(heap)
  BY <1>1, InvReady DEF Ready, Inv
<1>3. /\ aux.on /\ aux'.on = FALSE
      /\ frames' = aux.was.frames /\ handling' = aux.was.handling /\ dyn' = aux.was.dyn
      /\ param' = aux.was.param /\ foreignRoots' = aux.was.foreignRoots
      /\ aux.foreign \in 0 .. Len(foreignRoots)
  BY EndAuxRestores
<1>4. /\ frames' = SubSeq(frames, 1, aux.base)
      /\ dyn' = SubSeq(dyn, 1, aux.dyn) /\ param' = ParamAt(aux.dyn)
      /\ handling' = SubSeq(handling, 1, aux.handling)
      /\ foreignRoots' = SubSeq(foreignRoots, 1, aux.foreign)
      /\ reg' = aux.reg /\ unwind' = aux.unwind /\ pending' = aux.pending
      /\ turn' = aux.turn /\ heap' = heap /\ raised' = raised
      /\ handles' \subseteq handles \cup {unwind.value, reg}
  BY DEF EndAux
<1>5. /\ aux.was.frames \in Stacks /\ aux.was.dyn \in Seq(Refs)
      /\ aux.was.foreignRoots \in Seq(Refs) /\ IsSeq(aux.was.handling)
      /\ aux.base = Len(aux.was.frames) /\ aux.handling = Len(aux.was.handling)
      /\ aux.dyn = Len(aux.was.dyn) /\ aux.foreign = Len(aux.was.foreignRoots)
      /\ aux.turn # "Running"
  BY <1>3 DEF Inv, AuxTyped
<1>6. /\ aux.turn \in Stopped => Places(aux.was.frames, "Native") = {}
      /\ Extends(frames, aux.was.frames) /\ Extends(handling, aux.was.handling)
      /\ Extends(dyn, aux.was.dyn)
      /\ BoundAt(dyn, param, aux.dyn) = aux.was.param
      /\ Balance(aux.was.frames, Len(aux.was.dyn), Len(aux.was.handling))
  BY <1>3 DEF Inv, AuxIntact
<1>7. /\ frames \in Seq(FramesOver(G)) /\ dyn \in Seq(G) /\ param \in G
      /\ foreignRoots \in Seq(G) /\ IsSeq(handling)
      /\ \A i \in 1 .. Len(handling) : handling[i].value \in G
      /\ unwind.value \in G /\ reg \in G /\ handles \subseteq G /\ raised.value \in G
      /\ Scalar \in G /\ Stringable \in G
      /\ aux.reg \in G /\ aux.pending \in Seq(G)
      /\ aux.unwind \in UnwindOver(G, {aux.unwind.trace})
  BY <1>2, <1>3 DEF MachineOver, UnwindOver
<1>8. MachineOver(G)'
  <2>1. Len(frames) \in Nat /\ Len(aux.was.frames) \in Nat /\ Len(aux.was.dyn) \in Nat
        /\ Len(dyn) \in Nat /\ Len(handling) \in Nat /\ Len(aux.was.handling) \in Nat
    BY <1>5, <1>7, SeqFacts DEF Stacks
  <2>2. aux.base \in 0 .. Len(frames) /\ aux.dyn \in 0 .. Len(dyn)
    BY <1>5, <1>6, <2>1 DEF Extends
  <2>3. frames' \in Seq(FramesOver(G)) /\ dyn' \in Seq(G)
    BY <1>4, <1>7, <2>2, PrefixFacts
  <2>4. foreignRoots' \in Seq(G)
    BY <1>3, <1>4, <1>7, PrefixFacts
  <2>5. IsSeq(handling') /\ \A i \in 1 .. Len(handling') : handling'[i].value \in G
    <3>1. Len(handling') \in Nat /\ Len(handling) >= Len(handling')
          /\ \A i \in 1 .. Len(handling') : handling[i] = handling'[i]
      BY <1>3, <1>6, <2>1 DEF Extends
    <3>2. \A i \in 1 .. Len(handling') : i \in 1 .. Len(handling)
      BY <2>1, <3>1
    <3>3. \A i \in 1 .. Len(handling') : handling'[i].value \in G
      BY <1>7, <3>1, <3>2
    <3> QED BY <1>3, <1>5, <3>3
  <2>6. param' \in G
    BY <1>4, <1>7, <2>1, <2>2 DEF ParamAt
  <2>7. handles' \subseteq G /\ raised'.value \in G
    BY <1>4, <1>7
  <2> QED BY <1>3, <1>4, <1>7, <2>3, <2>4, <2>5, <2>6, <2>7 DEF MachineOver
<1>9. Sound(heap)' /\ MachineOver(Alive(heap))'
  BY <1>1, <1>2, <1>4, <1>8
<1>10. AuxTyped' /\ AuxIntact'
  BY <1>3 DEF AuxTyped, AuxIntact
<1>11. Arguments'
  BY <1>3, <1>4, <1>5, <1>6 DEF Arguments, Stopped
<1>12. Balanced'
  <2>1. BoundAt(dyn, param, 0) = Scalar
    BY DEF Inv, Balanced
  <2>2. Len(aux.was.dyn) \in Nat /\ Len(dyn) \in Nat
    BY <1>5, <1>7
  <2>3. BoundAt(aux.was.dyn, aux.was.param, 0) = Scalar
    BY <1>5, <1>6, <2>1, <2>2 DEF BoundAt, Extends
  <2> QED BY <1>3, <1>6, <2>3 DEF Balanced
<1> QED BY <1>9, <1>10, <1>11, <1>12 DEF Inv

----------------------------------------------------------------------------
(* The invariant.                                                           *)

LEMMA EmptySound == Sound(EmptyHeap) /\ Alive(EmptyHeap) = {Scalar}
<1>1. SlotsOf(EmptyHeap) = {} /\ Holes(EmptyHeap) = {} /\ Occupied(EmptyHeap) = {}
  BY DEF SlotsOf, Holes, Occupied, EmptyHeap
<1>2. EmptyHeap \in Heaps
  BY DEF Heaps, EmptyHeap
<1>3. Charges(EmptyHeap, {}) = 0
  <2> DEFINE s == [i \in SlotsOf(EmptyHeap) |->
                     IF i \in {} THEN Charge(EmptyHeap.slots[i]) ELSE 0]
  <2>1. Len(EmptyHeap.slots) = 0
    BY DEF EmptyHeap
  <2>2. s \in [1 .. 0 -> Nat]
    BY <1>1
  <2> HIDE DEF s
  <2> DEFINE z == [n \in 0 .. 0 |-> 0]
  <2>3. PartialSums(z, s, 0) /\ z[0] = 0
    BY DEF PartialSums
  <2> HIDE DEF z
  <2>4. Total(s) = z[0]
    BY <2>2, <2>3, TotalIs
  <2> QED BY <2>3, <2>4 DEF Charges, s
<1>4. EmptyHeap.bytes = 0 /\ EmptyHeap.free = <<>>
  BY DEF EmptyHeap
<1>5. Exact(EmptyHeap)
  BY <1>1, <1>3, <1>4 DEF Exact, ToSet
<1>6. Distinct(EmptyHeap) /\ Holding(EmptyHeap)
  BY <1>1 DEF Distinct, Holding
<1>7. Alive(EmptyHeap) = {Scalar}
  BY <1>1 DEF Alive, Live, Refs
<1> QED BY <1>2, <1>5, <1>6, <1>7 DEF Sound

LEMMA InitInv ==
  ASSUME Init
  PROVE  Inv
<1>1. /\ Sound(heap) /\ Scalar \in Alive(heap) /\ Stringable \in Alive(heap)
      /\ Alive(heap) \subseteq Refs
  <2>1. <<>> \in Seq(Alive(EmptyHeap)) /\ "Callable" \in Kinds
    BY DEF Kinds
  <2>2. /\ Sound(Alloc(EmptyHeap, "Callable", <<>>))
        /\ Alive(EmptyHeap) \subseteq Alive(Alloc(EmptyHeap, "Callable", <<>>))
        /\ NextRef(EmptyHeap) \in Alive(Alloc(EmptyHeap, "Callable", <<>>))
    BY <2>1, EmptySound, AllocSound
  <2>3. NextRef(EmptyHeap) = Stringable
    BY DEF NextRef, NextSlot, EmptyHeap, Stringable
  <2>4. heap = Alloc(EmptyHeap, "Callable", <<>>)
    BY DEF Init
  <2> QED BY <2>2, <2>3, <2>4, EmptySound DEF Alive
<1>2. PICK G : G = Alive(heap)
  OBVIOUS
<1>3. /\ frames = <<Frame(Scalar, Scalar)>> /\ reg = Scalar /\ unwind = NoUnwind
      /\ handling = <<>> /\ dyn = <<>> /\ param = Scalar /\ foreignRoots = <<>>
      /\ pending = <<>> /\ handles = {} /\ raised = NoRaise /\ turn = "Running"
      /\ aux = NoAux
  BY DEF Init
<1>4. aux.on = FALSE
  BY <1>3 DEF NoAux
<1>5. Frame(Scalar, Scalar) \in FramesOver(G) /\ Frame(Scalar, Scalar).conts = <<>>
  BY <1>1, <1>2, NewFrame
<1>6. frames \in Seq(FramesOver(G)) /\ Len(frames) = 1 /\ frames[1].conts = <<>>
  BY <1>3, <1>5
<1>7. frames \in Stacks
  BY <1>1, <1>2, <1>6, OverWiden DEF Stacks
<1>8. MachineOver(G)
  <2>1. NoUnwind \in UnwindOver(G, {NoUnwind.trace})
    BY <1>1, <1>2 DEF NoUnwind, UnwindOver
  <2>2. IsSeq(<<>>) /\ <<>> \in Seq(G) /\ Len(<<>>) = 0
    BY DEF IsSeq
  <2>3. raised.value \in G
    BY <1>1, <1>2, <1>3 DEF NoRaise
  <2> QED BY <1>1, <1>2, <1>3, <1>4, <1>6, <2>1, <2>2, <2>3 DEF MachineOver
<1>9. \A kind : Places(frames, kind) = {}
  <2> TAKE kind
  <2>1. \A p \in Places(frames, kind) :
          p[1] \in 1 .. Len(frames) /\ p[2] \in 1 .. Len(frames[p[1]].conts)
    BY <1>7, PlacesFacts
  <2> QED BY <1>6, <2>1
<1>10. Balance(frames, 0, 0)
  BY <1>9, FS_EmptySet DEF Balance, Rising, Covered
<1>11. Balanced
  BY <1>3, <1>10 DEF Balanced, BoundAt
<1>12. Arguments
  <2>1. Above(frames, 0, 0, 0, 0, 0)
    BY <1>6, <1>9 DEF Above, Rising
  <2>2. Base = 0 /\ DynFloor = 0 /\ Floor = 0 /\ Len(dyn) = 0 /\ Len(foreignRoots) = 0
    BY <1>3, <1>4 DEF Base, DynFloor, Floor
  <2> QED BY <1>9, <2>1, <2>2 DEF Arguments
<1>13. AuxTyped /\ AuxIntact
  BY <1>4 DEF AuxTyped, AuxIntact
<1>14. MachineOver(Alive(heap))
  BY <1>2, <1>8
<1> QED BY <1>1, <1>11, <1>12, <1>13, <1>14 DEF Inv

LEMMA StutterKeeps ==
  ASSUME Inv, UNCHANGED vars
  PROVE  Inv'
<1>1. PICK G : G = Alive(heap)
  OBVIOUS
<1>2. MachineOver(G) /\ Sound(heap)
  BY <1>1, InvReady DEF Ready, Inv
<1>3. UNCHANGED <<heap, frames, reg, unwind, handling, dyn, param, foreignRoots, pending,
                  handles, raised, turn, aux>>
  BY DEF vars
<1>4. MachineOver(G)'
  BY <1>2, <1>3, HostOver DEF MachineOver
<1>5. Sound(heap)' /\ Alive(heap)' = G
  BY <1>1, <1>2, <1>3
<1> QED BY <1>1, <1>3, <1>4, <1>5, HostKeeps

LEMMA NextCases ==
  ASSUME Next
  PROVE  \/ Transition \/ TrapRaise \/ Resume \/ Resolve \/ Hold
         \/ ReadTrace \/ Release \/ AuxBudget \/ Destroy \/ BeginAux \/ EndAux
BY Zenon DEF Next, Transition

\* The invariant: the heap is sound; whatever the machine, the host and an evaluation under
\* way refer to is alive; what bodies have set up stands on the stacks in the order of the
\* bodies; and what an evaluation has set aside is beneath what it does.
THEOREM Invariance == Spec => []Inv
<1>1. Init => Inv
  BY InitInv
<1>2. Inv /\ [Next]_vars => Inv'
  <2> SUFFICES ASSUME Inv, [Next]_vars PROVE Inv'
    OBVIOUS
  <2>1. CASE Next
    BY <2>1, NextCases, TransitionKeeps, TrapRaiseKeeps, ResumeKeeps, ResolveKeeps, HoldKeeps,
       LooseKeeps, DestroyKeeps, BeginAuxKeeps, EndAuxKeeps
  <2>2. CASE UNCHANGED vars
    BY <2>2, StutterKeeps
  <2> QED BY <2>1, <2>2
<1> QED BY <1>1, <1>2, PTL DEF Spec

----------------------------------------------------------------------------
(* What follows.                                                            *)

LEMMA UsedNow ==
  ASSUME NEW G, MachineOver(G)
  PROVE  InUse \subseteq G
<1>1. /\ frames \in Seq(FramesOver(G))
      /\ unwind \in UnwindOver(G, {unwind.trace})
      /\ IsSeq(handling) /\ dyn \in Seq(G) /\ foreignRoots \in Seq(G) /\ pending \in Seq(G)
      /\ \A i \in 1 .. Len(handling) : handling[i].value \in G
      /\ reg \in G /\ param \in G /\ handles \subseteq G /\ raised.value \in G
      /\ aux.on => /\ aux.pending \in Seq(G) /\ aux.reg \in G
                   /\ aux.unwind \in UnwindOver(G, {aux.unwind.trace})
  BY DEF MachineOver
<1>2. \A s \in Seq(G) : ToSet(s) \subseteq G
  BY DEF ToSet
<1>3. \A f \in ToSet(frames) : FrameRefs(f) \subseteq G
  <2> TAKE f \in ToSet(frames)
  <2>1. f \in FramesOver(G)
    BY <1>1 DEF ToSet
  <2>2. f.cal \in G /\ f.local \in G /\ \A c \in ToSet(f.conts) : c.val \in G
    BY <2>1, FrameFacts DEF ToSet
  <2> QED BY <2>2 DEF FrameRefs
<1>4. \A e \in ToSet(handling) : e.value \in G
  <2>1. DOMAIN handling = 1 .. Len(handling)
    BY <1>1, SeqFacts
  <2> QED BY <1>1, <2>1 DEF ToSet
<1>5. unwind.value \in G /\ (aux.on => aux.unwind.value \in G)
  BY <1>1 DEF UnwindOver
<1> QED BY <1>1, <1>2, <1>3, <1>4, <1>5 DEF InUse

LEMMA InvNothingFreed ==
  ASSUME Inv
  PROVE  NothingInUseIsFreed
<1>1. PICK G : G = Alive(heap)
  OBVIOUS
<1>2. MachineOver(G) /\ Sound(heap)
  BY <1>1, InvReady DEF Ready, Inv
<1>3. InUse \subseteq G
  BY <1>2, UsedNow
<1>4. Held \subseteq G
  <2>1. \A i \in SlotsOf(heap) : heap.slots[i].refs \in Seq(G)
    BY <1>1, <1>2 DEF Sound, Holding
  <2>2. \A i \in SlotsOf(heap) : ToSet(heap.slots[i].refs) \subseteq G
    BY <2>1 DEF ToSet
  <2> QED BY <2>2 DEF Held
<1>5. \A r \in G : Live(heap, r)
  BY <1>1 DEF Alive
<1> QED BY <1>3, <1>4, <1>5 DEF NothingInUseIsFreed

\* No collection frees a value in use: at every safe point of every drive, those of an
\* auxiliary evaluation among them, the roots gc.rs walks reach all that is still read.
THEOREM NothingFreed == Spec => []NothingInUseIsFreed
BY Invariance, InvNothingFreed, PTL

\* The marks of the withs number them.
LEMMA MarksNumber ==
  ASSUME NEW fs \in Stacks, NEW kind, NEW n \in Nat,
         Rising(fs, kind, 0, 0, n), Covered(fs, kind, n)
  PROVE  Cardinality(Places(fs, kind)) = n
<1> DEFINE P == Places(fs, kind)
           M == 1 .. n
           f == [p \in P |-> MarkAt(fs, p) + 1]
<1>1. \A p \in P : /\ p = <<p[1], p[2]>> /\ p[1] \in Nat /\ p[2] \in Nat /\ p[1] > 0
                   /\ MarkAt(fs, p) \in Nat
  <2>1. \A p \in P : /\ p = <<p[1], p[2]>> /\ p[1] \in 1 .. Len(fs)
                     /\ p[2] \in 1 .. Len(fs[p[1]].conts) /\ MarkAt(fs, p) \in Nat
    BY PlacesFacts
  <2>2. \A i \in 1 .. Len(fs) : Len(fs[i].conts) \in Nat
    BY PlacesFacts, FrameFacts
  <2>3. Len(fs) \in Nat
    BY DEF Stacks
  <2> HIDE DEF P
  <2> QED BY <2>1, <2>2, <2>3
<1>2. IsFiniteSet(P)
  BY PlacesFinite
<1>3. \A p \in P : MarkAt(fs, p) < n
  BY <1>1 DEF Rising
<1>4. \A p, q \in P : Before(p, q) => MarkAt(fs, p) < MarkAt(fs, q)
  BY <1>1 DEF Rising
<1>5. \A m \in 0 .. n - 1 : \E p \in P : MarkAt(fs, p) = m
  BY DEF Covered
<1> HIDE DEF P
<1>6. f \in [P -> M]
  BY <1>1, <1>3
<1>7. \A p, q \in P : f[p] = f[q] => p = q
  <2> SUFFICES ASSUME NEW p \in P, NEW q \in P, f[p] = f[q], p # q PROVE FALSE
    OBVIOUS
  <2>1. MarkAt(fs, p) = MarkAt(fs, q)
    BY <1>1
  <2>2. p[1] # q[1] \/ p[2] # q[2]
    BY <1>1
  <2>3. Before(p, q) \/ Before(q, p)
    BY <1>1, <2>2 DEF Before
  <2> QED BY <1>1, <1>4, <2>1, <2>3
<1>8. \A m \in M : \E p \in P : f[p] = m
  <2> TAKE m \in M
  <2>1. m - 1 \in 0 .. n - 1
    OBVIOUS
  <2>2. PICK p \in P : MarkAt(fs, p) = m - 1
    BY <1>5, <2>1
  <2> QED BY <2>2
<1> HIDE DEF f
<1>9. f \in Bijection(P, M)
  BY <1>6, <1>7, <1>8 DEF Bijection, Injection, Surjection, IsInjective
<1>10. IsFiniteSet(M) /\ Cardinality(M) = n
  BY FS_Interval
<1> HIDE DEF M
<1>11. Cardinality(P) = Cardinality(M)
  BY <1>2, <1>9, FS_Bijection DEF ExistsBijection
<1> QED BY <1>10, <1>11 DEF P

LEMMA InvBindingsUndone ==
  ASSUME Inv
  PROVE  BindingsUndone
<1>1. PICK G : G = Alive(heap)
  OBVIOUS
<1>2. MachineOver(G) /\ G \subseteq Refs
  BY <1>1, InvReady DEF Ready
<1>3. frames \in Stacks /\ dyn \in Seq(G) /\ Len(dyn) \in Nat
  <2>1. frames \in Seq(FramesOver(G)) /\ dyn \in Seq(G)
    BY <1>2 DEF MachineOver
  <2>2. Seq(FramesOver(G)) \subseteq Seq(FramesOver(Refs))
    BY <1>2, OverWiden
  <2> QED BY <2>1, <2>2 DEF Stacks
<1>4. Balance(frames, Len(dyn), Len(handling)) /\ BoundAt(dyn, param, 0) = Scalar
  BY DEF Inv, Balanced
<1>5. Len(handling) = Count("Handler")
  BY <1>4 DEF Balance, Count
<1>6. Len(dyn) = Count("With")
  BY <1>3, <1>4, MarksNumber DEF Balance, Count
<1>7. (IF dyn = <<>> THEN param ELSE Head(dyn)) = Scalar
  BY <1>3, <1>4 DEF BoundAt
<1> QED BY <1>5, <1>6, <1>7 DEF BindingsUndone

\* However bodies are left, by their end, a return, a raise or the stop of an evaluation, the
\* exceptions in hand are those of the rescue bodies that run and the saved bindings those of
\* the withs, and the parameter's own value is beneath them.
THEOREM Undoing == Spec => []BindingsUndone
BY Invariance, InvBindingsUndone, PTL

LEMMA TransitionAux ==
  ASSUME Transition
  PROVE  aux' = aux
BY DEF Transition, Statement, Make, Read, Bind, AppendItem, GotCallee, Call, TailCall, Return,
       Exit, EnterNative, InvokeBlock, LeaveNative, EnterWith, EnterTry, EndBody, RaiseValue,
       Reraise, Catch, Abandon, Suspend, host

\* Only its end takes an evaluation off.
LEMMA AuxEnds ==
  ASSUME Next, aux.on, ~ aux'.on
  PROVE  EndAux
<1>1. ASSUME TrapRaise \/ Resume \/ Resolve \/ Hold \/ ReadTrace \/ Release \/ AuxBudget \/ Destroy
      PROVE  aux' = aux
  BY <1>1 DEF TrapRaise, Resume, Resolve, Hold, ReadTrace, Release, AuxBudget, Destroy, host
<1>2. ~ BeginAux
  BY DEF BeginAux, Stops
<1> QED BY <1>1, <1>2, NextCases, TransitionAux

\* The stop that an auxiliary evaluation began at is as it was when the evaluation ends,
\* whatever the evaluation did and however it ended.
THEOREM PauseKept == Spec => PauseIntact
<1>1. Inv /\ [Next]_vars =>
        [aux.on /\ ~aux'.on =>
           /\ [frames |-> frames', handling |-> handling', dyn |-> dyn', param |-> param',
               foreignRoots |-> foreignRoots'] = aux.was
           /\ <<reg', unwind', pending', ring', threshold', turn'>> =
                <<aux.reg, aux.unwind, aux.pending, aux.ring, aux.threshold, aux.turn>>]_vars
  <2> SUFFICES ASSUME Inv, Next, aux.on, ~ aux'.on
               PROVE  /\ [frames |-> frames', handling |-> handling', dyn |-> dyn',
                          param |-> param', foreignRoots |-> foreignRoots'] = aux.was
                      /\ <<reg', unwind', pending', ring', threshold', turn'>> =
                           <<aux.reg, aux.unwind, aux.pending, aux.ring, aux.threshold, aux.turn>>
    OBVIOUS
  <2>1. EndAux
    BY AuxEnds
  <2>2. aux.was = [frames |-> aux.was.frames, handling |-> aux.was.handling,
                   dyn |-> aux.was.dyn, param |-> aux.was.param,
                   foreignRoots |-> aux.was.foreignRoots]
    BY DEF Inv, AuxTyped
  <2>3. <<reg', unwind', pending', ring', threshold', turn'>> =
          <<aux.reg, aux.unwind, aux.pending, aux.ring, aux.threshold, aux.turn>>
    BY <2>1 DEF EndAux
  <2> QED BY <2>1, <2>2, <2>3, EndAuxRestores
<1> QED BY <1>1, Invariance, PTL DEF Spec, PauseIntact

----------------------------------------------------------------------------
(* The accounts: the bounds of the state and the finalizers.                *)

Turns == {"Running", "Paused", "Suspended", "Completed", "Raised", "Faulted",
          "OutOfHeap", "Panicked", "Destroyed"}

\* The bounds of the state, and of what an evaluation has set aside.
Bounded ==
  /\ stress \in BOOLEAN /\ threshold \in Nat /\ heap.serial \in 1 .. MaxObjects
  /\ Len(frames) <= MaxFrames \/ (aux.on /\ Len(frames) <= MaxFrames + 1)
  /\ ring \in Seq(Refs) /\ Len(ring) <= RingCapacity
  /\ turn \in Turns
  /\ aux.on => /\ aux.threshold \in Nat /\ aux.base <= MaxFrames
               /\ aux.ring \in Seq(Refs) /\ Len(aux.ring) <= RingCapacity
               /\ aux.turn \in Turns \ {"Destroyed"}

\* An object that awaits its finalizer has it.
Awaited ==
  /\ DOMAIN finalized \subseteq 1 .. heap.serial
  /\ turn # "Destroyed" =>
       \A i \in SlotsOf(heap) :
         heap.slots[i].serial \in DOMAIN finalized => heap.slots[i].finalizer

\* What a transition does to the heap and to its accounts.
LEMMA TransitionCases ==
  ASSUME Transition
  PROVE  /\ turn = "Running" /\ aux' = aux
         /\ \/ SafePoint(heap)
            \/ Make
            \/ AppendItem
            \/ /\ UNCHANGED <<heap, finalized, threshold, stress>>
               /\ turn' \in {turn, "Raised", "Faulted", "Suspended"}
<1>1. aux' = aux
  BY TransitionAux
<1>2. CASE Statement \/ Call \/ Return \/ InvokeBlock \/ Exit
  BY <1>1, <1>2 DEF Statement, Call, Return, InvokeBlock, Exit, Runs
<1>3. CASE Make
  BY <1>1, <1>3 DEF Make, Runs
<1>4. CASE AppendItem
  BY <1>1, <1>4 DEF AppendItem, Runs
<1>5. CASE \/ Read \/ Bind \/ GotCallee \/ TailCall \/ EnterNative \/ LeaveNative \/ EnterWith
           \/ EnterTry \/ EndBody \/ RaiseValue \/ Reraise \/ Catch
  BY <1>1, <1>5 DEF Read, Bind, GotCallee, TailCall, EnterNative, LeaveNative, EnterWith,
       EnterTry, EndBody, RaiseValue, Reraise, Catch, Runs, Unwinds, collector
<1>6. CASE Abandon
  BY <1>1, <1>6 DEF Abandon, Unwinds, collector
<1>7. CASE Suspend
  BY <1>1, <1>7 DEF Suspend, Runs, collector
<1> QED BY <1>2, <1>3, <1>4, <1>5, <1>6, <1>7 DEF Transition

\* And to the frames.
OneMore(fs, gs) ==
  /\ Len(fs) < MaxFrames
  /\ \E f : gs = Append(fs, f) \/ \E h : gs = Append(Append(Front(fs), f), h)
NoMore(fs, gs) ==
  gs = fs \/ gs = Front(fs) \/ \E f : gs = Append(Front(fs), f)

LEMMA TransitionFrames ==
  ASSUME Transition
  PROVE  Len(frames) > Base /\ (NoMore(frames, frames') \/ OneMore(frames, frames'))
<1>1. CASE Statement \/ Make \/ Read \/ AppendItem \/ RaiseValue \/ Reraise \/ Suspend
  BY <1>1 DEF Statement, Make, Read, AppendItem, RaiseValue, Reraise, Suspend, Runs, NoMore
<1>2. CASE Return \/ Exit \/ Abandon
  BY <1>2 DEF Return, Exit, Abandon, Runs, Unwinds, NoMore
<1>3. CASE \/ Bind \/ GotCallee \/ TailCall \/ EnterNative \/ LeaveNative \/ EnterWith
           \/ EnterTry \/ EndBody
  <2>1. /\ Len(frames) > Base
        /\ \E f : frames' = WithTop(f)
    BY <1>3 DEF Bind, GotCallee, TailCall, EnterNative, LeaveNative, EnterWith, EnterTry,
         EndBody, Runs
  <2> QED BY <2>1 DEF NoMore, WithTop
<1>4. CASE Catch
  <2>1. Len(frames) > Base /\ \E f : frames' = WithTop(f)
    BY <1>4, Zenon DEF Catch, Unwinds
  <2> QED BY <2>1 DEF NoMore, WithTop
<1>5. CASE Call
  <2>1. /\ Len(frames) > Base /\ Len(frames) < MaxFrames
        /\ \E f, h : frames' = Append(WithTop(f), h)
    BY <1>5 DEF Call, Runs
  <2> QED BY <2>1 DEF OneMore, WithTop
<1>6. CASE InvokeBlock
  <2>1. Len(frames) > Base /\ Len(frames) < MaxFrames /\ \E f : frames' = Append(frames, f)
    BY <1>6, Zenon DEF InvokeBlock, Runs
  <2> QED BY <2>1 DEF OneMore
<1> QED BY <1>1, <1>2, <1>3, <1>4, <1>5, <1>6 DEF Transition

LEMMA MoreFacts ==
  ASSUME NEW S, NEW fs \in Seq(S), fs # <<>>, NEW gs
  PROVE  /\ NoMore(fs, gs) => Len(gs) <= Len(fs)
         /\ OneMore(fs, gs) => Len(gs) = Len(fs) + 1
<1>1. Front(fs) \in Seq(S) /\ Len(Front(fs)) = Len(fs) - 1 /\ Len(fs) \in Nat
  BY FrontFacts
<1>2. \A T : \A s \in Seq(T) : \A e :
        Append(s, e) \in Seq(T \cup {e}) /\ Len(Append(s, e)) = Len(s) + 1
  OBVIOUS
<1>3. \A f : Append(Front(fs), f) \in Seq(S \cup {f}) /\ Len(Append(Front(fs), f)) = Len(fs)
  BY <1>1, <1>2
<1>4. NoMore(fs, gs) => Len(gs) <= Len(fs)
  BY <1>1, <1>3 DEF NoMore
<1>5. \A f : Len(Append(fs, f)) = Len(fs) + 1
  BY <1>2
<1>6. \A f, h : Len(Append(Append(Front(fs), f), h)) = Len(fs) + 1
  <2> TAKE f, h
  <2> DEFINE s == Append(Front(fs), f)
  <2>1. s \in Seq(S \cup {f}) /\ Len(s) = Len(fs)
    BY <1>3
  <2> HIDE DEF s
  <2>2. Len(Append(s, h)) = Len(fs) + 1
    BY <1>2, <2>1
  <2> QED BY <2>2 DEF s
<1> QED BY <1>4, <1>5, <1>6 DEF OneMore

\* And to the ring.
LEMMA TransitionRing ==
  ASSUME Inv, Transition, ring \in Seq(Refs), Len(ring) <= RingCapacity
  PROVE  ring' \in Seq(Refs) /\ Len(ring') <= RingCapacity
<1>1. CASE TailCall
  <2>1. turn = "Running" /\ Len(frames) > Base /\ ring' = Record(Top.cal)
    BY <1>1 DEF TailCall, Runs
  <2>2. Top.cal \in Refs
    <3>1. PICK G : G = Alive(heap)
      OBVIOUS
    <3>2. Ready(G) /\ G \subseteq Refs
      BY <3>1, InvReady
    <3> QED BY <2>1, <3>2, ReadyFacts
  <2> DEFINE s == <<Top.cal>> \o ring
             n == Min({RingCapacity, Len(ring) + 1})
  <2>3. s \in Seq(Refs) /\ Len(s) = Len(ring) + 1
    <3>1. <<Top.cal>> \in Seq(Refs) /\ Len(<<Top.cal>>) = 1
      BY <2>2
    <3> QED BY <3>1
  <2>4. n \in 1 .. Len(ring) + 1 /\ n <= RingCapacity
    <3>1. RingCapacity \in Nat \ {0} /\ Len(ring) \in Nat
      BY RootsAssumption
    <3>2. n \in {RingCapacity, Len(ring) + 1} /\ \A y \in {RingCapacity, Len(ring) + 1} : n <= y
      <4>1. {RingCapacity, Len(ring) + 1} \in SUBSET Nat /\ {RingCapacity, Len(ring) + 1} # {}
        BY <3>1
      <4> QED BY <4>1, MinFacts
    <3> HIDE DEF n
    <3> QED BY <3>1, <3>2
  <2> HIDE DEF s, n
  <2>5. n \in 0 .. Len(s)
    BY <2>3, <2>4
  <2>6. SubSeq(s, 1, n) \in Seq(Refs) /\ Len(SubSeq(s, 1, n)) = n
    BY <2>3, <2>5, PrefixFacts
  <2> QED BY <2>1, <2>4, <2>6 DEF Record, s, n
<1>2. CASE ~ TailCall
  <2>1. ring' = ring
    BY <1>2 DEF Transition, Statement, Make, Read, Bind, AppendItem, GotCallee, Call, Return,
       Exit, EnterNative, InvokeBlock, LeaveNative, EnterWith, EnterTry, EndBody, RaiseValue,
       Reraise, Catch, Abandon, Suspend, contexts
  <2> QED BY <2>1
<1> QED BY <1>1, <1>2

LEMMA MaxOfTwo ==
  ASSUME NEW a \in Nat, NEW b \in Nat
  PROVE  Max({a, b}) \in Nat
<1>1. \E x \in {a, b} : \A y \in {a, b} : x >= y
  OBVIOUS
<1> QED BY <1>1 DEF Max

\* What a safe point leaves of the accounts.
LEMMA SafePointBounds ==
  ASSUME Sound(heap), SafePoint(heap), threshold \in Nat
  PROVE  /\ threshold' \in Nat /\ heap'.serial = heap.serial /\ stress' = stress
         /\ turn' \in Turns \ {"Destroyed"}
<1>1. \A h : Left(h) => turn' \in Turns \ {"Destroyed"}
  BY DEF Left, Onward, Turns
<1>2. CASE /\ heap' = heap /\ UNCHANGED <<threshold, finalized>>
           /\ turn' = "Panicked" \/ (Left(heap) /\ ~ Due(heap))
  BY <1>1, <1>2, SafePointCases DEF Turns
<1> DEFINE marked == Marked(heap, RootSlots')
           after == Sweep(heap, marked)
<1>3. CASE /\ marked \cap Holes(heap) = {} /\ heap' = after /\ Left(after)
           /\ threshold' = Max({2 * after.bytes, GcMinBytes})
  <2>1. Sound(after)
    <3>1. marked \subseteq SlotsOf(heap) /\ Closed(heap, marked)
      BY MarkedFacts
    <3> HIDE DEF marked
    <3> QED BY <1>3, <3>1, SweepSound
  <2>2. after.bytes \in Nat
    BY <2>1 DEF Sound, Heaps
  <2>3. heap'.serial = heap.serial
    BY <1>3 DEF Sweep
  <2> HIDE DEF after
  <2>4. 2 * after.bytes \in Nat /\ GcMinBytes \in Nat
    BY <2>2, RootsAssumption
  <2>5. threshold' \in Nat
    BY <1>3, <2>4, MaxOfTwo
  <2> QED BY <1>1, <1>3, <2>3, <2>5, SafePointCases
<1> QED BY <1>2, <1>3, SafePointCases

\* The accounts of the steps that are not of the machine.
LEMMA HostCases ==
  ASSUME TrapRaise \/ Resume \/ Resolve \/ Hold \/ ReadTrace \/ Release \/ AuxBudget
  PROVE  /\ UNCHANGED <<heap, finalized, threshold, stress, frames, ring, aux>>
         /\ turn # "Destroyed" /\ turn' \in {turn, "Running", "Paused", "Panicked", "Faulted"}
         /\ turn' = "OutOfHeap" => turn' = turn /\ turn # "Running"
<1>1. CASE TrapRaise
  BY <1>1 DEF TrapRaise, collector, host
<1>2. CASE Resume
  BY <1>2 DEF Resume, collector, contexts, host
<1>3. CASE Resolve
  BY <1>3 DEF Resolve, collector, host
<1>4. CASE Hold
  BY <1>4 DEF Hold, collector, contexts, Stops, Faults
<1>5. CASE ReadTrace
  BY <1>5 DEF ReadTrace, collector, contexts, Stops, Faults
<1>6. CASE Release
  BY <1>6 DEF Release, collector, contexts, Stops, Faults
<1>7. CASE AuxBudget
  BY <1>7 DEF AuxBudget, collector, contexts, host
<1> QED BY <1>1, <1>2, <1>3, <1>4, <1>5, <1>6, <1>7

LEMMA InitBounded ==
  ASSUME Init
  PROVE  Bounded
<1>1. /\ stress \in BOOLEAN /\ threshold = GcMinBytes /\ frames = <<Frame(Scalar, Scalar)>>
      /\ ring = <<>> /\ turn = "Running" /\ aux = NoAux
      /\ heap = Alloc(EmptyHeap, "Callable", <<>>)
  BY DEF Init
<1>2. heap.serial = 1
  BY <1>1 DEF Alloc, EmptyHeap
<1>3. /\ GcMinBytes \in Nat /\ MaxObjects \in Nat \ {0} /\ MaxFrames \in Nat \ {0}
      /\ RingCapacity \in Nat \ {0}
  BY RootsAssumption
<1>4. Len(frames) = 1 /\ Len(ring) = 0 /\ ring \in Seq(Refs)
  BY <1>1
<1>5. aux.on = FALSE /\ turn \in Turns
  BY <1>1 DEF NoAux, Turns
<1> QED BY <1>1, <1>2, <1>3, <1>4, <1>5 DEF Bounded

\* What a transition does to the allocation counter.
LEMMA MakeBounds ==
  ASSUME Inv, Make
  PROVE  \E kind \in Kinds, holds \in Seq(Alive(heap)) :
           /\ heap' = Alloc(heap, kind, holds)
           /\ finalized' = IF kind = "Foreign" THEN Watched(heap.serial + 1) ELSE finalized
           /\ Allocated(heap, heap', Made(heap, kind, holds), NextSlot(heap))
<1>1. PICK G : G = Alive(heap)
  OBVIOUS
<1>2. Ready(G) /\ G \subseteq Refs
  BY <1>1, InvReady
<1>3. Top.local \in G /\ <<>> \in Seq(G) /\ <<Top.local>> \in Seq(G)
  <2>1. Top.local \in G
    BY <1>2, ReadyFacts DEF Make, Runs
  <2> QED BY <2>1
<1>4. PICK kind \in Kinds :
        /\ heap' = Alloc(heap, kind, IF kind = "Callable" /\ Top.local # Scalar
                                     THEN <<Top.local>> ELSE <<>>)
        /\ finalized' = IF kind = "Foreign" THEN Watched(heap.serial + 1) ELSE finalized
  BY Zenon DEF Make
<1>5. PICK holds \in Seq(G) :
        holds = IF kind = "Callable" /\ Top.local # Scalar THEN <<Top.local>> ELSE <<>>
  BY <1>3
<1>6. heap' = Alloc(heap, kind, holds)
  BY <1>4, <1>5
<1>7. Allocated(heap, heap', Made(heap, kind, holds), NextSlot(heap))
  BY <1>1, <1>6, AllocSlots DEF Inv
<1> QED BY <1>1, <1>4, <1>6, <1>7

LEMMA AppendItemBounds ==
  ASSUME Inv, AppendItem
  PROVE  /\ UNCHANGED <<finalized, threshold, stress, turn>>
         /\ heap'.serial = heap.serial /\ SlotsOf(heap') = SlotsOf(heap)
         /\ \A i \in SlotsOf(heap) :
              /\ heap'.slots[i].serial = heap.slots[i].serial
              /\ heap'.slots[i].finalizer = heap.slots[i].finalizer
<1>1. PICK G : G = Alive(heap)
  OBVIOUS
<1>2. Ready(G) /\ MachineOver(G) /\ G \subseteq Refs
  BY <1>1, InvReady DEF Ready
<1>3. /\ turn = "Running" /\ Len(frames) > Base /\ Top.local # Scalar /\ reg \in G
      /\ heap' = ListPush(heap, Top.local, reg)
      /\ UNCHANGED <<finalized, threshold, stress, turn>>
  BY <1>2 DEF AppendItem, Runs, Is, MachineOver, collector
<1>4. Top.local \in G
  BY <1>2, <1>3, ReadyFacts
<1> QED BY <1>1, <1>3, <1>4, PushSound DEF Inv

LEMMA TransitionBounded ==
  ASSUME Inv, Bounded, Transition
  PROVE  Bounded'
<1>1. /\ stress \in BOOLEAN /\ threshold \in Nat /\ heap.serial \in 1 .. MaxObjects
      /\ Len(frames) <= MaxFrames \/ (aux.on /\ Len(frames) <= MaxFrames + 1)
      /\ ring \in Seq(Refs) /\ Len(ring) <= RingCapacity
      /\ turn \in Turns
      /\ aux.on => /\ aux.threshold \in Nat /\ aux.base <= MaxFrames
                   /\ aux.ring \in Seq(Refs) /\ Len(aux.ring) <= RingCapacity
                   /\ aux.turn \in Turns \ {"Destroyed"}
  BY DEF Bounded
<1>2. aux' = aux
  BY TransitionAux
<1>3. ring' \in Seq(Refs) /\ Len(ring') <= RingCapacity
  BY <1>1, TransitionRing
<1>4. Len(frames') <= MaxFrames \/ (aux.on /\ Len(frames') <= MaxFrames + 1)
  <2>1. PICK G : G = Alive(heap)
    OBVIOUS
  <2>2. MachineOver(G)
    BY <2>1, InvReady DEF Ready
  <2>3. frames \in Seq(FramesOver(G))
    BY <2>2 DEF MachineOver
  <2>4. Len(frames) > Base /\ (NoMore(frames, frames') \/ OneMore(frames, frames'))
    BY TransitionFrames
  <2>5. frames # <<>>
    <3>1. Base \in Nat
      <4>1. aux.on => aux.base = Len(aux.was.frames) /\ aux.was.frames \in Stacks
        BY DEF Inv, AuxTyped
      <4> QED BY <4>1 DEF Base, Stacks
    <3> QED BY <2>4, <3>1
  <2>6. /\ NoMore(frames, frames') => Len(frames') <= Len(frames)
        /\ OneMore(frames, frames') => Len(frames') = Len(frames) + 1
    BY <2>3, <2>5, MoreFacts
  <2>7. OneMore(frames, frames') => Len(frames) < MaxFrames
    BY DEF OneMore
  <2>8. Len(frames) \in Nat /\ MaxFrames \in Nat
    BY <2>3, RootsAssumption
  <2>9. CASE NoMore(frames, frames')
    <3>1. Len(frames') \in Int
      <4>1. Inv'
        BY TransitionKeeps
      <4>2. PICK H : H = Alive(heap)'
        OBVIOUS
      <4>3. MachineOver(H)'
        BY <4>1, <4>2 DEF Inv
      <4> QED BY <4>3 DEF MachineOver
    <3> QED BY <1>1, <2>6, <2>8, <2>9, <3>1
  <2>10. CASE OneMore(frames, frames')
    BY <2>6, <2>7, <2>8, <2>10
  <2> QED BY <2>4, <2>9, <2>10
<1>5. /\ stress' \in BOOLEAN /\ threshold' \in Nat /\ heap'.serial \in 1 .. MaxObjects
      /\ turn' \in Turns
  <2>1. CASE SafePoint(heap)
    BY <1>1, <2>1, SafePointBounds DEF Inv
  <2>2. CASE Make
    <3>1. heap'.serial = heap.serial + 1
      BY <2>2, MakeBounds DEF Allocated
    <3>2. heap.serial < MaxObjects /\ UNCHANGED <<stress, threshold, turn>>
      BY <2>2, Zenon DEF Make
    <3>3. MaxObjects \in Nat
      BY RootsAssumption
    <3> QED BY <1>1, <3>1, <3>2, <3>3
  <2>3. CASE AppendItem
    BY <1>1, <2>3, AppendItemBounds
  <2>4. CASE /\ UNCHANGED <<heap, finalized, threshold, stress>>
             /\ turn' \in {turn, "Raised", "Faulted", "Suspended"}
    BY <1>1, <2>4 DEF Turns
  <2> QED BY <2>1, <2>2, <2>3, <2>4, TransitionCases
<1> QED BY <1>1, <1>2, <1>3, <1>4, <1>5 DEF Bounded

LEMMA BoundedKeeps ==
  ASSUME Inv, Bounded, [Next]_vars
  PROVE  Bounded'
<1>1. CASE Transition
  BY <1>1, TransitionBounded
<1>2. /\ stress \in BOOLEAN /\ threshold \in Nat /\ heap.serial \in 1 .. MaxObjects
      /\ Len(frames) <= MaxFrames \/ (aux.on /\ Len(frames) <= MaxFrames + 1)
      /\ ring \in Seq(Refs) /\ Len(ring) <= RingCapacity
      /\ turn \in Turns
      /\ aux.on => /\ aux.threshold \in Nat /\ aux.base <= MaxFrames
                   /\ aux.ring \in Seq(Refs) /\ Len(aux.ring) <= RingCapacity
                   /\ aux.turn \in Turns \ {"Destroyed"}
  BY DEF Bounded
<1>3. CASE TrapRaise \/ Resume \/ Resolve \/ Hold \/ ReadTrace \/ Release \/ AuxBudget
  <2>1. /\ UNCHANGED <<heap, threshold, stress, frames, ring, aux>>
        /\ turn' \in {turn, "Running", "Paused", "Panicked", "Faulted"}
    BY <1>3, HostCases
  <2> QED BY <1>2, <2>1 DEF Bounded, Turns
<1>4. CASE Destroy
  <2>1. /\ heap' = FinalizeAll(heap) /\ turn' = "Destroyed"
        /\ UNCHANGED <<stress, threshold, frames, ring, aux>>
    BY <1>4 DEF Destroy, contexts, host
  <2>2. heap'.serial = heap.serial
    BY <2>1, DropSound DEF Inv
  <2> QED BY <1>2, <2>1, <2>2 DEF Bounded, Turns
<1>5. CASE BeginAux
  <2>1. /\ ~ aux.on /\ turn # "Destroyed" /\ turn' = "Running"
        /\ UNCHANGED <<heap, stress, threshold, ring>>
        /\ \E v : frames' = Append(frames, v)
    BY <1>5, Zenon DEF BeginAux, Stops, Faults, collector
  <2>2. /\ aux'.on /\ aux'.threshold = threshold /\ aux'.base = Len(frames)
        /\ aux'.ring = ring /\ aux'.turn = turn
    BY <1>5 DEF BeginAux
  <2>3. frames \in Seq(FramesOver(Alive(heap))) /\ Len(frames) \in Nat
    BY DEF Inv, MachineOver
  <2>4. Len(frames') = Len(frames) + 1
    BY <2>1, <2>3
  <2>5. MaxFrames \in Nat /\ Len(frames) <= MaxFrames
    BY <1>2, <2>1, RootsAssumption
  <2> QED BY <1>2, <2>1, <2>2, <2>3, <2>4, <2>5 DEF Bounded, Turns
<1>6. CASE EndAux
  <2>1. /\ aux.on /\ UNCHANGED <<heap, stress>> /\ threshold' = aux.threshold
        /\ ring' = aux.ring /\ turn' = aux.turn /\ aux' = NoAux
    BY <1>6 DEF EndAux
  <2>2. frames' = aux.was.frames
    BY <1>6, EndAuxRestores
  <2>3. Len(frames') = aux.base
    BY <2>1, <2>2 DEF Inv, AuxTyped
  <2>4. aux'.on = FALSE
    BY <2>1 DEF NoAux
  <2> QED BY <1>2, <2>1, <2>3, <2>4 DEF Bounded
<1>7. CASE UNCHANGED vars
  BY <1>2, <1>7 DEF Bounded, vars
<1> QED BY <1>1, <1>3, <1>4, <1>5, <1>6, <1>7, NextCases

----------------------------------------------------------------------------
(* Every finalizer runs once.                                               *)

Accounted == Awaited /\ FinalizedOnce

\* What is accounted for, with the objects named by their serials.
Has(h, n) == \E i \in SlotsOf(h) : h.slots[i].serial = n

LEMMA AccountedFacts ==
  Accounted <=>
    /\ DOMAIN finalized \subseteq 1 .. heap.serial
    /\ turn # "Destroyed" =>
         \A i \in SlotsOf(heap) :
           heap.slots[i].serial \in DOMAIN finalized => heap.slots[i].finalizer
    /\ \A n \in DOMAIN finalized :
         finalized[n] = IF Has(heap, n) /\ turn # "Destroyed" THEN 0 ELSE 1
BY DEF Accounted, Awaited, FinalizedOnce, Has

\* A step that leaves the objects and the finalizers alone.
LEMMA QuietAccounted ==
  ASSUME Accounted, turn # "Destroyed", turn' # "Destroyed", finalized' = finalized,
         heap'.serial = heap.serial, SlotsOf(heap') = SlotsOf(heap),
         \A i \in SlotsOf(heap) : /\ heap'.slots[i].serial = heap.slots[i].serial
                                  /\ heap'.slots[i].finalizer = heap.slots[i].finalizer
  PROVE  Accounted'
<1>1. \A n : Has(heap', n) <=> Has(heap, n)
  BY DEF Has
<1> QED BY <1>1 DEF Accounted, Awaited, FinalizedOnce, Has

\* Every object is in one slot.
LEMMA OneSlot ==
  ASSUME NEW h, Sound(h), NEW i \in SlotsOf(h), NEW j \in SlotsOf(h),
         h.slots[i].serial = h.slots[j].serial, h.slots[i].serial # 0
  PROVE  i = j /\ i \in Occupied(h)
<1>1. Hole.serial = 0
  BY DEF Hole
<1>2. i \in Occupied(h) /\ j \in Occupied(h)
  BY <1>1 DEF Occupied, Holes
<1> QED BY <1>2 DEF Sound, Distinct

LEMMA SweepAccounted ==
  ASSUME Accounted, Sound(heap), turn # "Destroyed", turn' # "Destroyed",
         NEW marked \in SUBSET SlotsOf(heap), Closed(heap, marked),
         marked \cap Holes(heap) = {}, heap' = Sweep(heap, marked),
         Finalize(Finalizers(heap, Swept(heap, marked)))
  PROVE  Accounted'
<1>1. /\ DOMAIN finalized \subseteq 1 .. heap.serial
      /\ \A i \in SlotsOf(heap) :
           heap.slots[i].serial \in DOMAIN finalized => heap.slots[i].finalizer
      /\ \A n \in DOMAIN finalized : finalized[n] = IF Has(heap, n) THEN 0 ELSE 1
  BY AccountedFacts
<1>2. /\ SlotsOf(heap') = SlotsOf(heap) /\ heap'.serial = heap.serial
      /\ \A i \in SlotsOf(heap) :
           heap'.slots[i] = IF i \in marked THEN heap.slots[i] ELSE Hole
  BY SweepSound
<1>3. Hole.serial = 0 /\ heap.serial \in Nat
  BY DEF Hole, Sound, Heaps
<1> DEFINE F == Finalizers(heap, Swept(heap, marked))
<1>4. /\ DOMAIN finalized' = DOMAIN finalized
      /\ \A n \in DOMAIN finalized : finalized'[n] = finalized[n] + (IF n \in F THEN 1 ELSE 0)
  BY DEF Finalize
<1>5. \A n : n \in F <=> \E i \in Swept(heap, marked) :
                            heap.slots[i].finalizer /\ heap.slots[i].serial = n
  BY DEF Finalizers
<1> HIDE DEF F
<1>6. \A n \in DOMAIN finalized : n \in Nat /\ n # 0
  BY <1>1, <1>3
<1>7. \A i \in SlotsOf(heap') :
        heap'.slots[i].serial \in DOMAIN finalized => heap'.slots[i].finalizer
  BY <1>1, <1>2, <1>3, <1>6
<1>8. ASSUME NEW n \in DOMAIN finalized
      PROVE  finalized'[n] = IF Has(heap', n) THEN 0 ELSE 1
  <2>1. CASE \E i \in SlotsOf(heap) : heap.slots[i].serial = n
    <3>1. PICK i \in SlotsOf(heap) : heap.slots[i].serial = n
      BY <2>1
    <3>2. \A j \in SlotsOf(heap) : heap.slots[j].serial = n => j = i
      BY <1>6, <3>1, OneSlot
    <3>3. i \in Occupied(heap) /\ finalized[n] = 0 /\ heap.slots[i].finalizer
      BY <1>1, <1>6, <3>1, OneSlot DEF Has
    <3>4. CASE i \in marked
      <4>1. Has(heap', n)
        BY <1>2, <3>1, <3>4 DEF Has
      <4>2. n \notin F
        BY <1>5, <3>2, <3>4 DEF Swept
      <4> QED BY <1>4, <3>3, <4>1, <4>2
    <3>5. CASE i \notin marked
      <4>1. ~ Has(heap', n)
        BY <1>2, <1>3, <1>6, <3>2, <3>5 DEF Has
      <4>2. i \in Swept(heap, marked)
        BY <3>3, <3>5 DEF Swept, Occupied
      <4>3. n \in F
        BY <1>5, <3>1, <3>3, <4>2
      <4> QED BY <1>4, <3>3, <4>1, <4>3
    <3> QED BY <3>4, <3>5
  <2>2. CASE ~ \E i \in SlotsOf(heap) : heap.slots[i].serial = n
    <3>1. finalized[n] = 1
      BY <1>1, <2>2 DEF Has
    <3>2. ~ Has(heap', n)
      BY <1>2, <1>3, <1>6, <2>2 DEF Has
    <3>3. n \notin F
      BY <1>5, <2>2 DEF Swept
    <3> QED BY <1>4, <3>1, <3>2, <3>3
  <2> QED BY <2>1, <2>2
<1> QED BY <1>1, <1>2, <1>4, <1>7, <1>8, AccountedFacts DEF Accounted, Awaited, FinalizedOnce, Has

LEMMA MakeAccounted ==
  ASSUME Inv, Accounted, Make
  PROVE  Accounted'
<1>1. /\ DOMAIN finalized \subseteq 1 .. heap.serial
      /\ \A i \in SlotsOf(heap) :
           heap.slots[i].serial \in DOMAIN finalized => heap.slots[i].finalizer
      /\ \A n \in DOMAIN finalized : finalized[n] = IF Has(heap, n) THEN 0 ELSE 1
  BY AccountedFacts DEF Make, Runs
<1>2. PICK kind \in Kinds, holds \in Seq(Alive(heap)) :
        /\ finalized' = IF kind = "Foreign" THEN Watched(heap.serial + 1) ELSE finalized
        /\ Allocated(heap, heap', Made(heap, kind, holds), NextSlot(heap))
  BY MakeBounds
<1> DEFINE k == NextSlot(heap)
           new == heap.serial + 1
<1>3. /\ SlotsOf(heap') = SlotsOf(heap) \cup {k} /\ k \notin Occupied(heap)
      /\ heap'.slots[k].serial = new /\ heap'.slots[k].finalizer = (kind = "Foreign")
      /\ \A i \in SlotsOf(heap) : i # k => heap'.slots[i] = heap.slots[i]
      /\ heap'.serial = new
  BY <1>2 DEF Allocated, Made
<1> HIDE DEF k
<1>4. heap.serial \in Nat /\ Hole.serial = 0
  BY DEF Inv, Sound, Heaps, Hole
<1>5. \A n \in DOMAIN finalized : n \in Nat /\ n # 0 /\ n # new
  BY <1>1, <1>4
<1>6. \A n \in DOMAIN finalized : Has(heap', n) <=> Has(heap, n)
  <2>1. \A i \in SlotsOf(heap) : i = k => heap.slots[i] = Hole
    BY <1>3 DEF Occupied, Holes
  <2> QED BY <1>3, <1>4, <1>5, <2>1 DEF Has
<1>7. Has(heap', new)
  BY <1>3 DEF Has
<1>8. turn' # "Destroyed"
  BY DEF Make, Runs
<1>9. CASE kind = "Foreign"
  <2>1. /\ DOMAIN finalized' = DOMAIN finalized \cup {new} /\ finalized'[new] = 0
        /\ \A n \in DOMAIN finalized : finalized'[n] = finalized[n]
    BY <1>2, <1>5, <1>9 DEF Watched
  <2>2. DOMAIN finalized' \subseteq 1 .. heap'.serial
    BY <1>1, <1>3, <1>4, <2>1
  <2>3. \A i \in SlotsOf(heap') :
          heap'.slots[i].serial \in DOMAIN finalized' => heap'.slots[i].finalizer
    <3> SUFFICES ASSUME NEW i \in SlotsOf(heap), i # k,
                        heap.slots[i].serial \in DOMAIN finalized'
                 PROVE  heap.slots[i].finalizer
      BY <1>3, <1>9
    <3>1. heap.slots[i].serial # new
      <4>1. CASE heap.slots[i] = Hole
        BY <1>4, <4>1
      <4>2. CASE i \in Occupied(heap)
        <5>1. heap.slots[i].serial <= heap.serial
          BY <4>2 DEF Inv, Sound, Distinct
        <5> QED BY <1>4, <5>1
      <4> QED BY <4>1, <4>2 DEF Occupied, Holes
    <3> QED BY <1>1, <2>1, <3>1
  <2>4. \A n \in DOMAIN finalized' : finalized'[n] = IF Has(heap', n) THEN 0 ELSE 1
    BY <1>1, <1>6, <1>7, <2>1
  <2> QED BY <1>8, <2>2, <2>3, <2>4 DEF Accounted, Awaited, FinalizedOnce, Has
<1>10. CASE kind # "Foreign"
  <2>1. finalized' = finalized
    BY <1>2, <1>10
  <2>2. DOMAIN finalized' \subseteq 1 .. heap'.serial
    BY <1>1, <1>3, <1>4, <2>1
  <2>3. \A i \in SlotsOf(heap') :
          heap'.slots[i].serial \in DOMAIN finalized => heap'.slots[i].finalizer
    BY <1>1, <1>3, <1>5
  <2>4. \A n \in DOMAIN finalized' : finalized'[n] = IF Has(heap', n) THEN 0 ELSE 1
    BY <1>1, <1>6, <2>1
  <2> QED BY <1>8, <2>1, <2>2, <2>3, <2>4 DEF Accounted, Awaited, FinalizedOnce, Has
<1> QED BY <1>9, <1>10

LEMMA DestroyAccounted ==
  ASSUME Inv, Accounted, Destroy
  PROVE  Accounted'
<1>1. /\ turn # "Destroyed" /\ turn' = "Destroyed" /\ heap' = FinalizeAll(heap)
      /\ Finalize(Finalizers(heap, SlotsOf(heap)))
  BY DEF Destroy, Stops, Faults
<1>2. /\ DOMAIN finalized \subseteq 1 .. heap.serial
      /\ \A i \in SlotsOf(heap) :
           heap.slots[i].serial \in DOMAIN finalized => heap.slots[i].finalizer
      /\ \A n \in DOMAIN finalized : finalized[n] = IF Has(heap, n) THEN 0 ELSE 1
  BY <1>1, AccountedFacts
<1> DEFINE F == Finalizers(heap, SlotsOf(heap))
<1>3. /\ DOMAIN finalized' = DOMAIN finalized
      /\ \A n \in DOMAIN finalized : finalized'[n] = finalized[n] + (IF n \in F THEN 1 ELSE 0)
  BY <1>1 DEF Finalize
<1>4. \A n \in DOMAIN finalized : n \in F <=> Has(heap, n)
  BY <1>2 DEF Finalizers, Has
<1> HIDE DEF F
<1>5. \A n \in DOMAIN finalized' : finalized'[n] = 1
  BY <1>2, <1>3, <1>4
<1>6. heap'.serial = heap.serial
  BY <1>1, DropSound DEF Inv
<1> QED BY <1>1, <1>2, <1>3, <1>5, <1>6 DEF Accounted, Awaited, FinalizedOnce

LEMMA AccountedKeeps ==
  ASSUME Inv, Bounded, Accounted, [Next]_vars
  PROVE  Accounted'
<1>1. ASSUME UNCHANGED <<heap, finalized>>, turn # "Destroyed", turn' # "Destroyed"
      PROVE  Accounted'
  BY <1>1, QuietAccounted
<1>2. CASE Transition
  <2>1. turn = "Running"
    BY <1>2, TransitionCases
  <2>2. CASE SafePoint(heap)
    <3>1. Sound(heap) /\ turn' # "Destroyed"
      BY <2>2, SafePointBounds DEF Inv, Bounded
    <3>2. CASE heap' = heap /\ UNCHANGED <<threshold, finalized>>
      BY <1>1, <2>1, <3>1, <3>2
    <3> DEFINE marked == Marked(heap, RootSlots')
    <3>3. CASE /\ marked \cap Holes(heap) = {} /\ heap' = Sweep(heap, marked)
               /\ Finalize(Finalizers(heap, Swept(heap, marked)))
      <4>1. marked \subseteq SlotsOf(heap) /\ Closed(heap, marked)
        BY <3>1, MarkedFacts
      <4> HIDE DEF marked
      <4> QED BY <2>1, <3>1, <3>3, <4>1, SweepAccounted
    <3> QED BY <2>2, <3>2, <3>3, SafePointCases
  <2>3. CASE Make
    BY <2>3, MakeAccounted
  <2>4. CASE AppendItem
    <3>1. turn' # "Destroyed"
      BY <2>1, <2>4, AppendItemBounds
    <3> QED BY <2>1, <2>4, <3>1, AppendItemBounds, QuietAccounted
  <2>5. CASE /\ UNCHANGED <<heap, finalized, threshold, stress>>
             /\ turn' \in {turn, "Raised", "Faulted", "Suspended"}
    BY <1>1, <2>1, <2>5
  <2> QED BY <1>2, <2>2, <2>3, <2>4, <2>5, TransitionCases
<1>3. CASE TrapRaise \/ Resume \/ Resolve \/ Hold \/ ReadTrace \/ Release \/ AuxBudget
  <2>1. /\ UNCHANGED <<heap, finalized>> /\ turn # "Destroyed"
        /\ turn' \in {turn, "Running", "Paused", "Panicked", "Faulted"}
    BY <1>3, HostCases
  <2> QED BY <1>1, <2>1
<1>4. CASE Destroy
  BY <1>4, DestroyAccounted
<1>5. CASE BeginAux
  <2>1. UNCHANGED <<heap, finalized>> /\ turn # "Destroyed" /\ turn' = "Running"
    BY <1>5 DEF BeginAux, Stops, Faults, collector
  <2> QED BY <1>1, <2>1
<1>6. CASE EndAux
  <2>1. /\ UNCHANGED <<heap, finalized>> /\ turn # "Destroyed" /\ turn' = aux.turn /\ aux.on
    BY <1>6 DEF EndAux, Faults
  <2>2. turn' # "Destroyed"
    BY <2>1 DEF Bounded
  <2> QED BY <1>1, <2>1, <2>2
<1>7. CASE UNCHANGED vars
  BY <1>7 DEF vars, Accounted, Awaited, FinalizedOnce
<1> QED BY <1>2, <1>3, <1>4, <1>5, <1>6, <1>7, NextCases

\* The accounts of the slab are exact whatever the program and the host do: the free list has
\* the holes in their order, the bytes are those of the objects that are left, every
\* finalizer runs once, and nothing grows beyond its bound.
THEOREM Slab == Spec => []SlabSound
<1>1. Init => Bounded /\ Accounted
  <2>1. Init => finalized = <<>>
    BY DEF Init
  <2>2. Init => turn # "Destroyed"
    BY DEF Init
  <2> QED BY <2>1, <2>2, InitBounded DEF Accounted, Awaited, FinalizedOnce
<1>2. Inv /\ Bounded /\ Accounted /\ [Next]_vars => (Bounded /\ Accounted)'
  BY BoundedKeeps, AccountedKeeps
<1>3. Inv /\ Bounded /\ Accounted => SlabSound
  <2> SUFFICES ASSUME Inv, Bounded, Accounted PROVE SlabSound
    OBVIOUS
  <2>1. heap.bytes \in Nat /\ Exact(heap)
    BY DEF Inv, Sound, Heaps
  <2>2. SlabExact
    BY <2>1 DEF Exact, SlabExact, Occupied
  <2>3. Len(frames) <= MaxFrames + 1
    <3>1. Len(frames) \in Nat /\ MaxFrames \in Nat
      BY RootsAssumption DEF Inv, MachineOver
    <3> QED BY <3>1 DEF Bounded
  <2>4. TypeOK
    BY <2>1, <2>3 DEF TypeOK, Bounded, Turns, Accounted, Awaited
  <2> QED BY <2>2, <2>4 DEF SlabSound, Accounted
<1> QED BY <1>1, <1>2, <1>3, Invariance, PTL DEF Spec

----------------------------------------------------------------------------
(* A fault of the heap is real.                                             *)

LEMMA SafePointFault ==
  ASSUME Sound(heap), threshold \in Nat, SafePoint(heap), turn' = "OutOfHeap"
  PROVE  Occupied(heap') \subseteq Marked(heap', RootSlots') /\ heap'.bytes > HeapLimit
<1>1. \A h : Left(h) => heap' = h /\ h.bytes > HeapLimit
  BY DEF Left, Onward
<1>2. CASE heap' = heap /\ (turn' = "Panicked" \/ (Left(heap) /\ ~ Due(heap)))
  <2>1. ~ Due(heap) /\ heap.bytes > HeapLimit
    BY <1>1, <1>2
  <2>2. heap.bytes \in Nat /\ HeapLimit \in Nat
    BY RootsAssumption DEF Sound, Heaps
  <2>3. {threshold, HeapLimit} \in SUBSET Nat /\ {threshold, HeapLimit} # {}
    BY <2>2
  <2>4. /\ Min({threshold, HeapLimit}) \in {threshold, HeapLimit}
        /\ \A y \in {threshold, HeapLimit} : Min({threshold, HeapLimit}) <= y
    BY <2>3, MinFacts
  <2>5. PICK m : m = Min({threshold, HeapLimit})
    OBVIOUS
  <2>6. ~ heap.bytes > m
    BY <2>1, <2>5 DEF Due
  <2>7. m \in Nat /\ m <= HeapLimit
    BY <2>2, <2>4, <2>5
  <2> QED BY <2>1, <2>2, <2>6, <2>7
<1>3. CASE LET marked == Marked(heap, RootSlots')
           IN /\ marked \cap Holes(heap) = {}
              /\ heap' = Sweep(heap, marked) /\ Left(Sweep(heap, marked))
  <2>1. PICK roots : roots = RootSlots'
    OBVIOUS
  <2>2. Marked(heap, roots) \cap Holes(heap) = {} /\ heap' = Sweep(heap, Marked(heap, roots))
    BY <1>3, <2>1
  <2>3. Occupied(heap') \subseteq Marked(heap', roots)
    <3>1. PICK g : g = Sweep(heap, Marked(heap, roots))
      OBVIOUS
    <3>2. Occupied(g) \subseteq Marked(g, roots)
      BY <2>2, <3>1, SweptIsReachable
    <3> QED BY <2>2, <3>1, <3>2
  <2>4. heap'.bytes > HeapLimit
    BY <1>1, <1>3
  <2> QED BY <2>1, <2>3, <2>4
<1> QED BY <1>2, <1>3, SafePointCases

LEMMA FaultCases ==
  ASSUME Inv, Bounded, Next, turn' = "OutOfHeap", turn = "Running", aux' = aux
  PROVE  SafePoint(heap)
<1>1. CASE Transition
  <2>1. Make => turn' = turn
    BY Zenon DEF Make
  <2>2. AppendItem => turn' = turn
    BY AppendItemBounds
  <2> QED BY <1>1, <2>1, <2>2, TransitionCases
<1>2. ~ (TrapRaise \/ Resume \/ Resolve \/ Hold \/ ReadTrace \/ Release \/ AuxBudget)
  BY HostCases
<1>3. ~ Destroy /\ ~ BeginAux
  BY DEF Destroy, BeginAux
<1>4. ~ EndAux
  BY DEF EndAux, NoAux
<1> QED BY <1>1, <1>2, <1>3, <1>4, NextCases

\* A safe point faults on the heap limit only when everything that is left can be reached from
\* the roots: garbage alone never ends a program, whatever the threshold was.
THEOREM HeapFault == Spec => HeapFaultIsReal
<1>1. Inv /\ Bounded /\ [Next]_vars =>
        [turn' = "OutOfHeap" /\ turn = "Running" /\ aux' = aux
           => /\ SlotsOf(heap)' \ Holes(heap)' \subseteq Marked(heap, RootSlots)'
              /\ heap'.bytes > HeapLimit]_vars
  <2> SUFFICES ASSUME Inv, Bounded, Next, turn' = "OutOfHeap", turn = "Running", aux' = aux
               PROVE  /\ SlotsOf(heap)' \ Holes(heap)' \subseteq Marked(heap, RootSlots)'
                      /\ heap'.bytes > HeapLimit
    OBVIOUS
  <2>1. SafePoint(heap) /\ Sound(heap) /\ threshold \in Nat
    BY FaultCases DEF Inv, Bounded
  <2>2. Occupied(heap') \subseteq Marked(heap', RootSlots') /\ heap'.bytes > HeapLimit
    BY <2>1, SafePointFault
  <2> QED BY <2>2 DEF Occupied
<1>2. Init => Bounded
  BY InitBounded
<1>3. Inv /\ Bounded /\ [Next]_vars => Bounded'
  BY BoundedKeeps
<1> QED BY <1>1, <1>2, <1>3, Invariance, PTL DEF Spec, HeapFaultIsReal

=============================================================================
