-------------------------- MODULE ProtocolsProofs --------------------------
(* Proofs about Protocols, for every program that the resolver accepts.     *)
EXTENDS MCProtocols, StackLemmas, FiniteSetTheorems

----------------------------------------------------------------------------
(* Numbers.                                                                 *)

LEMMA LowestFacts ==
  ASSUME NEW S \in SUBSET Nat, S # {}
  PROVE  LowestOf(S) \in S /\ \A q \in S : LowestOf(S) <= q
BY LeastElement DEF LowestOf

\* A number that is the lowest is the one that is chosen.
LEMMA LowestIs ==
  ASSUME NEW S \in SUBSET Nat, NEW n \in S, \A q \in S : n <= q
  PROVE  LowestOf(S) = n
<1>1. LowestOf(S) \in S /\ LowestOf(S) <= n /\ n <= LowestOf(S)
  BY LowestFacts
<1>2. LowestOf(S) \in Nat /\ n \in Nat
  BY <1>1
<1> QED
  BY <1>1, <1>2

\* In place of an induction: S stands for what is to be shown of each number.
LEMMA UpTo ==
  ASSUME NEW N \in Nat, NEW S, \A n \in 1 .. N : (\A m \in 1 .. n - 1 : m \in S) => n \in S
  PROVE  \A n \in 1 .. N : n \in S
<1> DEFINE Bad == {n \in 1 .. N : n \notin S}
<1>1. SUFFICES ASSUME Bad # {} PROVE FALSE
  OBVIOUS
<1>2. Bad \in SUBSET Nat
  OBVIOUS
<1> HIDE DEF Bad
<1>3. PICK n \in Bad : \A y \in Bad : n <= y
  BY <1>1, <1>2, LeastElement
<1>4. n \in 1 .. N /\ n \notin S
  BY <1>3 DEF Bad
<1>5. \A m \in 1 .. n - 1 : m \in 1 .. N /\ m \notin Bad
  BY <1>3, <1>4
<1>6. \A m \in 1 .. n - 1 : m \in S
  BY <1>5 DEF Bad
<1> QED
  BY <1>4, <1>6

\* f says at each place of S its head and goes on with what it says at a place
\* before.  There is one that does.
Climbs(f, S, head, up) ==
  f = [i \in S |-> <<head[i]>> \o (IF up[i] = 0 THEN <<>> ELSE f[up[i]])]

LEMMA ClimbExists ==
  ASSUME NEW N \in Nat, NEW S \in SUBSET (1 .. N), NEW head, NEW up,
         \A i \in S : up[i] # 0 => up[i] \in S /\ up[i] < i
  PROVE  \E f : Climbs(f, S, head, up)
<1> DEFINE Says(f, i) == f[i] = <<head[i]>> \o (IF up[i] = 0 THEN <<>> ELSE f[up[i]])
           Good == {n \in 0 .. N : \E f : \A i \in S : i <= n => Says(f, i)}
           Goes(f, n) == <<head[n]>> \o (IF up[n] = 0 THEN <<>> ELSE f[up[n]])
<1>1. ASSUME NEW n \in 1 .. N, n - 1 \in Good
      PROVE  n \in Good
  <2>1. PICK f : \A i \in S : i <= n - 1 => Says(f, i)
    BY <1>1
  <2> HIDE DEF Says
  <2> DEFINE g == [i \in S |-> IF i = n THEN Goes(f, n) ELSE f[i]]
  <2>2. ASSUME NEW i \in S, i <= n PROVE Says(g, i)
    <3>1. g[i] = IF i = n THEN Goes(f, n) ELSE f[i]
      OBVIOUS
    <3>2. up[i] # 0 => g[up[i]] = f[up[i]]
      <4>1. up[i] # 0 => up[i] \in S /\ up[i] # n
        <5>1. i \in 1 .. N /\ (up[i] # 0 => up[i] \in 1 .. N)
          OBVIOUS
        <5> QED
          BY <2>2, <5>1
      <4> QED
        BY <4>1
    <3>3. CASE i = n
      BY <3>1, <3>2, <3>3 DEF Says
    <3>4. CASE i # n
      <4>1. Says(f, i)
        <5>1. i \in 1 .. N
          OBVIOUS
        <5> QED
          BY <2>1, <2>2, <3>4, <5>1
      <4> QED
        BY <3>1, <3>2, <3>4, <4>1 DEF Says
    <3> QED
      BY <3>3, <3>4
  <2>3. \E h : \A i \in S : i <= n => Says(h, i)
    <3> HIDE DEF g
    <3> QED
      BY <2>2
  <2> QED
    BY <2>3
<1>2. 0 \in Good
  <2>1. \A i \in S : ~(i <= 0)
    OBVIOUS
  <2> QED
    BY <2>1
<1> HIDE DEF Good
<1>3. \A n \in 1 .. N : (\A m \in 1 .. n - 1 : m \in Good) => n \in Good
  <2> SUFFICES ASSUME NEW n \in 1 .. N, \A m \in 1 .. n - 1 : m \in Good PROVE n \in Good
    OBVIOUS
  <2>1. n - 1 \in Good
    <3>1. n - 1 = 0 \/ n - 1 \in 1 .. n - 1
      OBVIOUS
    <3> QED
      BY <1>2, <3>1
  <2> QED
    BY <1>1, <2>1
<1>4. N \in Good
  <2>1. \A n \in 1 .. N : n \in Good
    BY <1>3, UpTo
  <2> QED
    BY <1>2, <2>1
<1>5. PICK f : \A i \in S : i <= N => Says(f, i)
  BY <1>4 DEF Good
<1> DEFINE g == [i \in S |-> f[i]]
<1>6. \A i \in S : g[i] = <<head[i]>> \o (IF up[i] = 0 THEN <<>> ELSE g[up[i]])
  BY <1>5
<1>7. Climbs(g, S, head, up)
  BY <1>6 DEF Climbs
<1> QED
  BY <1>7

----------------------------------------------------------------------------
(* Chains of protocols.                                                     *)

LEMMA SeqWiden ==
  ASSUME NEW S, NEW T, S \subseteq T, NEW s \in Seq(S)
  PROVE  s \in Seq(T)
<1>1. Len(s) \in Nat /\ DOMAIN s = 1 .. Len(s) /\ s = [i \in 1 .. Len(s) |-> s[i]]
  OBVIOUS
<1>2. \A i \in 1 .. Len(s) : s[i] \in T
  OBVIOUS
<1> QED
  BY <1>1, <1>2

LEMMA LinkFacts ==
  ASSUME NEW S, NEW x \in S, NEW c \in Seq(S)
  PROVE  /\ <<x>> \o c \in Seq(S) /\ Len(<<x>> \o c) = Len(c) + 1 /\ Len(c) \in Nat
         /\ (<<x>> \o c)[1] = x
         /\ \A n \in 1 .. Len(c) : (<<x>> \o c)[n + 1] = c[n]
         /\ \A n \in 2 .. Len(c) + 1 : (<<x>> \o c)[n] = c[n - 1]
         /\ ToSet(<<x>> \o c) = {x} \cup ToSet(c)
         /\ Tail(<<x>> \o c) = c
<1> DEFINE s == <<x>> \o c
<1>1. s \in Seq(S) /\ Len(s) = Len(c) + 1 /\ Len(c) \in Nat /\ s[1] = x
  OBVIOUS
<1>2. \A n \in 1 .. Len(c) : s[n + 1] = c[n]
  OBVIOUS
<1>3. \A n \in 2 .. Len(c) + 1 : s[n] = c[n - 1]
  OBVIOUS
<1>4. Tail(s) = c
  <2>1. Tail(s) \in Seq(S) /\ Len(Tail(s)) = Len(c)
    BY <1>1
  <2>2. \A n \in 1 .. Len(c) : Tail(s)[n] = c[n]
    BY <1>1, <1>2
  <2> QED
    BY <2>1, <2>2, SeqEqual
<1> HIDE DEF s
<1>5. ToSet(s) = {x} \cup ToSet(c)
  <2>1. DOMAIN s = 1 .. Len(c) + 1 /\ DOMAIN c = 1 .. Len(c)
    BY <1>1
  <2>2. \A y \in ToSet(s) : y \in {x} \cup ToSet(c)
    <3> SUFFICES ASSUME NEW n \in DOMAIN s PROVE s[n] \in {x} \cup ToSet(c)
      BY DEF ToSet
    <3>1. CASE n = 1
      BY <1>1, <3>1
    <3>2. CASE n # 1
      <4>1. n \in 2 .. Len(c) + 1 /\ n - 1 \in DOMAIN c
        BY <1>1, <2>1, <3>2
      <4> QED
        BY <1>3, <4>1 DEF ToSet
    <3> QED
      BY <3>1, <3>2
  <2>3. x \in ToSet(s)
    <3>1. 1 \in DOMAIN s
      BY <1>1, <2>1
    <3> QED
      BY <1>1, <3>1 DEF ToSet
  <2>4. \A y \in ToSet(c) : y \in ToSet(s)
    <3> SUFFICES ASSUME NEW n \in DOMAIN c PROVE c[n] \in ToSet(s)
      BY DEF ToSet
    <3>1. n + 1 \in DOMAIN s /\ s[n + 1] = c[n]
      BY <1>1, <1>2, <2>1
    <3> QED
      BY <3>1 DEF ToSet
  <2> QED
    BY <2>2, <2>3, <2>4
<1> QED
  BY <1>1, <1>2, <1>3, <1>4, <1>5 DEF s

\* A protocol as the registry has it: the well-known one, or one that is declared.
ProtocolDefs ==
  {WellKnown} \cup {[name |-> d.name, members |-> d.members, parent |-> p] :
                     d \in ProtocolForms, p \in Nat}
ParentFirst(r) ==
  /\ r.protos \in Seq(ProtocolDefs)
  /\ \A p \in Ids(r) : r.protos[p].parent \in 0 .. p - 1

LEMMA ChainStep ==
  ASSUME NEW r, ParentFirst(r), NEW p \in Ids(r)
  PROVE  Chain(r, p) = <<p>> \o (IF r.protos[p].parent = NoProtocol THEN <<>>
                                ELSE Chain(r, r.protos[p].parent))
<1> DEFINE S == Ids(r)
           head == [i \in S |-> i]
           up == [i \in S |-> r.protos[i].parent]
           Up == CHOOSE f : f = [i \in S |-> <<i>> \o (IF r.protos[i].parent = NoProtocol
                                          THEN <<>> ELSE f[r.protos[i].parent])]
<1>1. S = 1 .. Len(r.protos) /\ Len(r.protos) \in Nat
  BY DEF ParentFirst, Ids
<1>2. \A i \in S : up[i] # 0 => up[i] \in S /\ up[i] < i
  <2> SUFFICES ASSUME NEW i \in S, up[i] # 0 PROVE up[i] \in S /\ up[i] < i
    OBVIOUS
  <2>1. i \in 1 .. Len(r.protos) /\ up[i] \in 0 .. i - 1
    BY <1>1 DEF ParentFirst
  <2> QED
    BY <1>1, <2>1
<1>3. PICK f : Climbs(f, S, head, up)
  <2> HIDE DEF S, head, up
  <2>1. PICK N \in Nat : S \in SUBSET (1 .. N)
    BY <1>1
  <2> QED
    BY <1>2, <2>1, ClimbExists
<1>4. f = [i \in S |-> <<i>> \o (IF r.protos[i].parent = NoProtocol
                                 THEN <<>> ELSE f[r.protos[i].parent])]
  BY <1>3, Zenon DEF NoProtocol, Climbs
<1>5. Up = [i \in S |-> <<i>> \o (IF r.protos[i].parent = NoProtocol
                                  THEN <<>> ELSE Up[r.protos[i].parent])]
  BY <1>4, Zenon
<1>6. \A i \in S : Chain(r, i) = Up[i]
  BY Zenon DEF Chain
<1> HIDE DEF Up
<1>7. Up[p] = <<p>> \o (IF r.protos[p].parent = NoProtocol
                        THEN <<>> ELSE Up[r.protos[p].parent])
  BY <1>5
<1>8. r.protos[p].parent # NoProtocol => r.protos[p].parent \in S
  BY <1>2 DEF NoProtocol
<1> QED
  BY <1>6, <1>7, <1>8

\* A chain goes to lower ids, and holds those of its members.
Descends(r, p) ==
  /\ Chain(r, p) \in Seq(1 .. p) /\ Chain(r, p) # <<>> /\ p \in ToSet(Chain(r, p))
  /\ \A q \in ToSet(Chain(r, p)) : ToSet(Chain(r, q)) \subseteq ToSet(Chain(r, p))

LEMMA ChainDescends ==
  ASSUME NEW r, ParentFirst(r), NEW p \in Ids(r)
  PROVE  Descends(r, p)
<1> DEFINE N == Len(r.protos)
           S == {q \in 1 .. N : Descends(r, q)}
<1>1. N \in Nat /\ Ids(r) = 1 .. N
  BY DEF ParentFirst, Ids
<1>2. ASSUME NEW n \in 1 .. N, \A m \in 1 .. n - 1 : m \in S
      PROVE  Descends(r, n)
  <2> DEFINE q == r.protos[n].parent
             c == IF q = NoProtocol THEN <<>> ELSE Chain(r, q)
  <2>1. Chain(r, n) = <<n>> \o c
    BY <1>1, ChainStep
  <2>2. q \in 0 .. n - 1
    BY <1>1 DEF ParentFirst
  <2>3. q # NoProtocol => q \in 1 .. n - 1 /\ Descends(r, q)
    BY <1>2, <2>2 DEF NoProtocol
  <2> HIDE DEF q, S
  <2>4. c \in Seq(1 .. n)
    <3>1. CASE q = NoProtocol
      BY <3>1
    <3>2. CASE q # NoProtocol
      <4>1. c \in Seq(1 .. q) /\ (1 .. q) \subseteq 1 .. n
        BY <2>3, <3>2 DEF Descends, c
      <4> QED
        BY <4>1, SeqWiden
    <3> QED
      BY <3>1, <3>2
  <2>5. \A x \in ToSet(c) : ToSet(Chain(r, x)) \subseteq ToSet(c)
    <3>1. CASE q = NoProtocol
      BY <3>1 DEF ToSet
    <3>2. CASE q # NoProtocol
      BY <2>3, <3>2 DEF Descends
    <3> QED
      BY <3>1, <3>2
  <2> HIDE DEF c
  <2>6. n \in 1 .. n
    OBVIOUS
  <2>7. /\ Chain(r, n) \in Seq(1 .. n) /\ Len(Chain(r, n)) = Len(c) + 1 /\ Len(c) \in Nat
        /\ ToSet(Chain(r, n)) = {n} \cup ToSet(c)
    BY <2>1, <2>4, <2>6, LinkFacts
  <2>8. Chain(r, n) # <<>>
    BY <2>7
  <2>9. \A x \in ToSet(Chain(r, n)) : ToSet(Chain(r, x)) \subseteq ToSet(Chain(r, n))
    BY <2>5, <2>7
  <2> QED
    BY <2>7, <2>8, <2>9 DEF Descends
<1>3. \A n \in 1 .. N : (\A m \in 1 .. n - 1 : m \in S) => n \in S
  BY <1>2
<1> HIDE DEF S
<1>4. p \in S
  <2> HIDE DEF N
  <2> QED
    BY <1>1, <1>3, UpTo
<1> QED
  BY <1>4 DEF S

LEMMA LineageStep ==
  ASSUME NEW r, ParentFirst(r), NEW p \in Ids(r)
  PROVE  /\ Lineage(r, p) \in Seq(ProtocolDefs)
         /\ Lineage(r, p) = <<r.protos[p]>> \o (IF r.protos[p].parent = NoProtocol THEN <<>>
                                                ELSE Lineage(r, r.protos[p].parent))
<1> DEFINE P == r.protos
           q == P[p].parent
           d == Chain(r, q)
           c == IF q = NoProtocol THEN <<>> ELSE d
           l == IF q = NoProtocol THEN <<>> ELSE Lineage(r, q)
<1>1. Ids(r) = 1 .. Len(P) /\ Len(P) \in Nat /\ P \in Seq(ProtocolDefs)
  BY DEF ParentFirst, Ids
<1>2. q \in 0 .. p - 1 /\ p \in 1 .. Len(P)
  BY <1>1 DEF ParentFirst
<1>3. q # NoProtocol => d \in Seq(1 .. Len(P))
  <2> SUFFICES ASSUME q # NoProtocol PROVE d \in Seq(1 .. Len(P))
    OBVIOUS
  <2>1. q \in Ids(r) /\ (1 .. q) \subseteq 1 .. Len(P)
    BY <1>1, <1>2 DEF NoProtocol
  <2>2. d \in Seq(1 .. q)
    BY <2>1, ChainDescends DEF Descends
  <2> HIDE DEF d, q, P
  <2> QED
    BY <2>1, <2>2, SeqWiden
<1>4. c \in Seq(1 .. Len(P))
  <2>1. CASE q = NoProtocol
    BY <2>1
  <2>2. CASE q # NoProtocol
    BY <1>3, <2>2
  <2> QED
    BY <2>1, <2>2
<1>5. l = [n \in 1 .. Len(c) |-> P[c[n]]] /\ Len(c) \in Nat
  <2>1. CASE q = NoProtocol
    BY <2>1
  <2>2. CASE q # NoProtocol
    <3>1. c = d /\ d \in Seq(1 .. Len(P))
      BY <1>3, <2>2
    <3>2. DOMAIN d = 1 .. Len(c) /\ Len(c) \in Nat
      BY <3>1
    <3> QED
      BY <2>2, <3>1, <3>2 DEF Lineage
  <2> QED
    BY <2>1, <2>2
<1>6. Chain(r, p) = <<p>> \o c
  BY ChainStep
<1> HIDE DEF c, d, q, l
<1>7. /\ Chain(r, p) \in Seq(1 .. Len(P)) /\ Len(Chain(r, p)) = Len(c) + 1
      /\ Chain(r, p)[1] = p /\ \A n \in 2 .. Len(c) + 1 : Chain(r, p)[n] = c[n - 1]
  BY <1>2, <1>4, <1>6, LinkFacts
<1>8. Lineage(r, p) = [n \in 1 .. Len(c) + 1 |-> P[Chain(r, p)[n]]]
  BY <1>7 DEF Lineage
<1>9. \A n \in 1 .. Len(c) + 1 : Chain(r, p)[n] \in 1 .. Len(P)
  BY <1>5, <1>7
<1>10. Lineage(r, p) \in Seq(ProtocolDefs) /\ Len(Lineage(r, p)) = Len(c) + 1
  <2>1. \A n \in 1 .. Len(c) + 1 : P[Chain(r, p)[n]] \in ProtocolDefs
    BY <1>1, <1>9
  <2> QED
    BY <1>5, <1>8, <2>1
<1>11. l \in Seq(ProtocolDefs) /\ Len(l) = Len(c)
  <2>1. \A n \in 1 .. Len(c) : P[c[n]] \in ProtocolDefs
    BY <1>1, <1>4
  <2> QED
    BY <1>5, <2>1
<1>12. P[p] \in ProtocolDefs
  BY <1>1, <1>2
<1>13. /\ <<P[p]>> \o l \in Seq(ProtocolDefs) /\ Len(<<P[p]>> \o l) = Len(c) + 1
       /\ (<<P[p]>> \o l)[1] = P[p]
       /\ \A n \in 2 .. Len(c) + 1 : (<<P[p]>> \o l)[n] = l[n - 1]
  BY <1>11, <1>12, LinkFacts
<1>14. \A n \in 1 .. Len(c) + 1 : Lineage(r, p)[n] = (<<P[p]>> \o l)[n]
  <2> SUFFICES ASSUME NEW n \in 1 .. Len(c) + 1
               PROVE  Lineage(r, p)[n] = (<<P[p]>> \o l)[n]
    OBVIOUS
  <2>1. CASE n = 1
    BY <1>5, <1>7, <1>8, <1>13, <2>1
  <2>2. CASE n # 1
    <3>1. n \in 2 .. Len(c) + 1 /\ n - 1 \in 1 .. Len(c)
      BY <1>5, <2>2
    <3>2. l[n - 1] = P[c[n - 1]]
      BY <1>5, <3>1
    <3>3. Lineage(r, p)[n] = P[c[n - 1]]
      BY <1>7, <1>8, <3>1
    <3> QED
      BY <1>13, <3>1, <3>2, <3>3
  <2> QED
    BY <2>1, <2>2
<1>15. Lineage(r, p) = <<P[p]>> \o l
  BY <1>10, <1>13, <1>14, SeqEqual
<1> QED
  BY <1>10, <1>15 DEF l, q

----------------------------------------------------------------------------
(* Who declares a name, along a chain.                                      *)

LEMMA LinkDeclarers ==
  ASSUME NEW D, NEW x \in D, NEW c \in Seq(D), NEW m
  PROVE  \A n : n \in Declarers(<<x>> \o c, m) <=>
           \/ n = 1 /\ Places(x.members, m) # {}
           \/ n \in 2 .. Len(c) + 1 /\ n - 1 \in Declarers(c, m)
<1> DEFINE s == <<x>> \o c
<1>1. /\ s \in Seq(D) /\ Len(s) = Len(c) + 1 /\ Len(c) \in Nat /\ s[1] = x
      /\ \A n \in 2 .. Len(c) + 1 : s[n] = c[n - 1]
  BY LinkFacts
<1>2. DOMAIN c = 1 .. Len(c)
  OBVIOUS
<1> HIDE DEF s
<1>3. DOMAIN s = 1 .. Len(c) + 1
  BY <1>1
<1>4. \A n \in 2 .. Len(c) + 1 : n - 1 \in 1 .. Len(c)
  BY <1>1
<1>5. \A n : n \in DOMAIN s <=> n = 1 \/ n \in 2 .. Len(c) + 1
  BY <1>1, <1>3
<1>6. ~(1 \in 2 .. Len(c) + 1)
  OBVIOUS
<1>7. \A n : n \in Declarers(s, m) <=>
           \/ n = 1 /\ Places(x.members, m) # {}
           \/ n \in 2 .. Len(c) + 1 /\ n - 1 \in Declarers(c, m)
  BY <1>1, <1>2, <1>4, <1>5, <1>6 DEF Declarers
<1> QED
  BY <1>7 DEF s

LEMMA DeclarersNat ==
  ASSUME NEW D, NEW c \in Seq(D), NEW m
  PROVE  Declarers(c, m) \in SUBSET Nat /\ Declarers(c, m) \subseteq DOMAIN c
BY DEF Declarers

\* A protocol has the members of its own before those of its ancestors.
LEMMA LinkNearest ==
  ASSUME NEW D, NEW x \in D, NEW c \in Seq(D), NEW m
  PROVE  /\ Declarers(<<x>> \o c, m) = {} <=>
              Places(x.members, m) = {} /\ Declarers(c, m) = {}
         /\ Places(x.members, m) # {} => Nearest(<<x>> \o c, m) = First(x.members, m)
         /\ Places(x.members, m) = {} /\ Declarers(c, m) # {} =>
              Nearest(<<x>> \o c, m) = Nearest(c, m)
<1> DEFINE s == <<x>> \o c
<1>1. /\ s \in Seq(D) /\ Len(s) = Len(c) + 1 /\ Len(c) \in Nat /\ s[1] = x
      /\ \A n \in 1 .. Len(c) : s[n + 1] = c[n]
  BY LinkFacts
<1>2. \A n : n \in Declarers(s, m) <=>
           \/ n = 1 /\ Places(x.members, m) # {}
           \/ n \in 2 .. Len(c) + 1 /\ n - 1 \in Declarers(c, m)
  BY LinkDeclarers
<1> HIDE DEF s
<1>3. /\ Declarers(s, m) \in SUBSET Nat /\ Declarers(s, m) \subseteq 1 .. Len(c) + 1
      /\ Declarers(c, m) \in SUBSET Nat /\ Declarers(c, m) \subseteq 1 .. Len(c)
  BY <1>1, DeclarersNat
<1>4. \A n \in Declarers(c, m) : n + 1 \in Declarers(s, m)
  <2> SUFFICES ASSUME NEW n \in Declarers(c, m) PROVE n + 1 \in Declarers(s, m)
    OBVIOUS
  <2>1. n \in 1 .. Len(c)
    BY <1>3
  <2>2. n + 1 \in 2 .. Len(c) + 1 /\ (n + 1) - 1 = n
    BY <1>1, <2>1
  <2>3. PICK k : k = n + 1
    OBVIOUS
  <2>4. k \in 2 .. Len(c) + 1 /\ k - 1 \in Declarers(c, m)
    BY <2>2, <2>3
  <2> QED
    BY <1>2, <2>3, <2>4, Zenon
<1>5. Declarers(s, m) = {} <=> Places(x.members, m) = {} /\ Declarers(c, m) = {}
  BY <1>2, <1>4
<1>6. ASSUME Places(x.members, m) # {} PROVE Nearest(s, m) = First(x.members, m)
  <2>1. 1 \in Declarers(s, m) /\ \A n \in Declarers(s, m) : 1 <= n
    BY <1>2, <1>3, <1>6
  <2>2. LowestOf(Declarers(s, m)) = 1
    BY <1>3, <2>1, LowestIs
  <2> QED
    BY <1>1, <2>2 DEF Nearest
<1>7. ASSUME Places(x.members, m) = {}, Declarers(c, m) # {}
      PROVE  Nearest(s, m) = Nearest(c, m)
  <2> DEFINE n == LowestOf(Declarers(c, m))
  <2>1. n \in Declarers(c, m) /\ \A q \in Declarers(c, m) : n <= q
    BY <1>3, <1>7, LowestFacts
  <2>2. n \in 1 .. Len(c) /\ n + 1 \in Declarers(s, m)
    BY <1>3, <1>4, <2>1
  <2> HIDE DEF n
  <2>3. \A q \in Declarers(s, m) : n + 1 <= q
    <3> SUFFICES ASSUME NEW q \in Declarers(s, m) PROVE n + 1 <= q
      OBVIOUS
    <3>1. q \in 2 .. Len(c) + 1 /\ q - 1 \in Declarers(c, m)
      BY <1>2, <1>7
    <3>2. n <= q - 1
      BY <2>1, <3>1
    <3> QED
      BY <2>2, <3>1, <3>2
  <2>4. LowestOf(Declarers(s, m)) = n + 1
    BY <1>3, <2>2, <2>3, LowestIs
  <2>5. s[n + 1] = c[n]
    BY <1>1, <2>2
  <2> QED
    BY <2>4, <2>5 DEF Nearest, n
<1> QED
  BY <1>5, <1>6, <1>7 DEF s

\* The names of a chain are those that somebody declares.
LEMMA NamesFacts ==
  ASSUME NEW D, NEW c \in Seq(D), NEW m
  PROVE  m \in NamesIn(c) <=> Declarers(c, m) # {}
<1>1. m \in NamesIn(c) <=> \E n \in DOMAIN c : \E d \in ToSet(c[n].members) : d.name = m
  BY DEF NamesIn
<1>2. \A n : (\E d \in ToSet(c[n].members) : d.name = m) <=> Places(c[n].members, m) # {}
  BY DEF ToSet, Places
<1> QED
  BY <1>1, <1>2 DEF Declarers

\* What a chain says of a name depends on the members only.
Alike(c, d) == DOMAIN c = DOMAIN d /\ \A n \in DOMAIN c : c[n].members = d[n].members

LEMMA AlikeFacts ==
  ASSUME NEW C, NEW D, NEW c \in Seq(C), NEW d \in Seq(D), Alike(c, d), NEW m
  PROVE  /\ Declarers(c, m) = Declarers(d, m)
         /\ Declarers(c, m) # {} => Nearest(c, m) = Nearest(d, m)
<1>1. Declarers(c, m) = Declarers(d, m)
  BY DEF Alike, Declarers
<1>2. Declarers(c, m) # {} => LowestOf(Declarers(c, m)) \in DOMAIN c
  BY DeclarersNat, LowestFacts
<1> QED
  BY <1>1, <1>2 DEF Alike, Nearest

LEMMA AlikeLink ==
  ASSUME NEW C, NEW D, NEW x \in C, NEW y \in D, NEW c \in Seq(C), NEW d \in Seq(D),
         x.members = y.members, Alike(c, d)
  PROVE  Alike(<<x>> \o c, <<y>> \o d)
<1> DEFINE s == <<x>> \o c
           t == <<y>> \o d
<1>1. /\ s \in Seq(C) /\ Len(s) = Len(c) + 1 /\ Len(c) \in Nat /\ s[1] = x
      /\ \A n \in 2 .. Len(c) + 1 : s[n] = c[n - 1]
  BY LinkFacts
<1>2. /\ t \in Seq(D) /\ Len(t) = Len(d) + 1 /\ Len(d) \in Nat /\ t[1] = y
      /\ \A n \in 2 .. Len(d) + 1 : t[n] = d[n - 1]
  BY LinkFacts
<1>3. Len(c) = Len(d) /\ \A n \in 1 .. Len(c) : c[n].members = d[n].members
  BY DEF Alike
<1> HIDE DEF s, t
<1>4. DOMAIN s = 1 .. Len(c) + 1 /\ DOMAIN t = 1 .. Len(c) + 1
  BY <1>1, <1>2, <1>3
<1>5. ASSUME NEW n \in 1 .. Len(c) + 1 PROVE s[n].members = t[n].members
  <2>1. CASE n = 1
    BY <1>1, <1>2, <2>1
  <2>2. CASE n # 1
    <3>1. n \in 2 .. Len(c) + 1 /\ n - 1 \in 1 .. Len(c)
      BY <1>1, <2>2
    <3> QED
      BY <1>1, <1>2, <1>3, <3>1
  <2> QED
    BY <2>1, <2>2
<1>6. Alike(s, t)
  BY <1>4, <1>5 DEF Alike
<1> QED
  BY <1>6 DEF s, t

----------------------------------------------------------------------------
(* The inductive invariant.                                                 *)

Impls ==
  UNION {{[proto |-> p, ty |-> ty, methods |-> d.methods] : p \in Nat, ty \in ToSet(TypeKeys(d.ty))} :
         d \in ImplementForms}

\* The well-known protocol is the first, a parent comes before its child, no
\* two protocols have a name, and a block is one of a protocol.
Registered ==
  /\ reg \in [protos : Seq(ProtocolDefs), impls : Seq(Impls)]
  /\ ParentFirst(reg)
  /\ reg.protos # <<>> /\ reg.protos[1] = WellKnown
  /\ \A p, q \in Ids(reg) : reg.protos[p].name = reg.protos[q].name => p = q
  /\ \A i \in DOMAIN reg.impls : reg.impls[i].proto \in Ids(reg)

\* What the program has declared, each protocol once, its parent before it.
Declared ==
  /\ file \in Seq(ProtocolForms \cup ImplementForms) /\ Len(file) <= MaxDecls
  /\ \A i, j \in DOMAIN file : file[i].k = "Protocol" /\ file[j].k = "Protocol" =>
       /\ file[i].name = file[j].name => i = j
       /\ file[i].parent # NoParent /\ file[j].name = file[i].parent => j < i
  /\ Accepted(file)

\* Protocol p of the registry is the one that d has declared.
Records(r, p, d) ==
  /\ p \in Ids(r) /\ p # 1
  /\ r.protos[p].name = d.name /\ r.protos[p].members = d.members
  /\ d.parent = NoParent => r.protos[p].parent = NoProtocol
  /\ d.parent # NoParent => /\ r.protos[p].parent \in Ids(r)
                      /\ r.protos[r.protos[p].parent].name = d.parent

\* Block b is of the implementation that d has declared.
Blocks(r, b, d) ==
  d.k = "Implement" /\ d.name = r.protos[b.proto].name /\ d.methods = b.methods

Recorded ==
  /\ \A i \in DOMAIN file : file[i].k = "Protocol" => \E p : Records(reg, p, file[i])
  /\ \A i \in DOMAIN reg.impls : \E j \in DOMAIN file : Blocks(reg, reg.impls[i], file[j])

Inv == Registered /\ Declared /\ Recorded

LEMMA FormFacts ==
  /\ \A d \in ProtocolForms :
       /\ d.k = "Protocol" /\ d.mod \in {1, 2} /\ Sequence(d.members)
       /\ \A i \in DOMAIN d.members : Written(d.members[i])
  /\ \A d \in ImplementForms : d.k = "Implement" /\ d.mod = 1 /\ Sequence(d.methods)
  /\ MaxDecls \in Nat
BY ProtocolsAssumption

LEMMA InitInv == Init => Inv
<1> SUFFICES ASSUME Init PROVE Inv
  OBVIOUS
<1>1. reg.protos = <<WellKnown>> /\ reg.impls = <<>> /\ file = <<>>
  BY DEF Init, InitialRegistry
<1>2. reg = [protos |-> <<WellKnown>>, impls |-> <<>>]
  BY DEF Init, InitialRegistry
<1>3. WellKnown \in ProtocolDefs
  BY DEF ProtocolDefs
<1>4. Ids(reg) = {1} /\ reg.protos[1] = WellKnown
  BY <1>1 DEF Ids
<1>5. WellKnown.parent = 0
  BY DEF WellKnown, NoProtocol
<1>6. <<WellKnown>> \in Seq(ProtocolDefs)
  BY <1>3
<1>7. reg \in [protos : Seq(ProtocolDefs), impls : Seq(Impls)]
  <2>1. <<>> \in Seq(Impls)
    OBVIOUS
  <2> QED
    BY <1>2, <1>6, <2>1
<1>8. ParentFirst(reg)
  BY <1>1, <1>4, <1>5, <1>6 DEF ParentFirst
<1>9. Registered
  BY <1>1, <1>4, <1>7, <1>8 DEF Registered
<1>10. Accepted(<<>>)
  BY DEF Accepted, ToSet
<1>11. Declared
  BY <1>1, <1>10, FormFacts DEF Declared
<1> QED
  BY <1>1, <1>9, <1>11 DEF Inv, Recorded

----------------------------------------------------------------------------
(* Sequences of declarations.                                               *)

LEMMA SequenceFacts ==
  ASSUME NEW s, Sequence(s)
  PROVE  /\ Len(s) \in Nat /\ DOMAIN s = 1 .. Len(s)
         /\ \A m : Places(s, m) \in SUBSET Nat /\ Places(s, m) \subseteq DOMAIN s
<1>1. Len(s) \in Nat /\ DOMAIN s = 1 .. Len(s)
  BY DEF Sequence
<1>2. \A m : Places(s, m) \subseteq DOMAIN s
  BY DEF Places
<1>3. DOMAIN s \subseteq Nat
  BY <1>1
<1> QED
  BY <1>1, <1>2, <1>3

\* The first declaration of a name is one of that name.
LEMMA FirstFacts ==
  ASSUME NEW s, Sequence(s), NEW m, Places(s, m) # {}
  PROVE  /\ First(s, m) \in ToSet(s) /\ First(s, m).name = m
         /\ \E i \in DOMAIN s : First(s, m) = s[i]
<1>1. LowestOf(Places(s, m)) \in Places(s, m)
  BY SequenceFacts, LowestFacts
<1> QED
  BY <1>1 DEF First, Places, ToSet

LEMMA WellKnownFacts ==
  /\ WellKnown.name = "Known" /\ WellKnown.parent = NoProtocol
  /\ Sequence(WellKnown.members)
  /\ \A i \in DOMAIN WellKnown.members : WellKnown.members[i].native
<1> DEFINE m == [Member("known", <<"self">>, FALSE, NoBody) EXCEPT !.native = TRUE]
<1>1. m.native
  BY DEF Member
<1>2. WellKnown = [name |-> "Known", parent |-> NoProtocol, members |-> <<m>>]
  BY DEF WellKnown
<1> HIDE DEF m
<1>3. <<m>> \in Seq(ToSet(<<m>>)) /\ DOMAIN <<m>> = {1} /\ <<m>>[1] = m
  BY DEF ToSet
<1> QED
  BY <1>1, <1>2, <1>3 DEF Sequence

LEMMA DefsFacts ==
  ASSUME NEW x \in ProtocolDefs
  PROVE  Sequence(x.members)
<1>1. CASE x = WellKnown
  BY <1>1, WellKnownFacts
<1>2. CASE x # WellKnown
  <2>1. PICK d \in ProtocolForms : x.members = d.members
    BY <1>2 DEF ProtocolDefs
  <2> QED
    BY <2>1, FormFacts
<1> QED
  BY <1>1, <1>2

LEMMA KeysFacts ==
  ASSUME NEW ty
  PROVE  Sequence(TypeKeys(ty)) /\ Len(TypeKeys(ty)) \in 1 .. 2
<1>1. \A x : <<x>> \in Seq(ToSet(<<x>>)) /\ Len(<<x>>) = 1
  BY DEF ToSet
<1>2. \A x, y : <<x, y>> \in Seq(ToSet(<<x, y>>)) /\ Len(<<x, y>>) = 2
  BY DEF ToSet
<1> QED
  BY <1>1, <1>2 DEF TypeKeys, Sequence

----------------------------------------------------------------------------
(* A registry that has grown.                                               *)

Grown(r, s) ==
  /\ Ids(r) \subseteq Ids(s) /\ \A p \in Ids(r) : s.protos[p] = r.protos[p]
  /\ DOMAIN r.impls \subseteq DOMAIN s.impls
  /\ \A i \in DOMAIN r.impls : s.impls[i] = r.impls[i]

\* The chains of the protocols it had are what they were.
LEMMA GrownChain ==
  ASSUME NEW r, NEW s, ParentFirst(r), ParentFirst(s), Grown(r, s), NEW p \in Ids(r)
  PROVE  Chain(s, p) = Chain(r, p) /\ Lineage(s, p) = Lineage(r, p)
<1> DEFINE N == Len(r.protos)
           S == {q \in 1 .. N : Chain(s, q) = Chain(r, q)}
<1>1. N \in Nat /\ Ids(r) = 1 .. N
  BY DEF ParentFirst, Ids
<1>2. ASSUME NEW n \in 1 .. N, \A m \in 1 .. n - 1 : m \in S
      PROVE  Chain(s, n) = Chain(r, n)
  <2> DEFINE q == r.protos[n].parent
  <2>1. n \in Ids(r) /\ n \in Ids(s) /\ s.protos[n] = r.protos[n] /\ q \in 0 .. n - 1
    BY <1>1 DEF Grown, ParentFirst
  <2>2. q = 0 \/ q \in 1 .. n - 1
    BY <2>1
  <2>3. q = 0 \/ Chain(s, q) = Chain(r, q)
    BY <1>2, <2>2
  <2>4. Chain(r, n) = <<n>> \o (IF q = NoProtocol THEN <<>> ELSE Chain(r, q))
    BY <2>1, ChainStep
  <2>5. Chain(s, n) = <<n>> \o (IF q = NoProtocol THEN <<>> ELSE Chain(s, q))
    BY <2>1, ChainStep
  <2> HIDE DEF q, S
  <2> QED
    BY <2>3, <2>4, <2>5 DEF NoProtocol
<1>3. \A n \in 1 .. N : (\A m \in 1 .. n - 1 : m \in S) => n \in S
  BY <1>2
<1> HIDE DEF S
<1>4. p \in S
  <2> HIDE DEF N
  <2> QED
    BY <1>1, <1>3, UpTo
<1>5. Chain(s, p) = Chain(r, p)
  BY <1>4 DEF S
<1>6. \A n \in DOMAIN Chain(r, p) : Chain(r, p)[n] \in Ids(r)
  <2>1. Chain(r, p) \in Seq(1 .. p) /\ p \in 1 .. N
    BY <1>1, ChainDescends DEF Descends
  <2> QED
    BY <1>1, <2>1
<1>7. Lineage(s, p) = Lineage(r, p)
  BY <1>5, <1>6 DEF Lineage, Grown
<1> QED
  BY <1>5, <1>7

----------------------------------------------------------------------------
(* Every step keeps the invariant.                                          *)

LEMMA IdFacts ==
  ASSUME NEW r, NEW name, Defined(r, name)
  PROVE  IdOf(r, name) \in Ids(r) /\ r.protos[IdOf(r, name)].name = name
BY DEF IdOf, Defined

LEMMA RegisteredFacts ==
  ASSUME Registered
  PROVE  /\ Ids(reg) = 1 .. Len(reg.protos) /\ Len(reg.protos) \in Nat /\ 1 \in Ids(reg)
         /\ DOMAIN reg.impls = 1 .. Len(reg.impls) /\ Len(reg.impls) \in Nat
         /\ reg = [protos |-> reg.protos, impls |-> reg.impls]
         /\ reg.protos \in Seq(ProtocolDefs) /\ reg.impls \in Seq(Impls)
         /\ \A p \in Ids(reg) : reg.protos[p] \in ProtocolDefs
<1>1. /\ reg = [protos |-> reg.protos, impls |-> reg.impls]
      /\ reg.protos \in Seq(ProtocolDefs) /\ reg.impls \in Seq(Impls)
      /\ reg.protos # <<>>
  BY DEF Registered
<1> HIDE DEF Registered
<1>2. Ids(reg) = 1 .. Len(reg.protos) /\ Len(reg.protos) \in Nat
  BY <1>1 DEF Ids
<1>3. Len(reg.protos) # 0
  BY <1>1
<1> QED
  BY <1>1, <1>2, <1>3 DEF Ids

LEMMA RecordsGrown ==
  ASSUME NEW r, NEW s, Grown(r, s), NEW p, NEW d, Records(r, p, d)
  PROVE  Records(s, p, d)
BY DEF Grown, Records

LEMMA DefineProtocolInv ==
  ASSUME Inv, DefineProtocol
  PROVE  Inv' /\ Grown(reg, reg') /\ DOMAIN reg'.impls = DOMAIN reg.impls
<1>1. PICK d \in ProtocolForms :
        /\ Len(file) < MaxDecls /\ ~Defined(reg, d.name)
        /\ d.parent # NoParent => Defined(reg, d.parent)
        /\ Accepted(Append(file, d)) /\ file' = Append(file, d)
        /\ reg' = [reg EXCEPT !.protos =
                     Append(@, [name |-> d.name, members |-> d.members,
                                parent |-> IF d.parent = NoParent THEN NoProtocol
                                           ELSE IdOf(reg, d.parent)])]
  BY DEF DefineProtocol
<1> DEFINE N == Len(reg.protos)
           q == IF d.parent = NoParent THEN NoProtocol ELSE IdOf(reg, d.parent)
           x == [name |-> d.name, members |-> d.members, parent |-> q]
           L == Len(file)
<1>2. /\ Ids(reg) = 1 .. N /\ N \in Nat /\ 1 \in Ids(reg)
      /\ reg = [protos |-> reg.protos, impls |-> reg.impls]
      /\ reg.protos \in Seq(ProtocolDefs) /\ reg.impls \in Seq(Impls)
  BY RegisteredFacts DEF Inv
<1>3. reg' = [protos |-> Append(reg.protos, x), impls |-> reg.impls]
  BY <1>1, <1>2
<1>4. /\ d.parent = NoParent => q = 0
      /\ d.parent # NoParent => q \in 1 .. N /\ reg.protos[q].name = d.parent
  BY <1>1, <1>2, IdFacts DEF NoProtocol
<1> HIDE DEF q
<1>5. q \in 0 .. N /\ q \in Nat
  <2>1. CASE d.parent = NoParent
    <3>1. q = 0
      BY <1>4, <2>1, Zenon
    <3> QED
      BY <1>2, <3>1
  <2>2. CASE d.parent # NoParent
    <3>1. q \in 1 .. N
      BY <1>4, <2>2
    <3> QED
      BY <1>2, <3>1
  <2> QED
    BY <2>1, <2>2
<1>6. /\ x \in ProtocolDefs /\ x.name = d.name /\ x.members = d.members /\ x.parent = q
  <2>1. x \in ProtocolDefs
    BY <1>5 DEF ProtocolDefs
  <2> QED
    BY <2>1
<1> HIDE DEF x
<1>7. /\ reg'.protos = Append(reg.protos, x) /\ reg'.impls = reg.impls
      /\ reg'.protos \in Seq(ProtocolDefs) /\ Ids(reg') = 1 .. N + 1
      /\ \A p \in 1 .. N : reg'.protos[p] = reg.protos[p]
      /\ reg'.protos[N + 1] = x
  BY <1>2, <1>3, <1>6 DEF Ids
<1>8. Grown(reg, reg')
  BY <1>2, <1>7 DEF Grown
<1>9. \A p \in 1 .. N + 1 : p \in 1 .. N \/ p = N + 1
  BY <1>2
<1>10. \A p \in Ids(reg) : reg.protos[p].name # d.name
  BY <1>1 DEF Defined
<1>11. Registered'
  <2>1. reg' \in [protos : Seq(ProtocolDefs), impls : Seq(Impls)]
    BY <1>2, <1>3, <1>7
  <2>2. ParentFirst(reg')
    <3>1. ASSUME NEW p \in Ids(reg') PROVE reg'.protos[p].parent \in 0 .. p - 1
      <4>1. CASE p \in 1 .. N
        BY <1>2, <1>7, <4>1 DEF Inv, Registered, ParentFirst
      <4>2. CASE p = N + 1
        BY <1>2, <1>5, <1>6, <1>7, <4>2
      <4> QED
        BY <1>7, <1>9, <4>1, <4>2
    <3> QED
      BY <1>7, <3>1 DEF ParentFirst
  <2>3. reg'.protos[1] = WellKnown /\ reg'.protos # <<>>
    <3>1. reg'.protos[1] = WellKnown
      BY <1>2, <1>7 DEF Inv, Registered
    <3>2. 1 \in DOMAIN reg'.protos
      BY <1>2, <1>7 DEF Ids
    <3> QED
      BY <3>1, <3>2
  <2>4. ASSUME NEW p \in Ids(reg'), NEW o \in Ids(reg'),
               reg'.protos[p].name = reg'.protos[o].name
        PROVE  p = o
    <3>1. CASE p \in 1 .. N /\ o \in 1 .. N
      BY <1>2, <1>7, <2>4, <3>1 DEF Inv, Registered
    <3>2. CASE p \in 1 .. N /\ o = N + 1
      BY <1>2, <1>6, <1>7, <1>10, <2>4, <3>2
    <3>3. CASE p = N + 1 /\ o \in 1 .. N
      BY <1>2, <1>6, <1>7, <1>10, <2>4, <3>3
    <3> QED
      BY <1>7, <1>9, <3>1, <3>2, <3>3
  <2>5. \A i \in DOMAIN reg'.impls : reg'.impls[i].proto \in Ids(reg')
    BY <1>7, <1>8 DEF Inv, Registered, Grown
  <2> QED
    BY <2>1, <2>2, <2>3, <2>4, <2>5 DEF Registered, Ids
<1> HIDE DEF L
<1>12. /\ file \in Seq(ProtocolForms \cup ImplementForms) /\ L \in Nat
       /\ file' \in Seq(ProtocolForms \cup ImplementForms) /\ Len(file') = L + 1
       /\ DOMAIN file = 1 .. L /\ DOMAIN file' = 1 .. L + 1
       /\ \A i \in 1 .. L : file'[i] = file[i]
       /\ file'[L + 1] = d
  <2>1. file \in Seq(ProtocolForms \cup ImplementForms) /\ d \in ProtocolForms \cup ImplementForms
    BY DEF Inv, Declared
  <2>2. file' = Append(file, d)
    BY <1>1
  <2> QED
    BY <2>1, <2>2 DEF L
<1>13. \A i \in 1 .. L + 1 : i \in 1 .. L \/ i = L + 1
  BY <1>12
<1>14. \A i \in 1 .. L : file[i].k = "Protocol" =>
         /\ file[i].name # d.name
         /\ file[i].parent # NoParent => file[i].parent # d.name
  <2> SUFFICES ASSUME NEW i \in 1 .. L, file[i].k = "Protocol"
               PROVE  /\ file[i].name # d.name
                      /\ file[i].parent # NoParent => file[i].parent # d.name
    OBVIOUS
  <2>1. PICK p : Records(reg, p, file[i])
    BY <1>12 DEF Inv, Recorded
  <2> QED
    BY <1>10, <2>1 DEF Records
<1>15. d.parent # NoParent => d.parent # d.name
  BY <1>2, <1>4, <1>10
<1>16. Declared'
  <2>1. ASSUME NEW i \in DOMAIN file', NEW j \in DOMAIN file',
               file'[i].k = "Protocol", file'[j].k = "Protocol"
        PROVE  /\ file'[i].name = file'[j].name => i = j
               /\ file'[i].parent # NoParent /\ file'[j].name = file'[i].parent => j < i
    <3>1. CASE i \in 1 .. L /\ j \in 1 .. L
      BY <1>12, <2>1, <3>1 DEF Inv, Declared
    <3>2. CASE i \in 1 .. L /\ j = L + 1
      BY <1>12, <1>14, <2>1, <3>2
    <3>3. CASE i = L + 1 /\ j \in 1 .. L
      <4>1. j < i
        BY <1>12, <3>3
      <4> QED
        BY <1>12, <1>14, <2>1, <3>3, <4>1
    <3>4. CASE i = L + 1 /\ j = L + 1
      BY <1>12, <1>15, <3>4
    <3> QED
      BY <1>12, <1>13, <3>1, <3>2, <3>3, <3>4
  <2>2. Len(file') <= MaxDecls
    <3>1. L < MaxDecls /\ MaxDecls \in Nat
      BY <1>1, FormFacts DEF L
    <3> QED
      BY <1>12, <3>1
  <2>3. Accepted(file')
    BY <1>1
  <2> QED
    BY <1>12, <2>1, <2>2, <2>3 DEF Declared
<1>17. Recorded'
  <2>1. ASSUME NEW i \in DOMAIN file', file'[i].k = "Protocol"
        PROVE  \E p : Records(reg', p, file'[i])
    <3>1. CASE i \in 1 .. L
      <4>1. PICK p : Records(reg, p, file[i])
        BY <1>12, <2>1, <3>1 DEF Inv, Recorded
      <4>2. Records(reg', p, file[i])
        BY <1>8, <4>1, RecordsGrown
      <4> QED
        BY <1>12, <3>1, <4>2
    <3>2. CASE i = L + 1
      <4>1. N + 1 \in Ids(reg') /\ N + 1 # 1 /\ reg'.protos[N + 1] = x
        BY <1>2, <1>7
      <4>2. d.parent # NoParent => q \in Ids(reg') /\ reg'.protos[q].name = d.parent
        <5>1. \A o \in 1 .. N : o \in Ids(reg') /\ reg'.protos[o] = reg.protos[o]
          BY <1>2, <1>7
        <5> QED
          BY <1>4, <5>1
      <4>3. Records(reg', N + 1, d)
        BY <1>4, <1>6, <4>1, <4>2 DEF Records, NoProtocol
      <4> QED
        BY <1>12, <3>2, <4>3
    <3> QED
      BY <1>12, <1>13, <3>1, <3>2
  <2>2. ASSUME NEW i \in DOMAIN reg'.impls
        PROVE  \E j \in DOMAIN file' : Blocks(reg', reg'.impls[i], file'[j])
    <3>1. i \in DOMAIN reg.impls /\ reg'.impls[i] = reg.impls[i]
      BY <1>7
    <3>2. PICK j \in 1 .. L : Blocks(reg, reg.impls[i], file[j])
      BY <1>12, <3>1 DEF Inv, Recorded
    <3>3. reg.impls[i].proto \in Ids(reg)
      BY <3>1 DEF Inv, Registered
    <3>4. Blocks(reg', reg'.impls[i], file[j])
      BY <1>8, <3>1, <3>2, <3>3 DEF Blocks, Grown
    <3>5. j \in DOMAIN file' /\ file'[j] = file[j]
      BY <1>12
    <3> QED
      BY <3>4, <3>5
  <2> QED
    BY <2>1, <2>2 DEF Recorded
<1> QED
  BY <1>7, <1>8, <1>11, <1>16, <1>17 DEF Inv

LEMMA JoinFacts ==
  ASSUME NEW D, NEW s \in Seq(D), NEW t \in Seq(D)
  PROVE  /\ s \o t \in Seq(D) /\ Len(s \o t) = Len(s) + Len(t)
         /\ Len(s) \in Nat /\ Len(t) \in Nat
         /\ \A i \in 1 .. Len(s) : (s \o t)[i] = s[i]
         /\ \A i \in 1 .. Len(t) : (s \o t)[Len(s) + i] = t[i]
OBVIOUS

\* The new blocks of an implementation come after those there were.
NewBlocks(r, d) ==
  [i \in DOMAIN TypeKeys(d.ty) |->
     [proto |-> IdOf(r, d.name), ty |-> TypeKeys(d.ty)[i], methods |-> d.methods]]

LEMMA DefineImplementInv ==
  ASSUME Inv, DefineImplement
  PROVE  /\ Inv' /\ Grown(reg, reg') /\ reg'.protos = reg.protos
         /\ \A i \in DOMAIN reg'.impls : reg'.impls[i].proto \in Ids(reg)
<1>1. PICK d \in ImplementForms :
        /\ Len(file) < MaxDecls /\ Defined(reg, d.name)
        /\ Accepted(Append(file, d)) /\ file' = Append(file, d)
        /\ reg' = [reg EXCEPT !.impls = @ \o NewBlocks(reg, d)]
  BY DEF DefineImplement, NewBlocks
<1> DEFINE N == Len(reg.impls)
           p == IdOf(reg, d.name)
           t == NewBlocks(reg, d)
           L == Len(file)
<1>2. /\ Ids(reg) = 1 .. Len(reg.protos)
      /\ DOMAIN reg.impls = 1 .. N /\ N \in Nat
      /\ reg = [protos |-> reg.protos, impls |-> reg.impls]
      /\ reg.protos \in Seq(ProtocolDefs) /\ reg.impls \in Seq(Impls)
  BY RegisteredFacts DEF Inv
<1>3. reg' = [protos |-> reg.protos, impls |-> reg.impls \o t]
  BY <1>1, <1>2
<1>4. p \in Ids(reg) /\ reg.protos[p].name = d.name /\ p \in Nat
  BY <1>1, <1>2, IdFacts
<1>5. /\ t \in Seq(Impls) /\ Len(t) \in Nat
      /\ \A i \in 1 .. Len(t) : t[i].proto = p /\ t[i].methods = d.methods
  <2> DEFINE n == Len(TypeKeys(d.ty))
  <2>1. n \in Nat /\ DOMAIN TypeKeys(d.ty) = 1 .. n
    BY KeysFacts, SequenceFacts
  <2> HIDE DEF n, p
  <2>2. t = [i \in 1 .. n |-> [proto |-> p, ty |-> TypeKeys(d.ty)[i], methods |-> d.methods]]
    BY <2>1 DEF NewBlocks, p
  <2>3. \A i \in 1 .. n : t[i] \in Impls
    <3> SUFFICES ASSUME NEW i \in 1 .. n PROVE t[i] \in Impls
      OBVIOUS
    <3> DEFINE ty == TypeKeys(d.ty)[i]
    <3>1. ty \in ToSet(TypeKeys(d.ty))
      BY <2>1 DEF ToSet
    <3>2. t[i] = [proto |-> p, ty |-> ty, methods |-> d.methods]
      BY <2>2
    <3> HIDE DEF ty, t
    <3> DEFINE B == {[proto |-> q, ty |-> y, methods |-> d.methods] :
                      q \in Nat, y \in ToSet(TypeKeys(d.ty))}
    <3>3. [proto |-> p, ty |-> ty, methods |-> d.methods] \in B
      BY <1>4, <3>1
    <3>4. B \subseteq Impls
      BY DEF Impls
    <3> HIDE DEF B
    <3> QED
      BY <3>2, <3>3, <3>4
  <2> QED
    BY <2>1, <2>2, <2>3
<1> HIDE DEF t, p
<1>6. /\ reg.impls \o t \in Seq(Impls) /\ Len(reg.impls \o t) = N + Len(t)
      /\ \A i \in 1 .. N : (reg.impls \o t)[i] = reg.impls[i]
      /\ \A i \in 1 .. Len(t) : (reg.impls \o t)[N + i] = t[i]
  BY <1>2, <1>5, JoinFacts
<1>7. /\ reg'.protos = reg.protos /\ reg'.impls \in Seq(Impls)
      /\ Ids(reg') = Ids(reg) /\ DOMAIN reg'.impls = 1 .. N + Len(t)
      /\ \A i \in 1 .. N : reg'.impls[i] = reg.impls[i]
      /\ \A i \in 1 .. Len(t) : reg'.impls[N + i] = t[i]
  BY <1>3, <1>6 DEF Ids
<1> HIDE DEF N
<1>8. Grown(reg, reg')
  <2>1. DOMAIN reg.impls \subseteq DOMAIN reg'.impls
    BY <1>2, <1>5, <1>7
  <2> QED
    BY <1>2, <1>7, <2>1 DEF Grown
<1>9. \A i \in DOMAIN reg'.impls : i \in 1 .. N \/ \E j \in 1 .. Len(t) : i = N + j
  <2> SUFFICES ASSUME NEW i \in 1 .. N + Len(t), i \notin 1 .. N
               PROVE  i - N \in 1 .. Len(t) /\ i = N + (i - N)
    BY <1>7
  <2> QED
    BY <1>2, <1>5
<1>10. ASSUME NEW i \in DOMAIN reg'.impls PROVE reg'.impls[i].proto \in Ids(reg)
  <2>1. CASE i \in 1 .. N
    BY <1>2, <1>7, <2>1 DEF Inv, Registered
  <2>2. CASE i \notin 1 .. N
    BY <1>4, <1>5, <1>7, <1>9, <2>2
  <2> QED
    BY <2>1, <2>2
<1>11. Registered'
  <2>1. reg' \in [protos : Seq(ProtocolDefs), impls : Seq(Impls)]
    BY <1>2, <1>3, <1>6
  <2>2. ParentFirst(reg')
    BY <1>7 DEF Inv, Registered, ParentFirst
  <2>3. /\ reg'.protos[1] = WellKnown /\ reg'.protos # <<>>
        /\ \A o, q \in Ids(reg') : reg'.protos[o].name = reg'.protos[q].name => o = q
    BY <1>7 DEF Inv, Registered
  <2> QED
    BY <1>7, <1>10, <2>1, <2>2, <2>3 DEF Registered
<1> HIDE DEF L
<1>12. /\ file \in Seq(ProtocolForms \cup ImplementForms) /\ L \in Nat
       /\ file' \in Seq(ProtocolForms \cup ImplementForms) /\ Len(file') = L + 1
       /\ DOMAIN file = 1 .. L /\ DOMAIN file' = 1 .. L + 1
       /\ \A i \in 1 .. L : file'[i] = file[i]
       /\ file'[L + 1] = d
  <2>1. file \in Seq(ProtocolForms \cup ImplementForms) /\ d \in ProtocolForms \cup ImplementForms
    BY DEF Inv, Declared
  <2>2. file' = Append(file, d)
    BY <1>1
  <2> QED
    BY <2>1, <2>2 DEF L
<1>13. d.k = "Implement" /\ d.k # "Protocol"
  BY FormFacts
<1>14. \A i \in 1 .. L + 1 : file'[i].k = "Protocol" => i \in 1 .. L
  BY <1>12, <1>13
<1>15. Declared'
  <2>1. \A i, j \in DOMAIN file' : file'[i].k = "Protocol" /\ file'[j].k = "Protocol" =>
          /\ file'[i].name = file'[j].name => i = j
          /\ file'[i].parent # NoParent /\ file'[j].name = file'[i].parent => j < i
    BY <1>12, <1>14 DEF Inv, Declared
  <2>2. Len(file') <= MaxDecls
    <3>1. L < MaxDecls /\ MaxDecls \in Nat
      BY <1>1, FormFacts DEF L
    <3> QED
      BY <1>12, <3>1
  <2>3. Accepted(file')
    BY <1>1
  <2> QED
    BY <1>12, <2>1, <2>2, <2>3 DEF Declared
<1>16. Recorded'
  <2>1. ASSUME NEW i \in DOMAIN file', file'[i].k = "Protocol"
        PROVE  \E o : Records(reg', o, file'[i])
    <3>1. i \in 1 .. L /\ file'[i] = file[i]
      BY <1>12, <1>14, <2>1
    <3>2. PICK o : Records(reg, o, file[i])
      BY <1>12, <2>1, <3>1 DEF Inv, Recorded
    <3> QED
      BY <1>8, <3>1, <3>2, RecordsGrown
  <2>2. ASSUME NEW i \in DOMAIN reg'.impls
        PROVE  \E j \in DOMAIN file' : Blocks(reg', reg'.impls[i], file'[j])
    <3>1. CASE i \in 1 .. N
      <4>1. i \in DOMAIN reg.impls /\ reg'.impls[i] = reg.impls[i]
        BY <1>2, <1>7, <3>1
      <4>2. PICK j \in 1 .. L : Blocks(reg, reg.impls[i], file[j])
        BY <1>12, <4>1 DEF Inv, Recorded
      <4>3. Blocks(reg', reg'.impls[i], file[j])
        BY <1>7, <4>1, <4>2 DEF Blocks
      <4>4. j \in DOMAIN file' /\ file'[j] = file[j]
        BY <1>12
      <4> QED
        BY <4>3, <4>4
    <3>2. CASE i \notin 1 .. N
      <4>1. PICK j \in 1 .. Len(t) : reg'.impls[i] = t[j]
        BY <1>7, <1>9, <3>2
      <4>2. Blocks(reg', reg'.impls[i], d)
        BY <1>4, <1>5, <1>7, <1>13, <4>1 DEF Blocks
      <4>3. L + 1 \in DOMAIN file'
        BY <1>12
      <4> QED
        BY <1>12, <4>2, <4>3
    <3> QED
      BY <3>1, <3>2
  <2> QED
    BY <2>1, <2>2 DEF Recorded
<1> QED
  BY <1>7, <1>8, <1>10, <1>11, <1>15, <1>16 DEF Inv

LEMMA StepInv ==
  ASSUME Inv, [Next]_vars
  PROVE  /\ Inv' /\ Grown(reg, reg')
         /\ \A i \in DOMAIN reg'.impls : reg'.impls[i].proto \in Ids(reg)
<1>1. CASE DefineProtocol
  <2>1. Inv' /\ Grown(reg, reg') /\ DOMAIN reg'.impls = DOMAIN reg.impls
    BY <1>1, DefineProtocolInv
  <2> QED
    BY <2>1 DEF Inv, Registered, Grown
<1>2. CASE DefineImplement
  BY <1>2, DefineImplementInv
<1>3. CASE UNCHANGED vars
  <2>1. reg' = reg /\ file' = file
    BY <1>3 DEF vars
  <2>2. Registered' /\ Declared' /\ Recorded'
    <3>1. Registered'
      BY <2>1 DEF Inv, Registered
    <3>2. Declared'
      BY <2>1 DEF Inv, Declared
    <3>3. Recorded'
      BY <2>1 DEF Inv, Recorded
    <3> QED
      BY <3>1, <3>2, <3>3
  <2>3. \A i \in DOMAIN reg.impls : reg.impls[i].proto \in Ids(reg)
    BY DEF Inv, Registered
  <2> QED
    BY <2>1, <2>2, <2>3 DEF Grown, Inv
<1> QED
  BY <1>1, <1>2, <1>3 DEF Next

\* The registry is what the declarations made of it.
THEOREM Invariance == Spec => []Inv
<1>1. Inv /\ [Next]_vars => Inv'
  BY StepInv
<1> QED
  BY InitInv, <1>1, PTL DEF Spec

----------------------------------------------------------------------------
(* Who declares a member, and who reaches whom.                             *)

LEMMA LineageFacts ==
  ASSUME NEW r, ParentFirst(r), NEW p \in Ids(r)
  PROVE  /\ Lineage(r, p) \in Seq(ProtocolDefs)
         /\ \A m : Declares(r, p, m) <=>
                     \E q \in ToSet(Chain(r, p)) : Places(r.protos[q].members, m) # {}
         /\ ToSet(Chain(r, p)) \subseteq 1 .. p /\ p \in ToSet(Chain(r, p))
         /\ \A q \in ToSet(Chain(r, p)) : q \in Ids(r) /\ q <= p
         /\ \A q \in ToSet(Chain(r, p)) : ToSet(Chain(r, q)) \subseteq ToSet(Chain(r, p))
<1> DEFINE c == Chain(r, p)
<1>1. /\ c \in Seq(1 .. p) /\ p \in ToSet(c)
      /\ \A q \in ToSet(c) : ToSet(Chain(r, q)) \subseteq ToSet(c)
  BY ChainDescends DEF Descends
<1>2. Ids(r) = 1 .. Len(r.protos) /\ Len(r.protos) \in Nat
  BY DEF ParentFirst, Ids
<1>3. Lineage(r, p) = [n \in DOMAIN c |-> r.protos[c[n]]]
  BY DEF Lineage
<1> HIDE DEF c
<1>4. ToSet(c) \subseteq 1 .. p
  <2> DEFINE D == 1 .. p
  <2>1. c \in Seq(D)
    BY <1>1
  <2> HIDE DEF D
  <2>2. \A n \in DOMAIN c : c[n] \in D
    BY <2>1
  <2> QED
    BY <2>2 DEF ToSet, D
<1>5. \A q \in ToSet(c) : q \in Ids(r) /\ q <= p
  BY <1>2, <1>4
<1>6. ASSUME NEW m
      PROVE  Declares(r, p, m) <=> \E q \in ToSet(c) : Places(r.protos[q].members, m) # {}
  <2>1. Declares(r, p, m) <=> \E n \in DOMAIN c : Places(r.protos[c[n]].members, m) # {}
    BY <1>3 DEF Declares, Declarers
  <2> QED
    BY <2>1 DEF ToSet
<1> QED
  BY <1>1, <1>4, <1>5, <1>6, LineageStep DEF c

\* A protocol has the members of those it reaches.
LEMMA ReachesFacts ==
  ASSUME NEW r, ParentFirst(r), NEW p \in Ids(r), NEW q, Reaches(r, p, q)
  PROVE  /\ q \in Ids(r) /\ q <= p
         /\ \A m : Declares(r, q, m) => Declares(r, p, m)
<1>1. q \in ToSet(Chain(r, p))
  BY DEF Reaches
<1>2. q \in Ids(r) /\ q <= p /\ ToSet(Chain(r, q)) \subseteq ToSet(Chain(r, p))
  BY <1>1, LineageFacts
<1> QED
  BY <1>2, LineageFacts

\* One of any candidates is maximal: the latest is.
LEMMA MaximalFacts ==
  ASSUME NEW r, ParentFirst(r), NEW S \in SUBSET Ids(r)
  PROVE  /\ Maximal(r, S) \subseteq S /\ Maximal(r, S) \in SUBSET Nat
         /\ IsFiniteSet(Maximal(r, S)) /\ IsFiniteSet(S)
         /\ S # {} => Maximal(r, S) # {}
<1> DEFINE N == Len(r.protos)
<1>1. Ids(r) = 1 .. N /\ N \in Nat
  BY DEF ParentFirst, Ids
<1>2. Maximal(r, S) \subseteq S
  BY DEF Maximal
<1>3. IsFiniteSet(1 .. N)
  BY <1>1, FS_Interval
<1>4. IsFiniteSet(S) /\ IsFiniteSet(Maximal(r, S))
  BY <1>1, <1>2, <1>3, FS_Subset
<1>5. ASSUME S # {} PROVE Maximal(r, S) # {}
  <2> DEFINE T == {n \in Nat : N - n \in S}
  <2>1. PICK s \in S : TRUE
    BY <1>5
  <2>2. N - s \in T
    BY <1>1
  <2>3. PICK n \in T : \A y \in T : n <= y
    BY <2>2, LeastElement
  <2>4. \A q \in S : N - q \in T
    BY <1>1
  <2>5. N - n \in S /\ \A q \in S : q <= N - n
    <3>1. \A q \in S : n <= N - q
      BY <2>3, <2>4
    <3>2. n \in Nat /\ \A q \in S : q \in Nat
      BY <1>1
    <3> QED
      BY <1>1, <3>1, <3>2
  <2> HIDE DEF T
  <2>6. PICK p \in S : \A q \in S : q <= p
    BY <2>5
  <2>7. ASSUME NEW q \in S \ {p}, Reaches(r, q, p) PROVE FALSE
    <3>1. p <= q
      BY <2>7, ReachesFacts
    <3>2. q <= p /\ q # p /\ q \in Nat /\ p \in Nat
      BY <1>1, <2>6, <2>7
    <3> QED
      BY <3>1, <3>2
  <2>8. p \in Maximal(r, S)
    BY <2>6, <2>7 DEF Maximal
  <2> QED
    BY <2>8
<1> QED
  BY <1>1, <1>2, <1>4, <1>5

----------------------------------------------------------------------------
(* What a call resolves to.                                                 *)

Candidates(r, m, ty, filter) ==
  {p \in Ids(r) : filter \in {NoProtocol, p} /\ Declares(r, p, m) /\ IsImplemented(r, p, ty)}

\* No candidate: a native or the declaring protocol.  One maximal: what it
\* supplies.  More: two of them are named.
LEMMA ResolveFacts ==
  ASSUME NEW r, ParentFirst(r), NEW m, NEW ty, NEW filter
  PROVE  LET S == Candidates(r, m, ty, filter)
             best == Maximal(r, S)
             d == Resolve(r, m, ty, filter)
         IN /\ S = {} /\ NativeDefault(r, m) => d = Native
            /\ S = {} /\ ~NativeDefault(r, m) =>
                 d = NotImplemented(DeclaringProtocol(r, m, filter))
            /\ \A p : best = {p} => p \in S /\ d = Supplied(r, p, m, ty)
            /\ S # {} /\ (\A p : best # {p}) =>
                 \E p, q \in S : d = Ambiguous(p, q)
            /\ S # {} => best # {}
<1> DEFINE S == Candidates(r, m, ty, filter)
           best == Maximal(r, S)
           d == Resolve(r, m, ty, filter)
           first == LowestOf(best)
           second == LowestOf(best \ {first})
<1>1. S \in SUBSET Ids(r)
  BY DEF Candidates
<1>2. d = IF best = {}
          THEN IF NativeDefault(r, m) THEN Native
               ELSE NotImplemented(DeclaringProtocol(r, m, filter))
          ELSE IF Cardinality(best) = 1 THEN Supplied(r, first, m, ty)
          ELSE Ambiguous(first, second)
  BY Zenon DEF Resolve, Candidates
<1> HIDE DEF S, d
<1>3. /\ best \subseteq S /\ best \in SUBSET Nat /\ IsFiniteSet(best)
      /\ S # {} => best # {}
  BY <1>1, MaximalFacts
<1> HIDE DEF best
<1>4. S = {} => best = {}
  BY <1>3
<1>5. ASSUME NEW p, best = {p} PROVE p \in S /\ d = Supplied(r, p, m, ty)
  <2>1. p \in Nat /\ p \in S
    BY <1>3, <1>5
  <2>2. first = p
    BY <1>5, <2>1, LowestIs
  <2>3. Cardinality(best) = 1 /\ best # {}
    BY <1>5, FS_Singleton
  <2> HIDE DEF first, second
  <2> QED
    BY <1>2, <2>1, <2>2, <2>3
<1>6. ASSUME S # {}, \A p : best # {p} PROVE \E p, q \in S : d = Ambiguous(p, q)
  <2>1. Cardinality(best) # 1
    BY <1>3, <1>6, FS_Singleton
  <2>2. first \in best
    BY <1>3, <1>6, LowestFacts
  <2>3. best \ {first} # {} /\ best \ {first} \in SUBSET Nat
    BY <1>3, <1>6, <2>2
  <2>4. second \in best \ {first}
    BY <2>3, LowestFacts
  <2> HIDE DEF first, second
  <2>5. d = Ambiguous(first, second)
    BY <1>2, <2>1, <2>2
  <2> QED
    BY <1>3, <2>2, <2>4, <2>5
<1> HIDE DEF first, second
<1>7. /\ S = {} /\ NativeDefault(r, m) => d = Native
      /\ S = {} /\ ~NativeDefault(r, m) =>
           d = NotImplemented(DeclaringProtocol(r, m, filter))
  BY <1>2, <1>4
<1> QED
  BY <1>3, <1>5, <1>6, <1>7 DEF S, best, d

\* A qualified call of a protocol that has the member and is implemented.
LEMMA ResolveQualified ==
  ASSUME NEW r, ParentFirst(r), NEW m, NEW ty, NEW p \in Ids(r),
         Declares(r, p, m), IsImplemented(r, p, ty)
  PROVE  Resolve(r, m, ty, p) = Supplied(r, p, m, ty)
<1>1. p # NoProtocol
  BY DEF ParentFirst, Ids, NoProtocol
<1>2. Candidates(r, m, ty, p) = {p}
  BY <1>1 DEF Candidates
<1>3. Maximal(r, {p}) = {p}
  BY DEF Maximal
<1> QED
  BY <1>2, <1>3, ResolveFacts

\* What is supplied is a body, but where there is neither method nor default.
LEMMA SuppliedFacts ==
  ASSUME NEW r, NEW p, NEW m, NEW ty
  PROVE  LET d == Supplied(r, p, m, ty)
             s == Supplying(r, p, ty, m) # {}
             f == Defaulting(Lineage(r, p), m) # {}
         IN /\ s => d = Call(Method(r, p, ty, m))
            /\ ~s /\ f => d = Call(DefaultBody(Lineage(r, p), m))
            /\ ~s /\ ~f /\ NativeDefault(r, m) => d = Native
            /\ ~s /\ ~f /\ ~NativeDefault(r, m) => d = NotImplemented(p)
BY Zenon DEF Supplied

LEMMA KindFacts ==
  /\ \A b : Call(b).k = "Call" /\ Call(b).body = b
  /\ Native.k = "Native"
  /\ \A p : NotImplemented(p).k = "NotImplemented" /\ NotImplemented(p).proto = p
  /\ \A p, q : Ambiguous(p, q).k = "Ambiguous" /\ Ambiguous(p, q).protos = {p, q}
BY DEF Call, Native, NotImplemented, Ambiguous

----------------------------------------------------------------------------
(* The resolver's chains.                                                   *)

LEMMA DeclFacts ==
  ASSUME Declared, NEW of
  PROVE  /\ \A i \in ProtocolsIn(file, of) :
              /\ i \in 1 .. Len(file) /\ file[i] \in ProtocolForms /\ file[i].mod = of
              /\ InModule(file, of, file[i].name) /\ DeclOf(file, of, file[i].name) = i
         /\ \A name : InModule(file, of, name) =>
              /\ DeclOf(file, of, name) \in ProtocolsIn(file, of)
              /\ file[DeclOf(file, of, name)].name = name
         /\ Len(file) \in Nat
<1>1. /\ file \in Seq(ProtocolForms \cup ImplementForms)
      /\ Len(file) \in Nat /\ DOMAIN file = 1 .. Len(file)
  <2>1. file \in Seq(ProtocolForms \cup ImplementForms)
    BY DEF Declared
  <2> QED
    BY <2>1
<1>2. \A i \in ProtocolsIn(file, of) :
        i \in DOMAIN file /\ file[i].k = "Protocol" /\ file[i].mod = of
  BY DEF ProtocolsIn
<1>3. \A i \in ProtocolsIn(file, of) : file[i] \in ProtocolForms
  <2>1. \A d \in ImplementForms : d.k # "Protocol"
    BY FormFacts
  <2> QED
    BY <1>1, <1>2, <2>1
<1>4. \A name : InModule(file, of, name) =>
        /\ DeclOf(file, of, name) \in ProtocolsIn(file, of)
        /\ file[DeclOf(file, of, name)].name = name
  BY DEF InModule, DeclOf
<1>5. ASSUME NEW i \in ProtocolsIn(file, of)
      PROVE  InModule(file, of, file[i].name) /\ DeclOf(file, of, file[i].name) = i
  <2>1. InModule(file, of, file[i].name)
    BY DEF InModule
  <2>2. DeclOf(file, of, file[i].name) \in ProtocolsIn(file, of)
        /\ file[DeclOf(file, of, file[i].name)].name = file[i].name
    BY <1>4, <2>1
  <2> QED
    BY <1>2, <2>1, <2>2 DEF Declared
<1> QED
  BY <1>1, <1>2, <1>3, <1>4, <1>5

LEMMA ModuleChainStep ==
  ASSUME Declared, NEW of, NEW i \in ProtocolsIn(file, of)
  PROVE  LET q == file[i].parent
         IN ModuleChain(file, of, file[i].name) =
              <<file[i]>> \o (IF q # NoParent /\ InModule(file, of, q)
                              THEN ModuleChain(file, of, q) ELSE <<>>)
<1> DEFINE S == ProtocolsIn(file, of)
           On(j) == file[j].parent # NoParent /\ InModule(file, of, file[j].parent)
           To(j) == DeclOf(file, of, file[j].parent)
           head == [j \in S |-> file[j]]
           up == [j \in S |-> IF On(j) THEN To(j) ELSE 0]
           Up == CHOOSE f : f = [j \in S |-> <<file[j]>> \o
                   (IF file[j].parent # NoParent /\ InModule(file, of, file[j].parent)
                    THEN f[DeclOf(file, of, file[j].parent)] ELSE <<>>)]
<1>1. /\ S \in SUBSET (1 .. Len(file)) /\ Len(file) \in Nat
      /\ DeclOf(file, of, file[i].name) = i
  BY DeclFacts
<1>2. \A j \in S : On(j) => To(j) \in S /\ To(j) < j /\ To(j) # 0
  <2> SUFFICES ASSUME NEW j \in S, On(j) PROVE To(j) \in S /\ To(j) < j /\ To(j) # 0
    OBVIOUS
  <2>1. To(j) \in S /\ file[To(j)].name = file[j].parent
    BY DeclFacts
  <2>2. /\ j \in DOMAIN file /\ file[j].k = "Protocol"
        /\ To(j) \in DOMAIN file /\ file[To(j)].k = "Protocol"
    BY <2>1 DEF ProtocolsIn
  <2>3. To(j) < j
    BY <2>1, <2>2 DEF Declared
  <2> HIDE DEF S, To
  <2>4. To(j) # 0
    <3>1. 0 \notin S
      <4>1. S \subseteq 1 .. Len(file)
        BY <1>1
      <4>2. 0 \notin 1 .. Len(file)
        BY <1>1
      <4> QED
        BY <4>1, <4>2, Zenon
    <3> QED
      BY <2>1, <3>1, Zenon
  <2> QED
    BY <2>1, <2>3, <2>4
<1>3. \A j \in S : up[j] # 0 => up[j] \in S /\ up[j] < j
  <2> HIDE DEF S, On, To
  <2> QED
    BY <1>2
<1>4. PICK f : Climbs(f, S, head, up)
  <2> HIDE DEF S, head, up
  <2> QED
    BY <1>1, <1>3, ClimbExists
<1>5. f = [j \in S |-> <<file[j]>> \o (IF On(j) THEN f[To(j)] ELSE <<>>)]
  <2>1. f = [j \in S |-> <<head[j]>> \o (IF up[j] = 0 THEN <<>> ELSE f[up[j]])]
    BY <1>4, Zenon DEF Climbs
  <2>2. ASSUME NEW j \in S
        PROVE  <<head[j]>> \o (IF up[j] = 0 THEN <<>> ELSE f[up[j]]) =
               <<file[j]>> \o (IF On(j) THEN f[To(j)] ELSE <<>>)
    <3>1. head[j] = file[j] /\ up[j] = IF On(j) THEN To(j) ELSE 0
      OBVIOUS
    <3>2. On(j) => To(j) # 0
      BY <1>2
    <3> HIDE DEF S, head, up, On, To
    <3>3. CASE On(j)
      <4>1. up[j] = To(j) /\ up[j] # 0
        BY <3>1, <3>2, <3>3
      <4> QED
        BY <3>1, <3>3, <4>1
    <3>4. CASE ~On(j)
      <4>1. up[j] = 0
        BY <3>1, <3>4
      <4> QED
        BY <3>1, <3>4, <4>1
    <3> QED
      BY <3>3, <3>4
  <2> HIDE DEF S, head, up, On, To
  <2> QED
    BY <2>1, <2>2, Zenon
<1>6. Up = [j \in S |-> <<file[j]>> \o (IF On(j) THEN Up[To(j)] ELSE <<>>)]
  BY <1>5, Zenon
<1>7. \A name : ModuleChain(file, of, name) = Up[DeclOf(file, of, name)]
  BY Zenon DEF ModuleChain
<1> HIDE DEF Up
<1>8. Up[i] = <<file[i]>> \o (IF On(i) THEN Up[To(i)] ELSE <<>>)
  BY <1>6
<1> QED
  BY <1>1, <1>7, <1>8

\* All that the resolver knows of a protocol whose chain it saw: the chain, to
\* its end, and that the chain's declarations of a member have one shape.
Known(p) ==
  LET c == ModuleChain(file, 1, reg.protos[p].name)
      l == Lineage(reg, p)
  IN /\ c \in Seq(ProtocolForms) /\ c # <<>> /\ Alike(c, l)
     /\ c[Len(c)].parent = NoParent
     /\ \A m : \A n \in Declarers(l, m) : Shape(First(l[n].members, m)) = Shape(Nearest(l, m))

\* A chain stays so when a declaration that the resolver accepts goes before it.
LEMMA KnownLink ==
  ASSUME NEW d \in ProtocolForms, NEW x \in ProtocolDefs, d.members = x.members,
         NEW c \in Seq(ProtocolForms), NEW l \in Seq(ProtocolDefs), Alike(c, l),
         \A m : \A n \in Declarers(l, m) : Shape(First(l[n].members, m)) = Shape(Nearest(l, m)),
         \A e \in ToSet(d.members) :
           e.name \in NamesIn(c) => Shape(Nearest(c, e.name)) = Shape(e)
  PROVE  /\ Alike(<<d>> \o c, <<x>> \o l)
         /\ \A m : \A n \in Declarers(<<x>> \o l, m) :
              Shape(First((<<x>> \o l)[n].members, m)) = Shape(Nearest(<<x>> \o l, m))
<1> DEFINE t == <<x>> \o l
<1>1. Alike(<<d>> \o c, t)
  BY AlikeLink
<1>2. ASSUME NEW m, NEW n \in Declarers(t, m)
      PROVE  Shape(First(t[n].members, m)) = Shape(Nearest(t, m))
  <2>1. \/ n = 1 /\ Places(x.members, m) # {}
        \/ n \in 2 .. Len(l) + 1 /\ n - 1 \in Declarers(l, m)
    BY <1>2, LinkDeclarers
  <2>2. t[1] = x /\ \A k \in 2 .. Len(l) + 1 : t[k] = l[k - 1]
    BY LinkFacts
  <2>3. /\ Places(x.members, m) # {} => Nearest(t, m) = First(x.members, m)
        /\ Places(x.members, m) = {} /\ Declarers(l, m) # {} => Nearest(t, m) = Nearest(l, m)
    BY LinkNearest
  <2> HIDE DEF t
  <2>4. CASE n = 1 /\ Places(x.members, m) # {}
    BY <2>2, <2>3, <2>4
  <2>5. CASE n \in 2 .. Len(l) + 1 /\ n - 1 \in Declarers(l, m)
    <3>1. First(t[n].members, m) = First(l[n - 1].members, m)
      BY <2>2, <2>5
    <3>2. PICK k : k = n - 1
      OBVIOUS
    <3>3. Shape(First(t[n].members, m)) = Shape(Nearest(l, m)) /\ Declarers(l, m) # {}
      BY <2>5, <3>1, <3>2
    <3>4. CASE Places(x.members, m) = {}
      BY <2>3, <3>3, <3>4
    <3>5. CASE Places(x.members, m) # {}
      <4> DEFINE e == First(d.members, m)
      <4>1. e \in ToSet(d.members) /\ e.name = m
        BY <3>5, FormFacts, FirstFacts
      <4>2. Declarers(c, m) # {} /\ Nearest(c, m) = Nearest(l, m)
        BY <3>3, AlikeFacts
      <4>3. m \in NamesIn(c)
        BY <4>2, NamesFacts
      <4>4. Shape(Nearest(c, m)) = Shape(e)
        BY <4>1, <4>3
      <4> QED
        BY <2>3, <3>3, <3>5, <4>2, <4>4
    <3> QED
      BY <3>4, <3>5
  <2> QED
    BY <2>1, <2>4, <2>5
<1> QED
  BY <1>1, <1>2

\* A protocol whose name module 1 declares is the one declared, not the
\* well-known one.
LEMMA SeenFacts ==
  ASSUME Inv, NEW p \in Ids(reg), InModule(file, 1, reg.protos[p].name)
  PROVE  \E i \in ProtocolsIn(file, 1) :
           file[i].name = reg.protos[p].name /\ Records(reg, p, file[i])
<1>1. PICK i \in ProtocolsIn(file, 1) : file[i].name = reg.protos[p].name
  BY DEF InModule
<1>2. PICK q : Records(reg, q, file[i])
  BY <1>1 DEF ProtocolsIn, Inv, Recorded
<1>3. q = p
  BY <1>1, <1>2 DEF Records, Inv, Registered
<1> QED
  BY <1>1, <1>2, <1>3

LEMMA AllKnown ==
  ASSUME Inv, NEW p \in Ids(reg), AllSeen(p)
  PROVE  Known(p)
<1> DEFINE P == reg.protos
           N == Len(P)
           S == {n \in 1 .. N : AllSeen(n) => Known(n)}
<1>1. Ids(reg) = 1 .. N /\ N \in Nat /\ \A n \in 1 .. N : P[n] \in ProtocolDefs
  BY RegisteredFacts DEF Inv
<1>2. ParentFirst(reg) /\ Declared /\ Accepted(file)
  BY DEF Inv, Registered, Declared
<1>3. ASSUME NEW n \in 1 .. N, \A k \in 1 .. n - 1 : k \in S, AllSeen(n)
      PROVE  Known(n)
  <2>1. n \in ToSet(Chain(reg, n))
    BY <1>1, <1>2, LineageFacts
  <2>2. InModule(file, 1, P[n].name)
    BY <1>3, <2>1 DEF AllSeen
  <2>3. PICK i \in ProtocolsIn(file, 1) : file[i].name = P[n].name /\ Records(reg, n, file[i])
    BY <1>1, <2>2, SeenFacts
  <2> DEFINE d == file[i]
             x == P[n]
             q == x.parent
             c == IF d.parent # NoParent /\ InModule(file, 1, d.parent)
                  THEN ModuleChain(file, 1, d.parent) ELSE <<>>
             l == IF q = NoProtocol THEN <<>> ELSE Lineage(reg, q)
             Above == /\ c \in Seq(ProtocolForms) /\ l \in Seq(ProtocolDefs) /\ Alike(c, l)
                      /\ \/ c = <<>> /\ d.parent = NoParent
                         \/ c # <<>> /\ c[Len(c)].parent = NoParent
                      /\ \A m : \A o \in Declarers(l, m) :
                           Shape(First(l[o].members, m)) = Shape(Nearest(l, m))
  <2>4. /\ ModuleChain(file, 1, x.name) = <<d>> \o c
        /\ d \in ProtocolForms /\ d.mod = 1 /\ d.k = "Protocol" /\ d \in ToSet(file)
    <3>1. /\ ModuleChain(file, 1, d.name) = <<d>> \o c
          /\ d \in ProtocolForms /\ d.mod = 1 /\ i \in DOMAIN file
      BY <1>2, ModuleChainStep, DeclFacts DEF ProtocolsIn
    <3>2. d \in ToSet(file)
      BY <3>1 DEF ToSet
    <3> QED
      BY <2>3, <3>1, <3>2, FormFacts
  <2>5. Lineage(reg, n) = <<x>> \o l
    BY <1>1, <1>2, LineageStep
  <2>6. x \in ProtocolDefs /\ x.name = d.name /\ d.members = x.members
    BY <1>1, <2>3 DEF Records
  <2>7. Above
    <3>1. CASE d.parent = NoParent
      <4>1. q = NoProtocol
        BY <2>3, <3>1 DEF Records
      <4>2. c = <<>> /\ l = <<>>
        BY <3>1, <4>1
      <4>3. <<>> \in Seq(ProtocolForms) /\ <<>> \in Seq(ProtocolDefs) /\ DOMAIN <<>> = {}
        OBVIOUS
      <4>4. Alike(<<>>, <<>>)
        BY <4>3 DEF Alike
      <4>5. \A m : Declarers(<<>>, m) = {}
        BY <4>3 DEF Declarers
      <4> HIDE DEF c, l
      <4> QED
        BY <3>1, <4>2, <4>3, <4>4, <4>5
    <3>2. CASE d.parent # NoParent
      <4>1. q \in Ids(reg) /\ P[q].name = d.parent
        BY <2>3, <3>2 DEF Records
      <4>2. q \in 1 .. n - 1 /\ q # NoProtocol
        <5>1. q \in 0 .. n - 1
          BY <1>1, <1>2 DEF ParentFirst
        <5> HIDE DEF q
        <5>2. q \in 1 .. N
          BY <1>1, <4>1
        <5> QED
          BY <5>1, <5>2 DEF NoProtocol
      <4>3. q \in ToSet(Chain(reg, n)) /\ \A o \in ToSet(Chain(reg, q)) : o \in ToSet(Chain(reg, n))
        <5>1. Chain(reg, n) = <<n>> \o Chain(reg, q)
          BY <1>1, <1>2, <4>2, ChainStep
        <5>2. Chain(reg, q) \in Seq(1 .. q) /\ q \in ToSet(Chain(reg, q))
          BY <1>2, <4>1, ChainDescends DEF Descends
        <5>3. 1 .. q \subseteq Nat /\ n \in Nat
          OBVIOUS
        <5> HIDE DEF q
        <5>4. Chain(reg, q) \in Seq(Nat)
          BY <5>2, <5>3, SeqWiden
        <5>5. ToSet(<<n>> \o Chain(reg, q)) = {n} \cup ToSet(Chain(reg, q))
          <6> DEFINE u == Chain(reg, q)
          <6>1. u \in Seq(Nat) /\ n \in Nat
            BY <5>3, <5>4
          <6> HIDE DEF u
          <6>2. ToSet(<<n>> \o u) = {n} \cup ToSet(u)
            BY ONLY <6>1, LinkFacts
          <6> QED
            BY <6>2 DEF u
        <5> QED
          BY <5>1, <5>2, <5>5
      <4>4. AllSeen(q) /\ InModule(file, 1, d.parent)
        BY <1>3, <4>1, <4>3 DEF AllSeen
      <4>5. Known(q)
        BY <1>3, <4>2, <4>4
      <4>6. c = ModuleChain(file, 1, P[q].name) /\ l = Lineage(reg, q)
        BY <3>2, <4>1, <4>2, <4>4
      <4>7. Lineage(reg, q) \in Seq(ProtocolDefs)
        BY <1>2, <4>1, LineageFacts
      <4> HIDE DEF c, l, q
      <4> QED
        BY <4>5, <4>6, <4>7 DEF Known
    <3> QED
      BY <3>1, <3>2
  <2> HIDE DEF c, l, q
  <2>8. \A e \in ToSet(d.members) :
          e.name \in NamesIn(c) => Shape(Nearest(c, e.name)) = Shape(e)
    <3>1. ProtocolOk(file, d)
      BY <1>2, <2>4 DEF Accepted
    <3>2. Tail(ModuleChain(file, 1, d.name)) = c
      BY <2>4, <2>6, <2>7, LinkFacts
    <3> QED
      BY <2>4, <3>1, <3>2 DEF ProtocolOk
  <2> HIDE DEF d, x
  <2>9. /\ Alike(<<d>> \o c, <<x>> \o l)
        /\ \A m : \A o \in Declarers(<<x>> \o l, m) :
             Shape(First((<<x>> \o l)[o].members, m)) = Shape(Nearest(<<x>> \o l, m))
    BY <2>4, <2>6, <2>7, <2>8, KnownLink
  <2>10. <<d>> \o c \in Seq(ProtocolForms) /\ <<d>> \o c # <<>>
         /\ (<<d>> \o c)[Len(<<d>> \o c)].parent = NoParent
    <3>1. /\ <<d>> \o c \in Seq(ProtocolForms) /\ Len(<<d>> \o c) = Len(c) + 1
          /\ Len(c) \in Nat /\ (<<d>> \o c)[1] = d
          /\ \A k \in 1 .. Len(c) : (<<d>> \o c)[k + 1] = c[k]
      BY <2>4, <2>7, LinkFacts
    <3>2. CASE c = <<>> /\ d.parent = NoParent
      <4>1. Len(c) = 0
        BY <3>2
      <4> QED
        BY <3>1, <3>2, <4>1
    <3>3. CASE c # <<>> /\ c[Len(c)].parent = NoParent
      <4>1. Len(c) \in 1 .. Len(c)
        <5>1. c \in Seq(ProtocolForms)
          BY <2>7
        <5> QED
          BY <3>3, <5>1
      <4> QED
        BY <3>1, <3>3, <4>1
    <3> QED
      BY <2>7, <3>2, <3>3
  <2> QED
    BY <2>4, <2>5, <2>9, <2>10 DEF Known, x
<1>4. \A n \in 1 .. N : (\A k \in 1 .. n - 1 : k \in S) => n \in S
  BY <1>3
<1> HIDE DEF S
<1>5. p \in S
  <2> HIDE DEF N
  <2> QED
    BY <1>1, <1>4, UpTo
<1> QED
  BY <1>5 DEF S

\* What the resolver asks of an implementation of such a protocol: the member's
\* shape in each method, and a method of each member that has no default.
LEMMA BlockChecked ==
  ASSUME Inv, NEW p \in Ids(reg), AllSeen(p), NEW b \in DOMAIN reg.impls, reg.impls[b].proto = p,
         NEW m, Declares(reg, p, m)
  PROVE  LET methods == reg.impls[b].methods
             e == Nearest(Lineage(reg, p), m)
         IN /\ Sequence(methods)
            /\ \A x \in ToSet(methods) : x.name = m => Shape(x.body) = Shape(e)
            /\ e.default = NoBody => Places(methods, m) # {}
<1> DEFINE c == ModuleChain(file, 1, reg.protos[p].name)
           l == Lineage(reg, p)
           e == Nearest(l, m)
           methods == reg.impls[b].methods
<1>1. Known(p) /\ ParentFirst(reg) /\ Accepted(file)
  BY AllKnown DEF Inv, Registered, Declared
<1>2. c \in Seq(ProtocolForms) /\ l \in Seq(ProtocolDefs) /\ Alike(c, l)
      /\ c[Len(c)].parent = NoParent
  BY <1>1, LineageFacts DEF Known
<1>3. PICK j \in DOMAIN file : Blocks(reg, reg.impls[b], file[j])
  BY DEF Inv, Recorded
<1> DEFINE d == file[j]
<1>4. /\ d.k = "Implement" /\ d.name = reg.protos[p].name /\ d.methods = methods
      /\ d \in ToSet(file)
  BY <1>3 DEF Blocks, ToSet
<1>5. d.mod = 1 /\ Sequence(d.methods)
  <2>1. file \in Seq(ProtocolForms \cup ImplementForms)
    BY DEF Inv, Declared
  <2>2. d \in ProtocolForms \cup ImplementForms
    BY <2>1
  <2>3. d \notin ProtocolForms
    BY <1>4, FormFacts
  <2> QED
    BY <2>2, <2>3, FormFacts
<1>6. ImplementOk(file, d)
  BY <1>1, <1>4 DEF Accepted
<1>7. InModule(file, 1, d.name) /\ ~CutShort(file, 1, d.name)
  <2>1. p \in ToSet(Chain(reg, p))
    BY <1>1, LineageFacts
  <2> QED
    BY <1>2, <1>4, <2>1 DEF AllSeen, CutShort
<1> HIDE DEF d, c, methods
<1>8. /\ \A x \in ToSet(d.methods) :
           (\E g \in Effective(c) : g.name = x.name)
             => \A g \in Effective(c) : g.name = x.name => Shape(g) = Shape(x.body)
      /\ {g.name : g \in {h \in Effective(c) : h.default = NoBody}}
           \subseteq {x.name : x \in ToSet(d.methods)}
  <2>1. c = ModuleChain(file, 1, d.name)
    BY <1>4 DEF c
  <2> QED
    BY <1>5, <1>6, <1>7, <2>1 DEF ImplementOk, Required
<1>9. e \in Effective(c) /\ e.name = m
  <2>1. Declarers(l, m) # {}
    BY DEF Declares
  <2> HIDE DEF l, e
  <2>2. Declarers(c, m) # {} /\ Nearest(c, m) = Nearest(l, m)
    BY <1>2, <2>1, AlikeFacts
  <2>3. m \in NamesIn(c)
    BY <1>2, <2>2, NamesFacts
  <2>4. LowestOf(Declarers(c, m)) \in Declarers(c, m)
    BY <1>2, <2>2, DeclarersNat, LowestFacts
  <2>5. PICK n \in DOMAIN c : Nearest(c, m) = First(c[n].members, m) /\ Places(c[n].members, m) # {}
    BY <2>4 DEF Nearest, Declarers
  <2>6. Sequence(c[n].members)
    BY <1>2, FormFacts
  <2>7. Nearest(c, m).name = m
    BY <2>5, <2>6, FirstFacts
  <2> QED
    BY <2>2, <2>3, <2>7 DEF Effective, e
<1> HIDE DEF e, l
<1>10. \A x \in ToSet(methods) : x.name = m => Shape(x.body) = Shape(e)
  BY <1>4, <1>8, <1>9
<1>11. ASSUME e.default = NoBody PROVE Places(methods, m) # {}
  <2>1. PICK x \in ToSet(methods) : x.name = m
    BY <1>4, <1>8, <1>9, <1>11
  <2> QED
    BY <2>1 DEF ToSet, Places
<1> QED
  BY <1>4, <1>5, <1>10, <1>11 DEF e, l, methods

\* The members of such a chain are written by the program.
LEMMA SeenWritten ==
  ASSUME Inv, NEW p \in Ids(reg), AllSeen(p), NEW m, NEW n \in Declarers(Lineage(reg, p), m)
  PROVE  Written(First(Lineage(reg, p)[n].members, m))
<1> DEFINE l == Lineage(reg, p)
           c == ModuleChain(file, 1, reg.protos[p].name)
<1>1. c \in Seq(ProtocolForms) /\ DOMAIN c = DOMAIN l /\ \A k \in DOMAIN c : c[k].members = l[k].members
  BY AllKnown DEF Known, Alike
<1>2. n \in DOMAIN l /\ Places(l[n].members, m) # {}
  BY DEF Declarers
<1> HIDE DEF c, l
<1>3. n \in DOMAIN c /\ c[n].members = l[n].members /\ c[n] \in ProtocolForms
  BY <1>1, <1>2
<1>4. \E k \in DOMAIN c[n].members : First(l[n].members, m) = c[n].members[k]
  BY <1>2, <1>3, FormFacts, FirstFacts
<1>5. Written(First(l[n].members, m))
  BY <1>3, <1>4, FormFacts
<1> QED
  BY <1>5 DEF l

\* So the implementation of such a protocol supplies a body of each member's
\* shape.
LEMMA SeenSupplies ==
  ASSUME Inv, NEW p \in Ids(reg), AllSeen(p), NEW ty, IsImplemented(reg, p, ty),
         NEW m, Declares(reg, p, m)
  PROVE  \E b : /\ Supplied(reg, p, m, ty) = Call(b)
                /\ Shape(b) = Shape(Nearest(Lineage(reg, p), m))
<1> DEFINE l == Lineage(reg, p)
           e == Nearest(l, m)
           D == Declarers(l, m)
           S == Supplying(reg, p, ty, m)
           F == Defaulting(l, m)
<1>1. ParentFirst(reg) /\ Known(p)
  BY AllKnown DEF Inv, Registered
<1>2. l \in Seq(ProtocolDefs) /\ D # {} /\ D \in SUBSET Nat /\ D \subseteq DOMAIN l
  BY <1>1, LineageFacts, DeclarersNat DEF Declares
<1>3. \A i \in BlocksOf(reg, p, ty) : i \in DOMAIN reg.impls /\ reg.impls[i].proto = p
  BY DEF BlocksOf
<1>4. \A i \in BlocksOf(reg, p, ty) :
        /\ Sequence(reg.impls[i].methods)
        /\ \A x \in ToSet(reg.impls[i].methods) : x.name = m => Shape(x.body) = Shape(e)
        /\ e.default = NoBody => Places(reg.impls[i].methods, m) # {}
  BY <1>3, BlockChecked
<1>5. CASE S # {}
  <2>1. S \in SUBSET Nat
    BY RegisteredFacts DEF Inv, Supplying, BlocksOf
  <2> DEFINE i == LowestOf(S)
             x == First(reg.impls[i].methods, m)
  <2>2. i \in S
    BY <1>5, <2>1, LowestFacts
  <2>3. i \in BlocksOf(reg, p, ty) /\ Places(reg.impls[i].methods, m) # {}
    BY <2>2 DEF Supplying
  <2>4. x \in ToSet(reg.impls[i].methods) /\ x.name = m
    BY <1>4, <2>3, FirstFacts
  <2>5. Shape(x.body) = Shape(e)
    BY <1>4, <2>3, <2>4
  <2>6. Supplied(reg, p, m, ty) = Call(x.body)
    BY <1>5, SuppliedFacts DEF Method
  <2> QED
    BY <2>5, <2>6
<1>6. CASE S = {}
  <2>1. PICK i \in BlocksOf(reg, p, ty) : TRUE
    BY DEF IsImplemented
  <2>2. Places(reg.impls[i].methods, m) = {}
    BY <1>6, <2>1 DEF Supplying
  <2>3. e.default # NoBody
    BY <1>4, <2>1, <2>2
  <2>4. LowestOf(D) \in D /\ First(l[LowestOf(D)].members, m).default # NoBody
    BY <1>2, <2>3, LowestFacts DEF Nearest
  <2>5. F # {} /\ F \subseteq D /\ \A n \in F : First(l[n].members, m).default # NoBody
    BY <2>4 DEF Defaulting
  <2> DEFINE n == LowestOf(F)
             g == First(l[n].members, m)
  <2>6. n \in F
    BY <1>2, <2>5, LowestFacts
  <2> HIDE DEF F, n
  <2>7. n \in D /\ g.default # NoBody /\ Shape(g) = Shape(e)
    BY <1>1, <2>5, <2>6 DEF Known
  <2>8. Written(g)
    BY <2>7, SeenWritten
  <2>9. Shape(g.default[1]) = Shape(g)
    BY <2>7, <2>8 DEF Written, Shape
  <2>10. Supplied(reg, p, m, ty) = Call(g.default[1])
    BY <1>6, <2>5, SuppliedFacts DEF DefaultBody, F, n
  <2> QED
    BY <2>7, <2>9, <2>10
<1> QED
  BY <1>5, <1>6

----------------------------------------------------------------------------
(* What dispatch promises.                                                  *)

LEMMA RegistrySoundHolds == Inv => RegistrySound
<1> SUFFICES ASSUME Inv PROVE RegistrySound
  OBVIOUS
<1>1. ParentFirst(reg) /\ \A i \in DOMAIN reg.impls : reg.impls[i].proto \in Ids(reg)
  BY DEF Inv, Registered
<1>2. TypeOK
  BY <1>1 DEF TypeOK, ParentFirst, Inv, Declared
<1>3. ASSUME NEW ty \in Types, NEW p \in Ids(reg), TypeImplements(reg, ty, p),
             \A i \in DOMAIN reg.impls : AllSeen(reg.impls[i].proto),
             NEW m \in DeclaredBy(p)
      PROVE  Resolve(reg, m, ty, NoProtocol).k \in {"Call", "Ambiguous"}
  <2> DEFINE S == Candidates(reg, m, ty, NoProtocol)
             best == Maximal(reg, S)
             d == Resolve(reg, m, ty, NoProtocol)
  <2>1. Declares(reg, p, m)
    BY <1>3 DEF DeclaredBy
  <2>2. PICK i \in DOMAIN reg.impls : reg.impls[i].ty = ty /\ Reaches(reg, reg.impls[i].proto, p)
    BY <1>3 DEF TypeImplements
  <2>3. Declares(reg, reg.impls[i].proto, m) /\ reg.impls[i].proto \in Ids(reg)
    BY <1>1, <2>1, <2>2, ReachesFacts
  <2>4. reg.impls[i].proto \in S
    BY <2>2, <2>3 DEF Candidates, IsImplemented, BlocksOf
  <2>5. \A q \in S : /\ q \in Ids(reg) /\ Declares(reg, q, m)
                     /\ IsImplemented(reg, q, ty) /\ AllSeen(q)
    BY <1>3 DEF Candidates, IsImplemented, BlocksOf
  <2>6. /\ \A q : best = {q} => q \in S /\ d = Supplied(reg, q, m, ty)
        /\ (\A q : best # {q}) => \E q, o \in S : d = Ambiguous(q, o)
    BY <1>1, <2>4, ResolveFacts
  <2> HIDE DEF S, best, d
  <2>7. CASE \E q : best = {q}
    <3>1. PICK q \in S : d = Supplied(reg, q, m, ty)
      BY <2>6, <2>7
    <3>2. PICK b : Supplied(reg, q, m, ty) = Call(b)
      BY <2>5, SeenSupplies
    <3> QED
      BY <3>1, <3>2, KindFacts DEF d
  <2>8. CASE \A q : best # {q}
    BY <2>6, <2>8, KindFacts DEF d
  <2> QED
    BY <2>7, <2>8
<1>4. IsAgrees
  BY <1>3 DEF IsAgrees
<1> QED
  BY <1>2, <1>4 DEF RegistrySound

\* The registry is well formed, and `x is P` promises P's members: dispatch has
\* a body, or two to choose from, for each member of a protocol that the type of
\* x implements.
THEOREM Soundness == Spec => []RegistrySound
BY Invariance, RegistrySoundHolds, PTL

\* Positional arguments take the parameters in turn.
LEMMA InTurn ==
  ASSUME NEW params, Sequence(params), NEW args, args = [i \in DOMAIN params |-> Positional],
         NEW i \in DOMAIN params
  PROVE  Position(params, args, i) = i /\ Wrong(params, args, i) = "None"
<1>1. DOMAIN params = 1 .. Len(params) /\ Len(params) \in Nat
  BY SequenceFacts
<1>2. ASSUME NEW j \in 1 .. Len(params) PROVE Position(params, args, j) = j
  <2>1. \A k \in 1 .. j : args[k] = Positional
    BY <1>1
  <2>2. {k \in 1 .. j : args[k] = Positional} = 1 .. j
    BY <2>1
  <2>3. Cardinality(1 .. j) = j
    BY <1>1, FS_Interval
  <2>4. args[j] = Positional
    BY <1>1
  <2> QED
    BY <2>2, <2>3, <2>4, Zenon DEF Position
<1>3. Position(params, args, i) = i /\ i \in 1 .. Len(params)
  BY <1>1, <1>2
<1>4. \A j \in 1 .. i - 1 : Position(params, args, j) # i
  BY <1>1, <1>2, <1>3
<1> DEFINE at == Position(params, args, i)
           Taken == \E j \in 1 .. i - 1 : Position(params, args, j) = at
<1>5. Wrong(params, args, i) = IF at > Len(params) THEN "TooMany"
                               ELSE IF at = NoProtocol THEN "Unknown"
                               ELSE IF Taken THEN "Duplicate" ELSE "None"
  BY Zenon DEF Wrong
<1>6. ~Taken
  BY <1>3, <1>4
<1> HIDE DEF at, Taken
<1>7. at = i
  BY <1>3 DEF at
<1>8. ~(at > Len(params)) /\ at # NoProtocol
  BY <1>1, <1>3, <1>7 DEF NoProtocol
<1> QED
  BY <1>3, <1>5, <1>6, <1>8

\* Entering a body of the shape that was bound.
LEMMA EnterFacts ==
  ASSUME NEW b, NEW n \in Nat, Len(b.params) = n, NEW blk, b.blk = blk
  PROVE  Enter(b, n, blk) = Entered(b)
BY DEF Enter

LEMMA ConformingHolds == Inv => ConformingCallsEnter
<1> SUFFICES ASSUME Inv,
                    NEW ty \in Types, NEW p \in Ids(reg), AllSeen(p), IsImplemented(reg, p, ty),
                    NEW m \in DeclaredBy(p), Signature(reg, m, p).params # <<>>
             PROVE  LET s == Signature(reg, m, p)
                    IN CallMember(reg, m, p, ty, [i \in DOMAIN s.params |-> Positional], s.blk).k
                         = "Entered"
  BY DEF ConformingCallsEnter
<1> DEFINE s == Signature(reg, m, p)
           params == s.params
           args == [i \in DOMAIN params |-> Positional]
           bad == {i \in DOMAIN args : Wrong(params, args, i) # "None"}
           given == {Position(params, args, i) : i \in DOMAIN args}
           d == Resolve(reg, m, ty, p)
<1>1. ParentFirst(reg) /\ p # NoProtocol /\ Declares(reg, p, m)
  BY DEF Inv, Registered, DeclaredBy, ParentFirst, Ids, NoProtocol
<1>2. s = Nearest(Lineage(reg, p), m)
  BY <1>1 DEF Signature
<1>3. Sequence(params)
  <2>1. Lineage(reg, p) \in Seq(ProtocolDefs) /\ Declarers(Lineage(reg, p), m) # {}
    BY <1>1, LineageFacts DEF Declares
  <2>2. LowestOf(Declarers(Lineage(reg, p), m)) \in Declarers(Lineage(reg, p), m)
    BY <2>1, DeclarersNat, LowestFacts
  <2>3. Written(s)
    BY <1>2, <2>2, SeenWritten DEF Nearest
  <2> QED
    BY <2>3 DEF Written
<1>4. PICK b : d = Call(b) /\ Shape(b) = Shape(s)
  BY <1>1, <1>2, ResolveQualified, SeenSupplies
<1>5. Len(b.params) = Len(params) /\ b.blk = s.blk
  BY <1>4 DEF Shape
<1> HIDE DEF s, d
<1>6. Len(params) \in Nat \ {0} /\ DOMAIN params = 1 .. Len(params)
  <2>1. Len(params) \in Nat /\ DOMAIN params = 1 .. Len(params)
    BY <1>3, SequenceFacts
  <2>2. Len(params) # 0
    <3>1. params \in Seq(ToSet(params)) /\ params # <<>>
      BY <1>3 DEF Sequence, s
    <3> HIDE DEF params
    <3> QED
      BY <3>1
  <2> QED
    BY <2>1, <2>2
<1> HIDE DEF params
<1>7. DOMAIN args = DOMAIN params
  OBVIOUS
<1>8. \A i \in DOMAIN params : Position(params, args, i) = i /\ Wrong(params, args, i) = "None"
  BY <1>3, InTurn
<1> HIDE DEF args
<1>9. bad = {} /\ given = DOMAIN params /\ 1 \in given
  <2>1. bad = {}
    BY <1>7, <1>8
  <2>2. given = {i : i \in DOMAIN params}
    BY <1>7, <1>8, Zenon
  <2>3. 1 \in DOMAIN params
    BY <1>6
  <2> QED
    BY <2>1, <2>2, <2>3
<1>10. CallMember(reg, m, p, ty, args, s.blk) =
         CASE bad # {} -> Error(Wrong(params, args, LowestOf(bad)))
           [] bad = {} /\ 1 \notin given -> Error("Missing")
           [] bad = {} /\ 1 \in given /\ d.k = "Call" ->
                IF given # DOMAIN params THEN Error("Missing")
                ELSE Enter(d.body, Len(params), s.blk)
           [] OTHER -> d
  BY Zenon DEF CallMember, s, params, args, d
<1> HIDE DEF bad, given
<1>11. d.k = "Call" /\ d.body = b
  BY <1>4, KindFacts
<1>12. CallMember(reg, m, p, ty, args, s.blk) = Enter(b, Len(params), s.blk)
  BY <1>9, <1>10, <1>11
<1>13. CallMember(reg, m, p, ty, args, s.blk) = Entered(b)
  BY <1>5, <1>6, <1>12, EnterFacts
<1> QED
  BY <1>13 DEF Entered, args, params, s

\* A qualified call that conforms to the signature it is bound against enters
\* the implementation, though that was checked against another declaration.
THEOREM CallsEnter == Spec => []ConformingCallsEnter
BY Invariance, ConformingHolds, PTL

----------------------------------------------------------------------------
(* The remedies.                                                            *)

LEMMA SetToSeqFacts ==
  ASSUME NEW S, IsFiniteSet(S)
  PROVE  \A x \in S : \E i \in DOMAIN SetToSeq(S) : SetToSeq(S)[i] = x
<1> DEFINE n == Cardinality(S)
           g == SetToSeq(S)
<1>1. n \in Nat /\ ExistsBijection(1 .. n, S)
  BY FS_CardinalityType
<1>2. PICK f : f \in Bijection(1 .. n, S)
  BY <1>1 DEF ExistsBijection
<1>3. f \in [1 .. n -> S] /\ IsInjective(f)
  BY <1>2 DEF Bijection, Injection
<1>4. g \in [1 .. n -> S] /\ IsInjective(g)
  BY <1>3, Zenon DEF SetToSeq
<1> HIDE DEF g
<1>5. g \in Injection(1 .. n, S)
  BY <1>4 DEF Injection
<1>6. Cardinality(1 .. n) = n
  BY <1>1, FS_Interval
<1>7. g \in Surjection(1 .. n, S)
  BY <1>5, <1>6, FS_Injection
<1>8. \A x \in S : \E i \in DOMAIN g : g[i] = x
  BY <1>4, <1>7 DEF Surjection
<1> QED
  BY <1>8 DEF g

LEMMA ImplementingFacts ==
  ASSUME Inv, NEW p \in Ids(reg), NEW ty
  PROVE  LET s == Implementing(p, ty)
         IN /\ ParentFirst(s) /\ Grown(reg, s) /\ s.protos = reg.protos /\ Ids(s) = Ids(reg)
            /\ \A q : IsImplemented(s, q, ty) <=> q = p \/ IsImplemented(reg, q, ty)
            /\ \A m \in DeclaredBy(p) : Supplying(s, p, ty, m) # {}
<1> DEFINE names == SetToSeq(DeclaredBy(p))
           added == Body(One, FALSE, <<"added">>)
           methods == [i \in DOMAIN names |-> [name |-> names[i], body |-> added]]
           b == [proto |-> p, ty |-> ty, methods |-> methods]
           s == Implementing(p, ty)
           N == Len(reg.impls)
<1>1. /\ reg = [protos |-> reg.protos, impls |-> reg.impls]
      /\ reg.impls \in Seq(Impls) /\ N \in Nat /\ DOMAIN reg.impls = 1 .. N
  BY RegisteredFacts DEF Inv
<1>2. s = [reg EXCEPT !.impls = Append(@, b)]
  BY Zenon DEF Implementing
<1>3. \A m \in DeclaredBy(p) : Places(methods, m) # {}
  <2>1. IsFiniteSet(DeclaredBy(p))
    BY MembersAssumption, FS_Subset DEF DeclaredBy
  <2>2. \A m \in DeclaredBy(p) : \E i \in DOMAIN names : names[i] = m
    BY <2>1, SetToSeqFacts
  <2> HIDE DEF names, added
  <2> QED
    BY <2>2 DEF Places
<1>4. b.proto = p /\ b.ty = ty /\ b.methods = methods
  OBVIOUS
<1> HIDE DEF b, methods, s, N
<1>5. s.protos = reg.protos /\ s.impls = Append(reg.impls, b)
  BY <1>1, <1>2
<1>6. /\ DOMAIN s.impls = 1 .. N + 1 /\ s.impls[N + 1] = b
      /\ \A i \in 1 .. N : s.impls[i] = reg.impls[i]
  <2> DEFINE D == Impls \cup {b}
  <2>1. Impls \subseteq D /\ b \in D
    OBVIOUS
  <2> HIDE DEF D
  <2>2. reg.impls \in Seq(D)
    BY <1>1, <2>1, SeqWiden
  <2>3. /\ Append(reg.impls, b) \in Seq(D) /\ Len(Append(reg.impls, b)) = N + 1
        /\ Append(reg.impls, b)[N + 1] = b
        /\ \A i \in 1 .. N : Append(reg.impls, b)[i] = reg.impls[i]
    BY <2>1, <2>2, AppendFacts DEF N
  <2>4. DOMAIN Append(reg.impls, b) = 1 .. N + 1
    <3>1. \A t \in Seq(D) : DOMAIN t = 1 .. Len(t)
      OBVIOUS
    <3> QED
      BY <2>3, <3>1
  <2> QED
    BY <1>5, <2>3, <2>4
<1>7. Ids(s) = Ids(reg) /\ ParentFirst(s)
  BY <1>5 DEF Inv, Registered, ParentFirst, Ids
<1>8. Grown(reg, s)
  BY <1>1, <1>5, <1>6, <1>7 DEF Grown
<1>9. \A i : i \in DOMAIN s.impls <=> i = N + 1 \/ i \in DOMAIN reg.impls
  BY <1>1, <1>6
<1>10. N + 1 \in DOMAIN s.impls /\ N + 1 \notin DOMAIN reg.impls
  BY <1>1, <1>6
<1>11. ASSUME NEW q PROVE IsImplemented(s, q, ty) <=> q = p \/ IsImplemented(reg, q, ty)
  <2>1. IsImplemented(s, q, ty) <=> \E i \in DOMAIN s.impls : s.impls[i].proto = q /\ s.impls[i].ty = ty
    BY DEF IsImplemented, BlocksOf
  <2>2. IsImplemented(reg, q, ty) <=>
          \E i \in DOMAIN reg.impls : reg.impls[i].proto = q /\ reg.impls[i].ty = ty
    BY DEF IsImplemented, BlocksOf
  <2>3. \A i \in DOMAIN reg.impls : s.impls[i] = reg.impls[i]
    BY <1>8 DEF Grown
  <2> QED
    BY <1>4, <1>6, <1>9, <2>1, <2>2, <2>3
<1>12. \A m \in DeclaredBy(p) : N + 1 \in Supplying(s, p, ty, m)
  BY <1>3, <1>4, <1>6, <1>10 DEF Supplying, BlocksOf
<1> QED
  BY <1>5, <1>7, <1>8, <1>11, <1>12 DEF s

\* The protocol that an error names has the member, and is the one qualified.
LEMMA DeclaringFacts ==
  ASSUME Inv, NEW m, NEW filter, Callable(m, filter)
  PROVE  LET p == DeclaringProtocol(reg, m, filter)
         IN p \in Ids(reg) /\ Declares(reg, p, m) /\ filter \in {NoProtocol, p}
<1> DEFINE p == DeclaringProtocol(reg, m, filter)
           D == Declarers(reg.protos, m)
<1>1. ParentFirst(reg) /\ reg.protos \in Seq(ProtocolDefs)
  BY DEF Inv, Registered, ParentFirst
<1>2. PICK q \in Ids(reg) : filter \in {NoProtocol, q} /\ Declares(reg, q, m)
  BY DEF Callable
<1>3. CASE filter # NoProtocol
  BY <1>2, <1>3 DEF DeclaringProtocol
<1>4. CASE filter = NoProtocol
  <2>1. PICK o \in ToSet(Chain(reg, q)) : Places(reg.protos[o].members, m) # {}
    BY <1>1, <1>2, LineageFacts
  <2>2. o \in Ids(reg)
    BY <1>1, <2>1, LineageFacts
  <2>3. o \in D
    BY <2>1, <2>2 DEF Declarers, Ids
  <2>4. p \in D
    BY <1>1, <1>4, <2>3, DeclarersNat, LowestFacts DEF DeclaringProtocol
  <2>5. p \in Ids(reg) /\ Places(reg.protos[p].members, m) # {}
    BY <2>4 DEF Declarers, Ids
  <2>6. p \in ToSet(Chain(reg, p))
    BY <1>1, <2>5, LineageFacts
  <2> HIDE DEF p
  <2>7. Declares(reg, p, m)
    BY <1>1, <2>5, <2>6, LineageFacts
  <2> QED
    BY <1>4, <2>5, <2>7 DEF p
<1> QED
  BY <1>3, <1>4

LEMMA RemediesHold == Inv => ErrorsHaveRemedies
<1> SUFFICES ASSUME Inv, NEW m \in Members, NEW ty \in Types,
                    NEW filter \in {NoProtocol} \cup Ids(reg), Callable(m, filter)
             PROVE  LET d == Resolve(reg, m, ty, filter)
                    IN /\ d.k = "NotImplemented" =>
                            Resolve(Implementing(d.proto, ty), m, ty, filter).k = "Call"
                       /\ d.k = "Ambiguous" =>
                            \A p \in d.protos :
                              LET q == Resolve(reg, m, ty, p)
                              IN q.k # "Ambiguous" /\ (AllSeen(p) => q.k = "Call")
  BY DEF ErrorsHaveRemedies
<1> DEFINE d == Resolve(reg, m, ty, filter)
           S == Candidates(reg, m, ty, filter)
           best == Maximal(reg, S)
           P == DeclaringProtocol(reg, m, filter)
<1>1. ParentFirst(reg)
  BY DEF Inv, Registered
<1>2. /\ S = {} /\ NativeDefault(reg, m) => d = Native
      /\ S = {} /\ ~NativeDefault(reg, m) => d = NotImplemented(P)
      /\ \A p : best = {p} => p \in S /\ d = Supplied(reg, p, m, ty)
      /\ S # {} /\ (\A p : best # {p}) => \E p, q \in S : d = Ambiguous(p, q)
      /\ S # {} => best # {}
  BY <1>1, ResolveFacts
<1>3. P \in Ids(reg) /\ Declares(reg, P, m) /\ filter \in {NoProtocol, P}
  BY DeclaringFacts
<1>4. \A q \in S : /\ q \in Ids(reg) /\ Declares(reg, q, m) /\ IsImplemented(reg, q, ty)
                   /\ filter \in {NoProtocol, q}
  BY DEF Candidates
<1> HIDE DEF d, S, best, P
<1>5. ASSUME d.k = "NotImplemented"
      PROVE  Resolve(Implementing(d.proto, ty), m, ty, filter).k = "Call"
  <2>1. \/ S = {} /\ d.proto = P
        \/ best = {d.proto} /\ d.proto \in S
    <3>1. CASE S = {}
      BY <1>2, <1>5, <3>1, KindFacts
    <3>2. CASE S # {}
      <4>1. PICK p : best = {p}
        BY <1>2, <1>5, <3>2, KindFacts
      <4>2. p \in S /\ d = Supplied(reg, p, m, ty)
        BY <1>2, <4>1
      <4>3. d = NotImplemented(p)
        BY <1>5, <4>2, SuppliedFacts, KindFacts
      <4> QED
        BY <4>1, <4>2, <4>3, KindFacts
    <3> QED
      BY <3>1, <3>2
  <2> DEFINE p == d.proto
             s == Implementing(p, ty)
             T == Candidates(s, m, ty, filter)
  <2>2. p \in Ids(reg) /\ Declares(reg, p, m) /\ filter \in {NoProtocol, p}
    BY <1>3, <1>4, <2>1
  <2> HIDE DEF p
  <2>3. /\ ParentFirst(s) /\ Grown(reg, s) /\ s.protos = reg.protos /\ Ids(s) = Ids(reg)
        /\ \A q : IsImplemented(s, q, ty) <=> q = p \/ IsImplemented(reg, q, ty)
        /\ Supplying(s, p, ty, m) # {}
    BY <2>2, ImplementingFacts DEF DeclaredBy
  <2> HIDE DEF s
  <2>4. \A q \in Ids(reg) : Chain(s, q) = Chain(reg, q) /\ Lineage(s, q) = Lineage(reg, q)
    BY <1>1, <2>3, GrownChain
  <2>5. \A q \in Ids(reg) : Declares(s, q, m) <=> Declares(reg, q, m)
    BY <2>4 DEF Declares
  <2>6. T = S \cup {p}
    <3>1. \A q : q \in T <=> /\ q \in Ids(reg) /\ filter \in {NoProtocol, q} /\ Declares(reg, q, m)
                             /\ q = p \/ IsImplemented(reg, q, ty)
      BY <2>3, <2>5 DEF Candidates
    <3>2. \A q : q \in S <=> /\ q \in Ids(reg) /\ filter \in {NoProtocol, q} /\ Declares(reg, q, m)
                             /\ IsImplemented(reg, q, ty)
      BY DEF Candidates, S
    <3> HIDE DEF T
    <3> QED
      BY <2>2, <3>1, <3>2
  <2>7. Maximal(s, T) = {p}
    <3>1. CASE S = {}
      <4>1. T = {p}
        BY <2>6, <3>1
      <4> HIDE DEF T
      <4> QED
        BY <4>1 DEF Maximal
    <3>2. CASE best = {p} /\ p \in S
      <4>1. T = S
        BY <2>6, <3>2
      <4> HIDE DEF T
      <4>2. \A q \in S : q \in Ids(reg)
        BY <1>4
      <4>3. \A q, o \in S : Reaches(s, q, o) <=> Reaches(reg, q, o)
        BY <2>4, <4>2 DEF Reaches
      <4>4. Maximal(s, S) = Maximal(reg, S)
        BY <4>3 DEF Maximal
      <4> QED
        BY <3>2, <4>1, <4>4 DEF best
    <3> QED
      BY <2>1, <3>1, <3>2 DEF p
  <2>8. Resolve(s, m, ty, filter) = Supplied(s, p, m, ty)
    BY <2>3, <2>7, ResolveFacts
  <2>9. Resolve(s, m, ty, filter).k = "Call"
    BY <2>3, <2>8, SuppliedFacts, KindFacts
  <2> QED
    BY <2>9 DEF s, p
<1>6. ASSUME d.k = "Ambiguous", NEW p \in d.protos
      PROVE  LET q == Resolve(reg, m, ty, p)
             IN q.k # "Ambiguous" /\ (AllSeen(p) => q.k = "Call")
  <2>1. p \in S
    <3>1. CASE S = {}
      BY <1>2, <1>6, <3>1, KindFacts
    <3>2. CASE \E q : best = {q}
      <4>1. PICK q : d = Supplied(reg, q, m, ty)
        BY <1>2, <3>2
      <4> QED
        BY <1>6, <4>1, SuppliedFacts, KindFacts
    <3>3. CASE S # {} /\ \A q : best # {q}
      <4>1. PICK q, o \in S : d = Ambiguous(q, o)
        BY <1>2, <3>3
      <4>2. d.protos = {q, o}
        BY <4>1, KindFacts
      <4> QED
        BY <1>6, <4>2
    <3> QED
      BY <3>1, <3>2, <3>3
  <2>2. p \in Ids(reg) /\ Declares(reg, p, m) /\ IsImplemented(reg, p, ty)
    BY <1>4, <2>1
  <2>3. Resolve(reg, m, ty, p) = Supplied(reg, p, m, ty)
    BY <1>1, <2>2, ResolveQualified
  <2>4. Supplied(reg, p, m, ty).k # "Ambiguous"
    BY SuppliedFacts, KindFacts
  <2>5. AllSeen(p) => Supplied(reg, p, m, ty).k = "Call"
    BY <2>2, SeenSupplies, KindFacts
  <2> QED
    BY <2>3, <2>4, <2>5
<1> QED
  BY <1>5, <1>6 DEF d

\* The dispatch errors name protocols that repair them.
THEOREM Remedies == Spec => []ErrorsHaveRemedies
BY Invariance, RemediesHold, PTL

----------------------------------------------------------------------------
(* What a step does to the calls.                                           *)

LEMMA ModuleGrown ==
  ASSUME Inv, [Next]_vars
  PROVE  \A name : InModule(file, 1, name) => InModule(file', 1, name)
<1>1. file \in Seq(ProtocolForms \cup ImplementForms)
  BY DEF Inv, Declared
<1>2. DOMAIN file \subseteq DOMAIN file' /\ \A i \in DOMAIN file : file'[i] = file[i]
  <2>1. \/ file' = file
        \/ \E d \in ProtocolForms \cup ImplementForms : file' = Append(file, d)
    BY DEF Next, DefineProtocol, DefineImplement, vars
  <2> QED
    BY <1>1, <2>1
<1> QED
  BY <1>2 DEF InModule, ProtocolsIn

\* SeenSupplies, of the state after a step as well.
SeenSupply ==
  \A p \in Ids(reg) : \A ty, m :
    AllSeen(p) /\ IsImplemented(reg, p, ty) /\ Declares(reg, p, m)
      => \E b : Supplied(reg, p, m, ty) = Call(b)

LEMMA SeenSupplyHolds == Inv => SeenSupply
BY SeenSupplies DEF SeenSupply

LEMMA SeenSupplyNext == Inv' => SeenSupply'
BY SeenSupplyHolds, PTL

\* A call runs what the one maximal candidate supplies.
LEMMA RunsFacts ==
  ASSUME NEW r, ParentFirst(r), NEW m, NEW ty, NEW filter, Resolve(r, m, ty, filter).k = "Call"
  PROVE  \E p \in Candidates(r, m, ty, filter) :
           /\ Maximal(r, Candidates(r, m, ty, filter)) = {p}
           /\ Resolve(r, m, ty, filter) = Supplied(r, p, m, ty)
           /\ Supplying(r, p, ty, m) # {} \/ Defaulting(Lineage(r, p), m) # {}
<1> DEFINE d == Resolve(r, m, ty, filter)
           S == Candidates(r, m, ty, filter)
           best == Maximal(r, S)
<1>1. /\ S = {} /\ NativeDefault(r, m) => d = Native
      /\ S = {} /\ ~NativeDefault(r, m) => d = NotImplemented(DeclaringProtocol(r, m, filter))
      /\ \A p : best = {p} => p \in S /\ d = Supplied(r, p, m, ty)
      /\ S # {} /\ (\A p : best # {p}) => \E p, q \in S : d = Ambiguous(p, q)
  BY ResolveFacts
<1> HIDE DEF d, S, best
<1>2. PICK p : best = {p}
  <2>1. d.k = "Call"
    BY DEF d
  <2>2. S # {}
    BY <1>1, <2>1, KindFacts
  <2>3. \A p, q : d # Ambiguous(p, q)
    BY <2>1, KindFacts
  <2> QED
    BY <1>1, <2>2, <2>3, Zenon
<1>3. p \in S /\ d = Supplied(r, p, m, ty)
  BY <1>1, <1>2
<1>4. Supplying(r, p, ty, m) # {} \/ Defaulting(Lineage(r, p), m) # {}
  BY <1>3, SuppliedFacts, KindFacts DEF d
<1> QED
  BY <1>2, <1>3, <1>4 DEF d, S, best

\* A registry that grows without a block for the type runs what it ran.
LEMMA SameRun ==
  ASSUME NEW r, NEW s, ParentFirst(r), ParentFirst(s), Grown(r, s),
         DOMAIN r.impls \subseteq Nat, \A i \in DOMAIN s.impls : s.impls[i].proto \in Ids(r),
         NEW ty, \A i \in DOMAIN s.impls \ DOMAIN r.impls : s.impls[i].ty # ty,
         NEW m, NEW filter, Resolve(r, m, ty, filter).k = "Call"
  PROVE  Resolve(s, m, ty, filter) = Resolve(r, m, ty, filter)
<1> DEFINE S == Candidates(r, m, ty, filter)
<1>1. PICK p \in S :
        /\ Maximal(r, S) = {p}
        /\ Resolve(r, m, ty, filter) = Supplied(r, p, m, ty)
        /\ Supplying(r, p, ty, m) # {} \/ Defaulting(Lineage(r, p), m) # {}
  BY RunsFacts
<1>2. \A q \in Ids(r) : Chain(s, q) = Chain(r, q) /\ Lineage(s, q) = Lineage(r, q)
  BY GrownChain
<1>3. \A q : BlocksOf(s, q, ty) = BlocksOf(r, q, ty)
  BY DEF BlocksOf, Grown
<1>4. \A q : IsImplemented(s, q, ty) <=> IsImplemented(r, q, ty)
  BY <1>3 DEF IsImplemented
<1>5. \A q : IsImplemented(s, q, ty) => q \in Ids(r)
  BY DEF IsImplemented, BlocksOf
<1>6. Candidates(s, m, ty, filter) = S
  <2>1. Ids(r) \subseteq Ids(s)
    BY DEF Grown
  <2>2. \A q \in Ids(r) : Declares(s, q, m) <=> Declares(r, q, m)
    BY <1>2 DEF Declares
  <2> QED
    BY <1>4, <1>5, <2>1, <2>2 DEF Candidates
<1>7. S \subseteq Ids(r)
  BY DEF Candidates
<1> HIDE DEF S
<1>8. Maximal(s, S) = Maximal(r, S)
  BY <1>2, <1>7 DEF Maximal, Reaches
<1>9. Resolve(s, m, ty, filter) = Supplied(s, p, m, ty)
  BY <1>1, <1>6, <1>8, ResolveFacts
<1>10. p \in Ids(r)
  BY <1>7
<1>11. /\ Supplying(s, p, ty, m) = Supplying(r, p, ty, m)
       /\ \A i \in Supplying(r, p, ty, m) : s.impls[i] = r.impls[i] /\ i \in Nat
  <2>1. \A i \in BlocksOf(r, p, ty) : s.impls[i] = r.impls[i] /\ i \in Nat
    BY DEF BlocksOf, Grown
  <2>2. BlocksOf(s, p, ty) = BlocksOf(r, p, ty)
    BY <1>3
  <2> QED
    BY <2>1, <2>2 DEF Supplying
<1>12. CASE Supplying(r, p, ty, m) # {}
  <2>1. Method(s, p, ty, m) = Method(r, p, ty, m)
    BY <1>11, <1>12, LowestFacts DEF Method
  <2> QED
    BY <1>1, <1>9, <1>11, <1>12, <2>1, SuppliedFacts
<1>13. CASE Supplying(r, p, ty, m) = {}
  <2>1. Lineage(s, p) = Lineage(r, p)
    BY <1>2, <1>10
  <2> QED
    BY <1>1, <1>9, <1>11, <1>13, <2>1, SuppliedFacts
<1> QED
  BY <1>12, <1>13

LEMMA KeepRunningStep ==
  ASSUME Inv, [Next]_vars,
         NEW m \in Members, NEW ty \in Types, NEW filter \in {NoProtocol} \cup Ids(reg),
         Callable(m, filter), Resolve(reg, m, ty, filter).k = "Call"
  PROVE  LET d == Resolve(reg, m, ty, filter)
             e == Resolve(reg', m, ty, filter)
         IN /\ (\A i \in DOMAIN reg'.impls : reg'.impls[i].proto = 1 \/ AllSeen(reg'.impls[i].proto)) =>
                 e.k \in {"Call", "Ambiguous"} \cup (IF NativeDefault(reg, m) THEN {"Native"} ELSE {})
            /\ e # d => \E i \in DOMAIN reg'.impls \ DOMAIN reg.impls : reg'.impls[i].ty = ty
<1> DEFINE d == Resolve(reg, m, ty, filter)
           e == Resolve(reg', m, ty, filter)
           S == Candidates(reg, m, ty, filter)
           T == Candidates(reg', m, ty, filter)
           best == Maximal(reg', T)
<1>1. /\ ParentFirst(reg) /\ ParentFirst(reg') /\ Grown(reg, reg') /\ SeenSupply'
      /\ \A i \in DOMAIN reg'.impls : reg'.impls[i].proto \in Ids(reg)
      /\ DOMAIN reg.impls \subseteq Nat
  <2>1. Inv' /\ Grown(reg, reg') /\ \A i \in DOMAIN reg'.impls : reg'.impls[i].proto \in Ids(reg)
    BY StepInv
  <2>2. ParentFirst(reg) /\ ParentFirst(reg')
    BY <2>1 DEF Inv, Registered
  <2>3. SeenSupply'
    BY <2>1, SeenSupplyNext
  <2>4. DOMAIN reg.impls \subseteq Nat
    BY RegisteredFacts DEF Inv
  <2> QED
    BY <2>1, <2>2, <2>3, <2>4
<1>2. e # d => \E i \in DOMAIN reg'.impls \ DOMAIN reg.impls : reg'.impls[i].ty = ty
  <2> SUFFICES ASSUME \A i \in DOMAIN reg'.impls \ DOMAIN reg.impls : reg'.impls[i].ty # ty
               PROVE  e = d
    OBVIOUS
  <2> QED
    BY <1>1, SameRun
<1>3. /\ \A q \in Ids(reg) : Chain(reg', q) = Chain(reg, q) /\ Lineage(reg', q) = Lineage(reg, q)
      /\ Ids(reg) \subseteq Ids(reg')
  BY <1>1, GrownChain DEF Grown
<1>4. T # {}
  <2>1. PICK p \in S : TRUE
    BY <1>1, RunsFacts
  <2>2. /\ p \in Ids(reg) /\ filter \in {NoProtocol, p} /\ Declares(reg, p, m)
        /\ IsImplemented(reg, p, ty)
    BY <2>1 DEF Candidates
  <2>3. IsImplemented(reg', p, ty)
    BY <1>1, <2>2 DEF IsImplemented, BlocksOf, Grown
  <2>4. Declares(reg', p, m)
    BY <1>3, <2>2 DEF Declares
  <2> QED
    BY <1>3, <2>2, <2>3, <2>4 DEF Candidates
<1>5. \A q \in T : /\ q \in Ids(reg) /\ q \in Ids(reg') /\ Declares(reg', q, m)
                   /\ IsImplemented(reg', q, ty)
                   /\ \E i \in DOMAIN reg'.impls : reg'.impls[i].proto = q
  BY <1>1, <1>3 DEF Candidates, IsImplemented, BlocksOf
<1>6. ASSUME \A i \in DOMAIN reg'.impls : reg'.impls[i].proto = 1 \/ AllSeen(reg'.impls[i].proto)
      PROVE  e.k \in {"Call", "Ambiguous"} \cup (IF NativeDefault(reg, m) THEN {"Native"} ELSE {})
  <2>1. /\ \A q : best = {q} => q \in T /\ e = Supplied(reg', q, m, ty)
        /\ (\A q : best # {q}) => \E q, o \in T : e = Ambiguous(q, o)
    BY <1>1, <1>4, ResolveFacts
  <2> HIDE DEF e, T, best
  <2>2. CASE \A q : best # {q}
    <3>1. e.k = "Ambiguous"
      BY <2>1, <2>2, KindFacts
    <3> QED
      BY <3>1
  <2>3. CASE \E q : best = {q}
    <3>1. PICK q \in T : e = Supplied(reg', q, m, ty)
      BY <2>1, <2>3
    <3>2. q = 1 \/ AllSeen(q)
      BY <1>5, <1>6
    <3>3. CASE AllSeen(q)
      <4>1. AllSeen(q)'
        <5>1. \A o \in ToSet(Chain(reg, q)) :
                InModule(file, 1, reg.protos[o].name) /\ o \in Ids(reg)
          BY <1>1, <1>5, <3>3, LineageFacts DEF AllSeen
        <5>2. \A o \in Ids(reg) : reg'.protos[o] = reg.protos[o]
          BY <1>1 DEF Grown
        <5>3. \A o \in ToSet(Chain(reg', q)) : InModule(file', 1, reg'.protos[o].name)
          BY <1>3, <1>5, <5>1, <5>2, ModuleGrown
        <5> QED
          BY <5>3 DEF AllSeen
      <4>2. \E b : Supplied(reg', q, m, ty) = Call(b)
        BY <1>1, <1>5, <4>1 DEF SeenSupply
      <4>3. e.k = "Call"
        BY <3>1, <4>2, KindFacts
      <4> QED
        BY <4>3
    <3>4. CASE q = 1
      <4>1. reg'.protos[1] = WellKnown /\ reg.protos[1] = WellKnown /\ 1 \in Ids(reg) /\ 1 \in Ids(reg')
        BY <1>1, <1>5, <3>4 DEF Inv, Registered, Grown
      <4>2. PICK o \in ToSet(Chain(reg', 1)) : Places(reg'.protos[o].members, m) # {}
        BY <1>1, <1>5, <3>4, LineageFacts
      <4>3. o = 1
        <5>1. o \in 1 .. 1
          BY <1>1, <4>1, <4>2, LineageFacts
        <5> QED
          BY <5>1
      <4>4. PICK i : i \in Places(WellKnown.members, m)
        BY <4>1, <4>2, <4>3
      <4>5. WellKnown.members[i].native
        BY <4>4, WellKnownFacts DEF Places
      <4>6. NativeDefault(reg, m) /\ NativeDefault(reg', m)
        BY <4>1, <4>4, <4>5 DEF NativeDefault
      <4>7. e.k \in {"Call", "Native"}
        BY <3>1, <4>6, SuppliedFacts, KindFacts
      <4> QED
        BY <4>6, <4>7
    <3> QED
      BY <3>2, <3>3, <3>4
  <2> QED
    BY <2>2, <2>3
<1> QED
  BY <1>2, <1>6

\* No declaration stops a call that ran, nor changes what runs for a type it
\* does not implement for.
THEOREM KeepRunning == Spec => CallsKeepRunning
<1>1. Inv /\ [Next]_vars =>
        [reg' # reg =>
         \A m \in Members, ty \in Types, filter \in {NoProtocol} \cup Ids(reg) :
           Callable(m, filter) /\ Resolve(reg, m, ty, filter).k = "Call" =>
             LET d == Resolve(reg, m, ty, filter)
                 e == Resolve(reg', m, ty, filter)
             IN /\ (\A i \in DOMAIN reg'.impls :
                      reg'.impls[i].proto = 1 \/ AllSeen(reg'.impls[i].proto)) =>
                     e.k \in {"Call", "Ambiguous"} \cup (IF NativeDefault(reg, m) THEN {"Native"} ELSE {})
                /\ e # d => \E i \in DOMAIN reg'.impls \ DOMAIN reg.impls : reg'.impls[i].ty = ty
        ]_vars
  BY KeepRunningStep
<1> QED
  BY Invariance, <1>1, PTL DEF CallsKeepRunning, Spec

=============================================================================
