---------------------------- MODULE CallsProofs ----------------------------
(* What Calls promises, for every library and every program the resolver    *)
(* accepts (the assumptions of Places), every stack limit and number of     *)
(* values: links stay to the frames they were made to, no binding and no    *)
(* exception outlives its body, tail calls take no stack, and the value     *)
(* checks fail only on what the resolver could not see.  Two invariants     *)
(* carry them: ControlOK, that every frame's continuations stand each in    *)
(* the place the one below it leaves, and DataOK, that what the machine     *)
(* keeps to restore is what its continuations hold open.                    *)
EXTENDS Calls, StackLemmas, FiniteSetTheorems, TLAPS

----------------------------------------------------------------------------
(* Sequences whose elements are of no one kind.                             *)

IsSeq(s) == \E S : s \in Seq(S)

LEMMA SeqFacts ==
  ASSUME NEW s, IsSeq(s)
  PROVE  Len(s) \in Nat /\ DOMAIN s = 1 .. Len(s) /\ (s = <<>> <=> Len(s) = 0)
<1>1. PICK S : s \in Seq(S)
  BY DEF IsSeq
<1> QED
  BY <1>1, LenProperties, EmptySeq

\* A sequence and one more element have a set in common.
LEMMA SeqWithin ==
  ASSUME NEW s, IsSeq(s), NEW e
  PROVE  \E S : s \in Seq(S) /\ e \in S
<1>1. PICK S : s \in Seq(S)
  BY DEF IsSeq
<1>2. s \in Seq(S \cup {e})
  BY <1>1, SeqMonotonic
<1> QED
  BY <1>2

LEMMA SeqAppend ==
  ASSUME NEW s, IsSeq(s), NEW e
  PROVE  /\ IsSeq(Append(s, e)) /\ Len(Append(s, e)) = Len(s) + 1
         /\ \A i \in 1 .. Len(s) : Append(s, e)[i] = s[i]
         /\ Append(s, e)[Len(s) + 1] = e
         /\ s \o <<e>> = Append(s, e)
<1>1. PICK S : s \in Seq(S) /\ e \in S
  BY SeqWithin
<1> QED
  BY <1>1, AppendFacts, AppendIsConcat DEF IsSeq

LEMMA SeqFront ==
  ASSUME NEW s, IsSeq(s), s # <<>>
  PROVE  /\ IsSeq(Front(s)) /\ Len(Front(s)) = Len(s) - 1
         /\ \A i \in 1 .. Len(s) - 1 : Front(s)[i] = s[i]
<1>1. PICK S : s \in Seq(S)
  BY DEF IsSeq
<1> QED
  BY <1>1, FrontFacts DEF IsSeq

\* What a sequence has up to any element.
LEMMA SeqCut ==
  ASSUME NEW s, IsSeq(s), NEW n \in 0 .. Len(s)
  PROVE  /\ IsSeq(SubSeq(s, 1, n)) /\ Len(SubSeq(s, 1, n)) = n
         /\ \A i \in 1 .. n : SubSeq(s, 1, n)[i] = s[i]
<1>1. PICK S : s \in Seq(S)
  BY DEF IsSeq
<1>2. Len(s) \in Nat /\ n \in Int /\ 1 \in Int /\ \A i \in 1 .. n : s[i] \in S
  BY <1>1, SeqFacts, ElementOfSeq
<1>3. /\ SubSeq(s, 1, n) \in Seq(S)
      /\ Len(SubSeq(s, 1, n)) = IF 1 <= n THEN n - 1 + 1 ELSE 0
      /\ \A i \in 1 .. n - 1 + 1 : SubSeq(s, 1, n)[i] = s[1 + i - 1]
  BY <1>2, SubSeqProperties
<1>4. n - 1 + 1 = n /\ \A i \in 1 .. n : 1 + i - 1 = i
  BY <1>2
<1>5. Len(SubSeq(s, 1, n)) = n
  BY <1>2, <1>3
<1>6. \A i \in 1 .. n : SubSeq(s, 1, n)[i] = s[i]
  BY <1>3, <1>4
<1> QED
  BY <1>3, <1>5, <1>6 DEF IsSeq

LEMMA SeqConcat ==
  ASSUME NEW s, IsSeq(s), NEW a, NEW b
  PROVE  /\ s \o <<>> = s /\ s \o <<a>> = Append(s, a)
         /\ s \o <<a, b>> = Append(Append(s, a), b)
<1>1. PICK S : s \in Seq(S) /\ a \in S
  BY SeqWithin
<1> DEFINE R == S \cup {b}
<1>2. s \in Seq(R) /\ a \in R /\ b \in R
  BY <1>1, SeqMonotonic
<1> HIDE DEF R
<1>3. s \o <<>> = s /\ s \o <<a>> = Append(s, a)
  BY <1>2, ConcatEmptySeq, AppendIsConcat
<1>4. <<a>> \in Seq(R) /\ <<b>> \in Seq(R) /\ Append(s, a) \in Seq(R)
  BY <1>2, AppendFacts
<1>5. (s \o <<a>>) \o <<b>> = s \o (<<a>> \o <<b>>)
  BY <1>2, <1>4, ConcatAssociative
<1>6. <<a>> \o <<b>> = <<a, b>>
  <2>1. <<a, b>> \in Seq(R) /\ Len(<<a, b>>) = 2 /\ Len(<<a>>) = 1 /\ Len(<<b>>) = 1
    BY <1>2
  <2>2. /\ <<a>> \o <<b>> \in Seq(R) /\ Len(<<a>> \o <<b>>) = 2
        /\ \A i \in 1 .. 2 : (<<a>> \o <<b>>)[i] = IF i <= 1 THEN <<a>>[i] ELSE <<b>>[i - 1]
    BY <1>4, <2>1, ConcatProperties
  <2>3. \A i \in 1 .. 2 : (<<a>> \o <<b>>)[i] = <<a, b>>[i]
    BY <2>2
  <2> QED
    BY <2>1, <2>2, <2>3, SeqEqual
<1>7. Append(s, a) \o <<b>> = Append(Append(s, a), b)
  BY <1>2, <1>4, AppendIsConcat
<1> QED
  BY <1>3, <1>5, <1>6, <1>7

LEMMA TupleConcat ==
  ASSUME NEW a, NEW b, NEW c
  PROVE  /\ <<a>> \o <<>> = <<a>> /\ <<a>> \o <<b>> = <<a, b>>
         /\ <<a>> \o <<b, c>> = <<a, b, c>>
<1> DEFINE R == {a, b, c}
<1>1. <<a>> \in Seq(R) /\ <<b>> \in Seq(R) /\ <<a, b>> \in Seq(R)
      /\ <<b, c>> \in Seq(R) /\ <<a, b, c>> \in Seq(R)
  OBVIOUS
<1>2. Len(<<a>>) = 1 /\ Len(<<b>>) = 1 /\ Len(<<a, b>>) = 2 /\ Len(<<b, c>>) = 2
      /\ Len(<<a, b, c>>) = 3
  OBVIOUS
<1> HIDE DEF R
<1>3. <<a>> \o <<>> = <<a>>
  BY <1>1, ConcatEmptySeq
<1>4. <<a>> \o <<b>> = <<a, b>>
  <2>1. /\ <<a>> \o <<b>> \in Seq(R) /\ Len(<<a>> \o <<b>>) = 2
        /\ \A i \in 1 .. 2 : (<<a>> \o <<b>>)[i] = IF i <= 1 THEN <<a>>[i] ELSE <<b>>[i - 1]
    BY <1>1, <1>2, ConcatProperties
  <2>2. \A i \in 1 .. 2 : (<<a>> \o <<b>>)[i] = <<a, b>>[i]
    BY <2>1
  <2> QED
    BY <1>1, <1>2, <2>1, <2>2, SeqEqual
<1>5. <<a>> \o <<b, c>> = <<a, b, c>>
  <2>1. /\ <<a>> \o <<b, c>> \in Seq(R) /\ Len(<<a>> \o <<b, c>>) = 3
        /\ \A i \in 1 .. 3 : (<<a>> \o <<b, c>>)[i] = IF i <= 1 THEN <<a>>[i] ELSE <<b, c>>[i - 1]
    BY <1>1, <1>2, ConcatProperties
  <2>2. \A i \in 1 .. 3 : (<<a>> \o <<b, c>>)[i] = <<a, b, c>>[i]
    BY <2>1
  <2> QED
    BY <1>1, <1>2, <2>1, <2>2, SeqEqual
<1> QED
  BY <1>3, <1>4, <1>5

LEMMA SeqConcatThree ==
  ASSUME NEW s, IsSeq(s), NEW a, NEW b, NEW c
  PROVE  s \o <<a, b, c>> = Append(Append(Append(s, a), b), c)
<1>1. PICK S : s \in Seq(S) /\ a \in S
  BY SeqWithin
<1> DEFINE R == S \cup {b, c}
<1>2. s \in Seq(R) /\ a \in R /\ b \in R /\ c \in R
  BY <1>1, SeqMonotonic
<1> HIDE DEF R
<1>3. <<a>> \in Seq(R) /\ <<b, c>> \in Seq(R)
  BY <1>2
<1>4. (s \o <<a>>) \o <<b, c>> = s \o (<<a>> \o <<b, c>>)
  BY <1>2, <1>3, ConcatAssociative
<1>5. s \o <<a>> = Append(s, a) /\ IsSeq(Append(s, a))
  BY SeqConcat, SeqAppend
<1>6. Append(s, a) \o <<b, c>> = Append(Append(Append(s, a), b), c)
  BY <1>5, SeqConcat
<1> QED
  BY <1>4, <1>5, <1>6, TupleConcat, Zenon

\* Sequences of the same length and elements are one.
LEMMA SeqSame ==
  ASSUME NEW s, IsSeq(s), NEW t, IsSeq(t), Len(s) = Len(t),
         \A i \in 1 .. Len(s) : s[i] = t[i]
  PROVE  s = t
<1>1. PICK S : s \in Seq(S)
  BY DEF IsSeq
<1>2. PICK T : t \in Seq(T)
  BY DEF IsSeq
<1> DEFINE R == S \cup T
<1>3. s \in Seq(R) /\ t \in Seq(R)
  BY <1>1, <1>2, SeqMonotonic
<1> HIDE DEF R
<1> QED
  BY <1>3, SeqEqual

----------------------------------------------------------------------------
(* What the assumptions about a resolved program say of one node or body.   *)

\* What the place of a node says of it.
LEMMA PlaceOfNode ==
  ASSUME NEW n, NEW c, NodeAt(n, c)
  PROVE  c \in Place /\ NodePlaced(n, c)
<1>1. <<n, c>> \in NodesAt
  BY DEF NodeAt
<1>2. <<n, c>>[2] \in Place /\ NodePlaced(<<n, c>>[1], <<n, c>>[2])
  BY <1>1, NothingReported, Zenon
<1> QED
  BY <1>2, Zenon

\* A node below a placed node is placed,
LEMMA OperandPlaced ==
  ASSUME NEW n, NEW c, NodeAt(n, c), NEW e, NEW d, <<e, d>> \in OperandsBelow(n, c)
  PROVE  NodeAt(e, d)
<1>1. <<e, d>> \in UNION {OperandsBelow(p[1], p[2]) : p \in NodesAt}
  <2>1. <<n, c>> \in NodesAt
    BY DEF NodeAt
  <2>2. <<e, d>> \in OperandsBelow(<<n, c>>[1], <<n, c>>[2])
    BY Zenon
  <2> QED
    BY <2>1, <2>2, Zenon
<1> QED
  BY <1>1, PlacedBelow, Zenon DEF NodeAt

\* and so is a body.
LEMMA BelowPlaced ==
  ASSUME NEW n, NEW c, NodeAt(n, c), NEW b, NEW d, <<b, d>> \in BodiesBelow(n, c)
  PROVE  BodyAt(b, d)
<1>1. <<b, d>> \in UNION {BodiesBelow(p[1], p[2]) : p \in NodesAt}
  <2>1. <<n, c>> \in NodesAt
    BY DEF NodeAt
  <2>2. <<b, d>> \in BodiesBelow(<<n, c>>[1], <<n, c>>[2])
    BY Zenon
  <2> QED
    BY <2>1, <2>2, Zenon
<1> QED
  BY <1>1, PlacedBelow, Zenon DEF BodyAt

\* What the place of a body says of it and of its statements.
LEMMA PlaceOfBody ==
  ASSUME NEW b, NEW c, BodyAt(b, c)
  PROVE  /\ c \in Place /\ IsSeq(b) /\ (c.want # "Any" => b # <<>>)
         /\ \A i \in 1 .. Len(b) :
              /\ NodeAt(b[i], StmtPlace(c, i = Len(b))) /\ b[i].k \in Statements
<1>1. <<b, c>> \in BodiesAt /\ b = <<b, c>>[1] /\ c = <<b, c>>[2]
  BY DEF BodyAt
<1>2. c \in Place /\ BodyPlaced(b, c)
  <2>1. <<b, c>>[2] \in Place /\ BodyPlaced(<<b, c>>[1], <<b, c>>[2])
    BY <1>1, NothingReported, Zenon
  <2> QED
    BY <2>1, Zenon
<1>3. b \in Seq({p[1] : p \in NodesAt})
  <2>1. b \in {p[1] : p \in BodiesAt}
    BY <1>1, Zenon
  <2> QED
    BY <2>1, PlacedBelow, Zenon
<1>4. ASSUME NEW i \in 1 .. Len(b)
      PROVE  NodeAt(b[i], StmtPlace(c, i = Len(b)))
  <2>1. <<b[i], StmtPlace(c, i = Len(b))>> \in StmtsIn(b, c)
    BY Zenon DEF StmtsIn
  <2>2. StmtsIn(b, c) \in {StmtsIn(p[1], p[2]) : p \in BodiesAt}
    BY <1>1, Zenon
  <2>3. <<b[i], StmtPlace(c, i = Len(b))>> \in UNION {StmtsIn(p[1], p[2]) : p \in BodiesAt}
    BY <2>1, <2>2, Zenon
  <2> QED
    BY <2>3, PlacedBelow, Zenon DEF NodeAt
<1> QED
  BY <1>2, <1>3, <1>4 DEF BodyPlaced, IsSeq

\* The places made from a place.
LEMMA PlaceFacts ==
  ASSUME NEW c \in Place
  PROVE  /\ c.home \in {"Top", "Proc", "Func"} /\ c.hops \in Nat /\ c.loop \in Nat
         /\ c.tail \in BOOLEAN /\ c.ret \in BOOLEAN /\ c.want \in Wants
         /\ c.endless \in SUBSET Nat
  BY DEF Place

\* What each kind of node has below it.
LEMMA OfCall ==
  ASSUME NEW n, NEW c, NodeAt(n, c), n.k = "Call"
  PROVE  /\ n.hops = c.hops /\ n.tail = (c.tail /\ n.blk = <<>>)
         /\ n.to # "b" => n.to \in Names
         /\ c.want # "Never"
         /\ c.want = "Value" /\ n.known /\ n.to # "b" => \A k \in Callees(n.to) : k.kind = "Func"
         /\ n.blk # <<>> => BodyAt(n.blk[1], BlockPlace(c))
<1>1. NodePlaced(n, c)
  BY PlaceOfNode
<1>2. ASSUME n.blk # <<>> PROVE BodyAt(n.blk[1], BlockPlace(c))
  <2>1. <<n.blk[1], BlockPlace(c)>> \in BodiesBelow(n, c)
    BY <1>2 DEF BodiesBelow, Present
  <2> QED
    BY <2>1, BelowPlaced
<1> QED
  BY <1>1, <1>2 DEF NodePlaced, Exits, Present

\* What is below each kind of node, in its place.
LEMMA OfIf ==
  ASSUME NEW n, NEW c, NodeAt(n, c), n.k = "If"
  PROVE  /\ BodyAt(n.then, c)
         /\ n.else # <<>> => BodyAt(n.else[1], c)
         /\ c.want # "Any" => n.else # <<>>
<1>1. NodePlaced(n, c)
  BY PlaceOfNode
<1>2. <<n.then, c>> \in BodiesBelow(n, c)
  BY DEF BodiesBelow
<1>3. n.else # <<>> => <<n.else[1], c>> \in BodiesBelow(n, c)
  BY DEF BodiesBelow, Present
<1> QED
  BY <1>1, <1>2, <1>3, BelowPlaced DEF NodePlaced, Exits, Present

LEMMA OfTry ==
  ASSUME NEW n, NEW c, NodeAt(n, c), n.k = "Try"
  PROVE  BodyAt(n.body, OpenPlace(c, c.want)) /\ BodyAt(n.rescue, OpenPlace(c, c.want))
<1>1. <<n.body, OpenPlace(c, c.want)>> \in BodiesBelow(n, c)
  BY DEF BodiesBelow
<1>2. <<n.rescue, OpenPlace(c, c.want)>> \in BodiesBelow(n, c)
  BY DEF BodiesBelow
<1> QED
  BY <1>1, <1>2, BelowPlaced

LEMMA OfWith ==
  ASSUME NEW n, NEW c, NodeAt(n, c), n.k = "With"
  PROVE  /\ NodeAt(n.e, OperandPlace(c, FALSE)) /\ n.e.k \in Expressions
         /\ BodyAt(n.body, OpenPlace(c, IF c.want = "Any" THEN "Any" ELSE "Never"))
<1>1. NodePlaced(n, c)
  BY PlaceOfNode
<1>2. <<n.body, OpenPlace(c, IF c.want = "Any" THEN "Any" ELSE "Never")>> \in BodiesBelow(n, c)
  BY DEF BodiesBelow
<1>3. <<n.e, OperandPlace(c, FALSE)>> \in OperandsBelow(n, c)
  BY DEF OperandsBelow, Present, Exits
<1>4. n.e.k \in Expressions
  BY <1>1 DEF NodePlaced, Exits, Present
<1> QED
  BY <1>2, <1>3, <1>4, BelowPlaced, OperandPlaced

LEMMA OfLet ==
  ASSUME NEW n, NEW c, NodeAt(n, c), n.k = "Let"
  PROVE  NodeAt(n.e, OperandPlace(c, FALSE)) /\ n.e.k \in Expressions /\ c.want = "Any"
<1>1. NodePlaced(n, c)
  BY PlaceOfNode
<1>2. <<n.e, OperandPlace(c, FALSE)>> \in OperandsBelow(n, c)
  BY DEF OperandsBelow, Present, Exits
<1>3. n.e.k \in Expressions /\ c.want = "Any"
  BY <1>1 DEF NodePlaced, Exits, Present
<1> QED
  BY <1>2, <1>3, OperandPlaced

LEMMA OfExprStmt ==
  ASSUME NEW n, NEW c, NodeAt(n, c), n.k = "ExprStmt"
  PROVE  NodeAt(n.e, c) /\ n.e.k \in Expressions
<1>1. NodePlaced(n, c)
  BY PlaceOfNode
<1>2. <<n.e, c>> \in OperandsBelow(n, c)
  BY DEF OperandsBelow, Present, Exits
<1>3. n.e.k \in Expressions
  BY <1>1 DEF NodePlaced, Exits, Present
<1> QED
  BY <1>2, <1>3, OperandPlaced

LEMMA OfLoop ==
  ASSUME NEW n, NEW c, NodeAt(n, c), n.k \in {"While", "Loop"}
  PROVE  /\ n.loop = c.loop + 1 /\ BodyAt(n.body, LoopPlace(n, c))
         /\ n.k = "While" => c.want = "Any"
<1>1. NodePlaced(n, c)
  BY PlaceOfNode
<1>2. <<n.body, LoopPlace(n, c)>> \in BodiesBelow(n, c)
  BY DEF BodiesBelow
<1>3. n.loop = c.loop + 1 /\ (n.k = "While" => c.want = "Any")
  BY <1>1 DEF NodePlaced, Exits, Present
<1> QED
  BY <1>2, <1>3, BelowPlaced

\* The nodes with an operand, or none.
LEMMA OfExit ==
  ASSUME NEW n, NEW c, NodeAt(n, c), n.k \in Exits \cup {"Raise"}
  PROVE  /\ n.op # <<>> => /\ NodeAt(n.op[1], OperandPlace(c, n.k = "Return" /\ c.ret))
                           /\ n.op[1].k \in Expressions
         /\ n.k \in Exits => ExitPlaced(n, c)
<1>1. NodePlaced(n, c)
  BY PlaceOfNode
<1>2. n.op # <<>> => <<n.op[1], OperandPlace(c, n.k = "Return" /\ c.ret)>> \in OperandsBelow(n, c)
  BY DEF OperandsBelow, Present, Exits
<1>3. /\ n.op # <<>> => n.op[1].k \in Expressions
      /\ n.k \in Exits => ExitPlaced(n, c)
  BY <1>1 DEF NodePlaced, Exits, Present
<1> QED
  BY <1>2, <1>3, OperandPlaced

----------------------------------------------------------------------------
(* Where the continuations of a frame stand: each in the place the one      *)
(* below it leaves, and what the last leaves is the place of whatever the   *)
(* frame runs next.                                                         *)

\* The place of what runs above a continuation that stands in c.
AbovePlace(k, c) ==
  CASE k.k = "Seq" -> StmtPlace(c, k.next > Len(k.body))
    [] k.k \in {"BindLet", "WithBind"} -> OperandPlace(c, FALSE)
    [] k.k \in {"RaiseApply", "ExitApply"} ->
         [c EXCEPT !.tail = (k.node.k = "Return" /\ c.ret),
                   !.want = IF k.node.op = <<>> THEN "Any" ELSE "Value"]
    [] k.k = "WithRestore" -> OpenPlace(c, IF c.want = "Any" THEN "Any" ELSE "Never")
    [] k.k \in {"TryHandler", "PopHandler"} -> OpenPlace(c, c.want)
    [] k.k \in {"WhileCheck", "LoopReloop"} -> LoopPlace(k.node, c)
    [] k.k = "ReturnBarrier" -> c
    [] k.k \in {"Eval", "IfChoose"} -> [c EXCEPT !.want = "Any"]

\* What a continuation's place says of it.
Does(n, c, kinds) == NodeAt(n, c) /\ n.k \in kinds
ContPlaced(k, c) ==
  CASE k.k = "Seq" -> /\ BodyAt(k.body, c) /\ k.next \in 1 .. Len(k.body) + 1
                      /\ k = [k |-> "Seq", body |-> k.body, next |-> k.next]
    [] k.k = "Eval" -> Does(k.node, c, Expressions)
    [] k.k = "IfChoose" -> Does(k.node, c, {"If"})
    [] k.k = "BindLet" -> Does(k.node, c, {"Let"})
    [] k.k = "WithBind" -> Does(k.node, c, {"With"})
    [] k.k = "ExitApply" -> Does(k.node, c, Exits)
    [] k.k = "RaiseApply" -> Does(k.node, c, {"Raise"})
    [] k.k = "TryHandler" -> Does(k.node, c, {"Try"})
    [] k.k = "WhileCheck" -> Does(k.node, c, {"While"})
    [] k.k = "LoopReloop" -> Does(k.node, c, {"Loop"})
    [] k.k \in {"ReturnBarrier", "WithRestore", "PopHandler"} -> TRUE
    [] OTHER -> FALSE

\* Each continuation stands in the place ps gives it.
Standing(ps, cs) ==
  /\ ps \in [1 .. Len(cs) + 1 -> Place]
  /\ \A i \in 1 .. Len(cs) :
       /\ ContPlaced(cs[i], ps[i]) /\ ps[i + 1] = AbovePlace(cs[i], ps[i])
       /\ ps[i].home = ps[1].home /\ ps[i].hops = ps[1].hops

\* cs can stand from the place b on, and leaves the place t.
Stands(cs, b, t) ==
  \E ps : Standing(ps, cs) /\ ps[1] = b /\ ps[Len(cs) + 1] = t

ContKinds == {"Seq", "Eval", "IfChoose", "BindLet", "WithBind", "ExitApply", "RaiseApply",
  "TryHandler", "WhileCheck", "LoopReloop", "WithRestore", "ReturnBarrier", "PopHandler"}

\* A placed continuation is of one of the kinds.
LEMMA ContKind ==
  ASSUME NEW k, NEW c, ContPlaced(k, c)
  PROVE  k.k \in ContKinds
  BY DEF ContPlaced, ContKinds

\* What is above a placed continuation is placed, in the same callable.
LEMMA AboveIsPlace ==
  ASSUME NEW k, NEW c \in Place, ContPlaced(k, c)
  PROVE  /\ AbovePlace(k, c) \in Place
         /\ AbovePlace(k, c).home = c.home /\ AbovePlace(k, c).hops = c.hops
<1>1. CASE k.k = "Seq"
  BY <1>1 DEF AbovePlace, StmtPlace, Place, Wants
<1>2. CASE k.k \in {"BindLet", "WithBind"}
  BY <1>2 DEF AbovePlace, OperandPlace, Place, Wants
<1>3. CASE k.k \in {"RaiseApply", "ExitApply"}
  BY <1>3 DEF AbovePlace, Place, Wants
<1>4. CASE k.k = "WithRestore"
  BY <1>4 DEF AbovePlace, OpenPlace, Place, Wants
<1>5. CASE k.k \in {"TryHandler", "PopHandler"}
  BY <1>5 DEF AbovePlace, OpenPlace, Place, Wants
<1>6. CASE k.k \in {"WhileCheck", "LoopReloop"}
  <2>1. NodeAt(k.node, c) /\ k.node.k \in {"While", "Loop"}
    BY <1>6 DEF ContPlaced, Does
  <2>2. k.node.loop \in Nat
    BY <2>1, OfLoop, PlaceFacts
  <2>3. AbovePlace(k, c) = LoopPlace(k.node, c)
    BY <1>6 DEF AbovePlace
  <2>4. PICK e : e = IF c.want = "Any" THEN c.endless ELSE c.endless \cup {k.node.loop}
    OBVIOUS
  <2>5. e \in SUBSET Nat
    BY <2>2, <2>4, PlaceFacts
  <2>6. PICK l \in Nat : l = c.loop + 1
    BY PlaceFacts
  <2>7. LoopPlace(k.node, c) =
          [c EXCEPT !.loop = l, !.tail = FALSE, !.want = "Any", !.endless = e]
    BY <2>4, <2>6, Zenon DEF LoopPlace
  <2>8. /\ LoopPlace(k.node, c) \in Place
        /\ LoopPlace(k.node, c).home = c.home /\ LoopPlace(k.node, c).hops = c.hops
    BY <2>5, <2>7 DEF Place, Wants
  <2> QED
    BY <2>3, <2>8
<1>7. CASE k.k \in {"ReturnBarrier", "Eval", "IfChoose"}
  BY <1>7 DEF AbovePlace, Place, Wants
<1> QED
  BY ContKind, <1>1, <1>2, <1>3, <1>4, <1>5, <1>6, <1>7 DEF ContKinds

\* Continuations leave a place in the callable they stand in.
LEMMA StandsFacts ==
  ASSUME NEW cs, IsSeq(cs), NEW b, NEW t, Stands(cs, b, t)
  PROVE  b \in Place /\ t \in Place /\ t.home = b.home /\ t.hops = b.hops
<1>1. PICK ps : Standing(ps, cs) /\ ps[1] = b /\ ps[Len(cs) + 1] = t
  BY DEF Stands
<1>2. Len(cs) \in Nat
  BY SeqFacts
<1>3. b \in Place /\ t \in Place
  BY <1>1, <1>2 DEF Standing
<1>4. CASE Len(cs) = 0
  <2>1. Len(cs) + 1 = 1
    BY <1>4
  <2> QED
    BY <1>1, <1>3, <2>1
<1>5. CASE Len(cs) # 0
  <2>1. Len(cs) \in 1 .. Len(cs) /\ ps[Len(cs)] \in Place
    BY <1>1, <1>2, <1>5 DEF Standing
  <2>2. /\ ContPlaced(cs[Len(cs)], ps[Len(cs)]) /\ t = AbovePlace(cs[Len(cs)], ps[Len(cs)])
        /\ ps[Len(cs)].home = b.home /\ ps[Len(cs)].hops = b.hops
    BY <1>1, <2>1 DEF Standing
  <2> QED
    BY <1>3, <2>1, <2>2, AboveIsPlace
<1> QED
  BY <1>3, <1>4, <1>5

\* No continuation leaves the place as it is.
LEMMA StandsEmpty ==
  ASSUME NEW b \in Place
  PROVE  Stands(<<>>, b, b)
<1> DEFINE ps == [i \in 1 .. Len(<<>>) + 1 |-> b]
<1>1. Len(<<>>) = 0
  OBVIOUS
<1>2. Standing(ps, <<>>) /\ ps[1] = b /\ ps[Len(<<>>) + 1] = b
  BY <1>1 DEF Standing
<1> HIDE DEF ps
<1> QED
  BY <1>2 DEF Stands

\* Pushing a continuation where it belongs.
LEMMA StandsPush ==
  ASSUME NEW cs, IsSeq(cs), NEW b, NEW c, Stands(cs, b, c), NEW k, ContPlaced(k, c)
  PROVE  Stands(Append(cs, k), b, AbovePlace(k, c))
<1>1. PICK ps : Standing(ps, cs) /\ ps[1] = b /\ ps[Len(cs) + 1] = c
  BY DEF Stands
<1> DEFINE n == Len(cs)
           ks == Append(cs, k)
           qs == [i \in 1 .. n + 2 |-> IF i = n + 2 THEN AbovePlace(k, c) ELSE ps[i]]
<1>2. n \in Nat /\ Len(ks) = n + 1 /\ ks[n + 1] = k /\ \A i \in 1 .. n : ks[i] = cs[i]
  BY SeqFacts, SeqAppend
<1>3. c \in Place /\ c.home = b.home /\ c.hops = b.hops
  BY StandsFacts
<1>4. AbovePlace(k, c) \in Place
  BY <1>3, AboveIsPlace
<1>5. n + 1 + 1 = n + 2 /\ n + 2 \in 1 .. n + 2 /\ n + 2 # 1
  BY <1>2
<1>6. /\ qs[1] = b /\ qs[n + 1] = c /\ qs[n + 2] = AbovePlace(k, c)
      /\ \A i \in 1 .. n + 1 : qs[i] = ps[i]
  BY <1>1, <1>2
<1>7. qs \in [1 .. n + 2 -> Place]
  BY <1>1, <1>2, <1>4 DEF Standing
<1> HIDE DEF qs, ks
<1>8. ASSUME NEW i \in 1 .. n
      PROVE  /\ ContPlaced(ks[i], qs[i]) /\ qs[i + 1] = AbovePlace(ks[i], qs[i])
             /\ qs[i].home = qs[1].home /\ qs[i].hops = qs[1].hops
  <2>1. /\ ContPlaced(cs[i], ps[i]) /\ ps[i + 1] = AbovePlace(cs[i], ps[i])
        /\ ps[i].home = ps[1].home /\ ps[i].hops = ps[1].hops
    BY <1>1 DEF Standing
  <2>2. i \in 1 .. n + 1 /\ i + 1 \in 1 .. n + 1 /\ 1 \in 1 .. n + 1
    BY <1>2
  <2>3. qs[i] = ps[i] /\ qs[i + 1] = ps[i + 1] /\ qs[1] = ps[1] /\ ks[i] = cs[i]
    BY <1>2, <1>6, <2>2
  <2> QED
    BY <2>1, <2>3
<1>9. ASSUME NEW i \in 1 .. n + 1
      PROVE  /\ ContPlaced(ks[i], qs[i]) /\ qs[i + 1] = AbovePlace(ks[i], qs[i])
             /\ qs[i].home = qs[1].home /\ qs[i].hops = qs[1].hops
  <2>1. CASE i = n + 1
    BY <1>2, <1>3, <1>5, <1>6, <2>1
  <2>2. CASE i # n + 1
    <3>1. i \in 1 .. n
      BY <1>2, <2>2
    <3> QED
      BY <1>8, <3>1
  <2> QED
    BY <2>1, <2>2
<1>10. Standing(qs, ks)
  BY <1>2, <1>5, <1>7, <1>9 DEF Standing
<1> QED
  BY <1>2, <1>5, <1>6, <1>10 DEF Stands, ks

\* Only a handler or a binding keeps a `return` from being a tail call's.
LEMMA RetKept ==
  ASSUME NEW k, NEW c \in Place, k.k \in ContKinds \ {"WithRestore", "TryHandler", "PopHandler"}
  PROVE  AbovePlace(k, c).ret = c.ret
<1>1. CASE k.k \in {"WhileCheck", "LoopReloop"}
  <2>1. AbovePlace(k, c) = LoopPlace(k.node, c)
    BY <1>1 DEF AbovePlace
  <2>2. PICK l, e : LoopPlace(k.node, c) =
          [c EXCEPT !.loop = l, !.tail = FALSE, !.want = "Any", !.endless = e]
    BY Zenon DEF LoopPlace
  <2> QED
    BY <2>1, <2>2 DEF Place
<1>2. CASE k.k = "Seq"
  BY <1>2 DEF AbovePlace, StmtPlace, Place
<1>3. CASE k.k \in {"BindLet", "WithBind"}
  BY <1>3 DEF AbovePlace, OperandPlace, Place
<1>4. CASE k.k \in {"ExitApply", "RaiseApply"}
  BY <1>4 DEF AbovePlace, Place
<1>5. CASE k.k \in {"Eval", "IfChoose", "ReturnBarrier"}
  BY <1>5 DEF AbovePlace, Place
<1> QED
  BY <1>1, <1>2, <1>3, <1>4, <1>5 DEF ContKinds

\* Below any continuation, what stands there stands still.
LEMMA StandsCut ==
  ASSUME NEW cs, IsSeq(cs), NEW b, NEW t, Stands(cs, b, t), NEW i \in 1 .. Len(cs),
         NEW ks, IsSeq(ks), Len(ks) = i - 1, \A j \in 1 .. i - 1 : ks[j] = cs[j]
  PROVE  \E c : /\ Stands(ks, b, c) /\ ContPlaced(cs[i], c)
                /\ i = Len(cs) => t = AbovePlace(cs[i], c)
<1>1. PICK ps : Standing(ps, cs) /\ ps[1] = b /\ ps[Len(cs) + 1] = t
  BY DEF Stands
<1>2. Len(cs) \in Nat /\ i - 1 + 1 = i /\ 1 .. i - 1 \subseteq 1 .. Len(cs)
  BY SeqFacts
<1> DEFINE qs == [j \in 1 .. i |-> ps[j]]
<1>3. \A j \in 1 .. i : qs[j] = ps[j]
  OBVIOUS
<1>4. qs \in [1 .. i -> Place]
  <2>1. 1 .. i \subseteq 1 .. Len(cs) + 1
    BY <1>2
  <2> QED
    BY <1>1, <2>1 DEF Standing
<1> HIDE DEF qs
<1>5. ASSUME NEW j \in 1 .. i - 1
      PROVE  /\ ContPlaced(ks[j], qs[j]) /\ qs[j + 1] = AbovePlace(ks[j], qs[j])
             /\ qs[j].home = qs[1].home /\ qs[j].hops = qs[1].hops
  <2>1. j \in 1 .. Len(cs) /\ j \in 1 .. i /\ j + 1 \in 1 .. i /\ 1 \in 1 .. i
    BY <1>2
  <2>2. /\ ContPlaced(cs[j], ps[j]) /\ ps[j + 1] = AbovePlace(cs[j], ps[j])
        /\ ps[j].home = ps[1].home /\ ps[j].hops = ps[1].hops
    BY <1>1, <2>1 DEF Standing
  <2> QED
    BY <1>3, <2>1, <2>2
<1>6. Standing(qs, ks)
  BY <1>2, <1>4, <1>5 DEF Standing
<1>7. qs[1] = b /\ qs[i] = ps[i]
  <2>1. 1 \in 1 .. i /\ i \in 1 .. i
    OBVIOUS
  <2> QED
    BY <1>1, <1>3, <2>1
<1>8. Stands(ks, b, ps[i])
  <2>1. qs[Len(ks) + 1] = ps[i]
    BY <1>2, <1>7
  <2> QED
    BY <1>6, <1>7, <2>1 DEF Stands
<1>9. ContPlaced(cs[i], ps[i]) /\ ps[i + 1] = AbovePlace(cs[i], ps[i])
  BY <1>1 DEF Standing
<1> QED
  BY <1>1, <1>8, <1>9

\* Without the last continuation, the others leave the place it stands in.
LEMMA StandsPop ==
  ASSUME NEW cs, IsSeq(cs), cs # <<>>, NEW b, NEW t, Stands(cs, b, t)
  PROVE  \E c : /\ Stands(Front(cs), b, c) /\ ContPlaced(cs[Len(cs)], c)
                /\ t = AbovePlace(cs[Len(cs)], c)
<1>1. /\ IsSeq(Front(cs)) /\ Len(Front(cs)) = Len(cs) - 1
      /\ \A j \in 1 .. Len(cs) - 1 : Front(cs)[j] = cs[j]
  BY SeqFront
<1>2. Len(cs) \in 1 .. Len(cs)
  BY SeqFacts
<1> QED
  BY <1>1, <1>2, StandsCut

LEMMA StandsNone ==
  ASSUME NEW b, NEW t, Stands(<<>>, b, t)
  PROVE  t = b
<1>1. Len(<<>>) + 1 = 1
  OBVIOUS
<1> QED
  BY <1>1 DEF Stands

\* Out of tail position, a frame has more to do than hand a result on.
LEMMA NotHanding ==
  ASSUME NEW cs, IsSeq(cs), NEW b, NEW t, Stands(cs, b, t), b.tail, b.ret, ~ t.tail
  PROVE  ~ Handing(cs)
<1>1. SUFFICES ASSUME NEW n \in 0 .. Len(cs),
                 /\ \A i \in n+1..Len(cs) : cs[i].k = "Seq" => cs[i].next > Len(cs[i].body)
                 /\ \A i \in n+1..Len(cs) : cs[i].k \in {"Seq", "ReturnBarrier"}
                 /\ \/ n = 0
                    \/ /\ cs[n].k = "ExitApply" /\ cs[n].node.k = "Return"
                       /\ \A i \in 1..n : cs[i].k \notin {"WithRestore", "TryHandler", "PopHandler"}
               PROVE FALSE
  BY DEF Handing
<1>2. PICK ps : Standing(ps, cs) /\ ps[1] = b /\ ps[Len(cs) + 1] = t
  BY DEF Stands
<1>3. Len(cs) \in Nat /\ n \in Nat /\ n <= Len(cs)
  BY SeqFacts
<1>4. \A i \in 1 .. Len(cs) : /\ ps[i] \in Place /\ ContPlaced(cs[i], ps[i])
                              /\ ps[i + 1] = AbovePlace(cs[i], ps[i])
  BY <1>2, <1>3 DEF Standing
<1>5. ~ ps[n + 1].tail
  <2> DEFINE S == {i \in n + 1 .. Len(cs) + 1 : ~ ps[i].tail}
  <2>1. Len(cs) + 1 \in S /\ S \in SUBSET Nat
    BY <1>2, <1>3
  <2>2. PICK i \in S : \A j \in S : i <= j
    BY <2>1, LeastElement
  <2>3. CASE i = n + 1
    BY <2>2, <2>3
  <2>4. CASE i # n + 1
    <3>1. i - 1 \in n + 1 .. Len(cs) /\ i - 1 \in 1 .. Len(cs) /\ i - 1 + 1 = i /\ ~ (i <= i - 1)
      BY <1>3, <2>2, <2>4
    <3>2. ps[i] = AbovePlace(cs[i - 1], ps[i - 1]) /\ ps[i - 1] \in Place
      BY <1>4, <3>1
    <3>3. \/ cs[i - 1].k = "Seq" /\ cs[i - 1].next > Len(cs[i - 1].body)
          \/ cs[i - 1].k = "ReturnBarrier"
      BY <1>1, <3>1
    <3>4. ps[i] = ps[i - 1]
      <4>1. CASE cs[i - 1].k = "Seq" /\ cs[i - 1].next > Len(cs[i - 1].body)
        BY <3>2, <4>1 DEF AbovePlace, StmtPlace
      <4>2. CASE cs[i - 1].k = "ReturnBarrier"
        BY <3>2, <4>2 DEF AbovePlace
      <4> QED
        BY <3>3, <4>1, <4>2
    <3>5. i - 1 \in S
      BY <1>3, <2>2, <3>1, <3>4
    <3> QED
      BY <2>2, <3>1, <3>5
  <2> QED
    BY <2>3, <2>4
<1>6. CASE n = 0
  <2>1. n + 1 = 1
    BY <1>6
  <2> QED
    BY <1>2, <1>5, <2>1
<1>7. CASE n # 0
  <2>1. n \in 1 .. Len(cs)
    BY <1>3, <1>7
  <2>2. /\ cs[n].k = "ExitApply" /\ cs[n].node.k = "Return"
        /\ \A i \in 1..n : cs[i].k \notin {"WithRestore", "TryHandler", "PopHandler"}
    BY <1>1, <1>7
  <2>3. ~ ps[n].ret
    <3>1. ps[n + 1] = AbovePlace(cs[n], ps[n]) /\ ps[n] \in Place
      BY <1>4, <2>1
    <3>2. AbovePlace(cs[n], ps[n]).tail = ps[n].ret
      BY <2>2, <3>1 DEF AbovePlace, Place
    <3> QED
      BY <1>5, <3>1, <3>2
  <2> DEFINE S == {i \in 1 .. n : ~ ps[i].ret}
  <2>4. n \in S /\ S \in SUBSET Nat
    BY <2>1, <2>3
  <2>5. PICK i \in S : \A j \in S : i <= j
    BY <2>4, LeastElement
  <2>6. CASE i = 1
    BY <1>2, <2>5, <2>6
  <2>7. CASE i # 1
    <3>1. /\ i - 1 \in 1 .. n /\ i - 1 \in 1 .. Len(cs) /\ i - 1 + 1 = i
          /\ ~ (i <= i - 1) /\ ~ ps[i].ret
      BY <1>3, <2>5, <2>7
    <3>2. /\ ps[i] = AbovePlace(cs[i - 1], ps[i - 1]) /\ ps[i - 1] \in Place
          /\ ContPlaced(cs[i - 1], ps[i - 1])
      BY <1>4, <3>1
    <3>3. cs[i - 1].k \in ContKinds \ {"WithRestore", "TryHandler", "PopHandler"}
      BY <2>2, <3>1, <3>2, ContKind
    <3>4. ps[i].ret = ps[i - 1].ret
      BY <3>2, <3>3, RetKept
    <3>5. i - 1 \in S
      BY <3>1, <3>4
    <3> QED
      BY <2>5, <3>1, <3>5
  <2> QED
    BY <2>6, <2>7
<1> QED
  BY <1>6, <1>7

----------------------------------------------------------------------------
(* The stack: every frame stands where its base says, its links go to live  *)
(* frames below it, and its caller can use what it will hand back.          *)

\* The fields of a frame.
FrameFields == {"kind", "cal", "mod", "conts", "act", "known", "plain", "blk",
  "def", "defact", "consumer", "consact"}

\* Only a barrier is at the bottom of a frame, the module's excepted.
Barred(cs, i) ==
  /\ \A j \in 1 .. Len(cs) : cs[j].k = "ReturnBarrier" <=> j = 1 /\ i # 1
  /\ i # 1 => cs # <<>>
Shaped(f, i) ==
  /\ DOMAIN f = FrameFields /\ f.kind \in {"Top", "Callable", "Block"}
  /\ f.kind = "Top" <=> i = 1
  /\ IsSeq(f.conts) /\ Barred(f.conts, i)

\* The place a frame's body stands in, and its links.
Linked(frs, i, j, act) == j \in 1 .. i - 1 /\ frs[j].act = act
BasedTop(f, b) == f.kind = "Top" => b = TopPlace
BasedCallable(f, b) ==
  f.kind = "Callable" =>
    f.cal \in Names /\ f.mod = Cal(f.cal).mod /\ b = CallablePlace(Cal(f.cal).kind)
BasedBlock(frs, B, i) ==
  LET f == frs[i]
  IN f.kind = "Block" =>
       /\ Linked(frs, i, f.def, f.defact) /\ Linked(frs, i, f.consumer, f.consact)
       /\ frs[f.consumer].kind = "Callable"
       /\ B[i] = BlockPlace(B[f.def])
Passed(frs, B, i) ==
  LET f == frs[i]
  IN f.blk # NoBlock =>
       /\ f.kind = "Callable" /\ Linked(frs, i, f.blk.def, f.blk.act)
       /\ BodyAt(f.blk.body, BlockPlace(B[f.blk.def]))

\* What a caller, which goes on in the place t, wants of its callee.
Served(f, t) ==
  /\ t.want # "Never"
  /\ t.want = "Value" /\ f.kind = "Callable" /\ Cal(f.cal).kind = "Proc" => ~ f.known
\* A frame that a tail call should have replaced.
Wasted(f, g) ==
  /\ f.kind = "Callable" /\ g.kind = "Callable" /\ g.plain
  /\ Cal(f.cal).kind = Cal(g.cal).kind
  /\ Handing(f.conts)

\* The ith frame's continuations stand from the place B[i] on and leave T[i].
FrameOK(frs, B, T, i) ==
  /\ Shaped(frs[i], i)
  /\ Stands(frs[i].conts, B[i], T[i])
  /\ BasedTop(frs[i], B[i]) /\ BasedCallable(frs[i], B[i])
  /\ BasedBlock(frs, B, i) /\ Passed(frs, B, i)
  /\ i # 1 => Served(frs[i], T[i - 1]) /\ ~ Wasted(frs[i - 1], frs[i])
StackOK(frs, B, T) == IsSeq(frs) /\ \A i \in 1 .. Len(frs) : FrameOK(frs, B, T, i)

\* A frame's condition is about the frames up to it.
LEMMA FrameLocal ==
  ASSUME NEW frs, NEW B, NEW T, NEW frs2, NEW B2, NEW T2, NEW i \in Nat \ {0},
         FrameOK(frs, B, T, i),
         \A j \in 1 .. i : frs2[j] = frs[j] /\ B2[j] = B[j] /\ T2[j] = T[j]
  PROVE  FrameOK(frs2, B2, T2, i)
<1>1. i \in 1 .. i /\ frs2[i] = frs[i] /\ B2[i] = B[i] /\ T2[i] = T[i]
  OBVIOUS
<1>2. \A j, act : Linked(frs, i, j, act) => Linked(frs2, i, j, act) /\ frs2[j] = frs[j] /\ B2[j] = B[j]
  BY DEF Linked
<1>3. BasedBlock(frs2, B2, i)
  BY <1>1, <1>2 DEF FrameOK, BasedBlock
<1>4. Passed(frs2, B2, i)
  BY <1>1, <1>2 DEF FrameOK, Passed
<1>5. ASSUME i # 1
      PROVE  Served(frs2[i], T2[i - 1]) /\ ~ Wasted(frs2[i - 1], frs2[i])
  <2>1. i - 1 \in 1 .. i
    BY <1>5
  <2>2. Served(frs[i], T[i - 1]) /\ ~ Wasted(frs[i - 1], frs[i])
    BY <1>5 DEF FrameOK
  <2> QED
    BY <1>1, <2>1, <2>2
<1> QED
  BY <1>1, <1>3, <1>4, <1>5 DEF FrameOK

\* Only the top of the stack changes.
LEMMA NewTop ==
  ASSUME NEW frs, NEW B, NEW T, StackOK(frs, B, T), NEW frs2, IsSeq(frs2),
         NEW n \in Nat, n = Len(frs2), NEW B2, NEW T2, n - 1 <= Len(frs),
         \A j \in 1 .. n - 1 : frs2[j] = frs[j] /\ B2[j] = B[j] /\ T2[j] = T[j],
         n # 0 => FrameOK(frs2, B2, T2, n)
  PROVE  StackOK(frs2, B2, T2)
<1>1. SUFFICES ASSUME NEW i \in 1 .. n PROVE FrameOK(frs2, B2, T2, i)
  BY DEF StackOK
<1>2. CASE i = n
  BY <1>2
<1>3. CASE i # n
  <2>1. /\ i \in Nat \ {0} /\ i \in 1 .. Len(frs)
        /\ \A j \in 1 .. i : frs2[j] = frs[j] /\ B2[j] = B[j] /\ T2[j] = T[j]
    <3>1. Len(frs) \in Nat
      BY SeqFacts DEF StackOK
    <3> QED
      BY <1>3, <3>1
  <2> QED
    BY <2>1, FrameLocal DEF StackOK
<1> QED
  BY <1>2, <1>3

Alike(f, g) == f.kind = g.kind /\ f.act = g.act /\ f.cal = g.cal
OneFrame(frs2, frs) ==
  /\ Len(frs2) = Len(frs) /\ \A j \in 1 .. Len(frs) - 1 : frs2[j] = frs[j]
  /\ \A j \in 1 .. Len(frs) : Alike(frs2[j], frs[j])
WithConts(frs, ks) == [frs EXCEPT ![Len(frs)].conts = ks]
\* The place the top frame goes on in, or a new frame's.
Upto(T, n, t) == [j \in 1 .. n |-> IF j = n THEN t ELSE T[j]]

\* The top frame goes on with other continuations.
LEMMA TopConts ==
  ASSUME NEW frs, NEW B, NEW T, StackOK(frs, B, T), frs # <<>>,
         NEW ks, IsSeq(ks), Barred(ks, Len(frs)),
         NEW t, Stands(ks, B[Len(frs)], t)
  PROVE  /\ StackOK(WithConts(frs, ks), B, Upto(T, Len(frs), t))
         /\ WithConts(frs, ks)[Len(frs)].conts = ks
         /\ OneFrame(WithConts(frs, ks), frs)
<1> DEFINE n == Len(frs)
           g == [frs[n] EXCEPT !.conts = ks]
           frs2 == WithConts(frs, ks)
           T2 == Upto(T, n, t)
<1>0. frs2 = [frs EXCEPT ![n] = g]
  BY Zenon DEF WithConts
<1> HIDE DEF frs2
<1>1. n \in Nat \ {0} /\ DOMAIN frs = 1 .. n /\ n \in 1 .. n
  BY SeqFacts DEF StackOK
<1>2. FrameOK(frs, B, T, n)
  BY <1>1 DEF StackOK
<1>3. /\ IsSeq(frs2) /\ Len(frs2) = n /\ frs2[n] = g
      /\ \A j \in 1 .. n - 1 : frs2[j] = frs[j]
  <2>1. PICK S : frs \in Seq(S) /\ g \in S
    BY SeqWithin DEF StackOK
  <2> HIDE DEF g
  <2>2. /\ frs2 \in Seq(S) /\ Len(frs2) = n /\ frs2[n] = g
        /\ \A j \in 1 .. n : j # n => frs2[j] = frs[j]
    <3>1. LET h == [frs EXCEPT ![n] = g]
          IN /\ h \in Seq(S) /\ Len(h) = n /\ h[n] = g
             /\ \A j \in 1 .. n : j # n => h[j] = frs[j]
      BY <1>1, <2>1, ExceptFacts
    <3> QED
      BY <1>0, <3>1, Zenon
  <2> QED
    <3> HIDE DEF n
    <3> QED
      BY <1>1, <2>2 DEF IsSeq
<1>4. /\ DOMAIN g = FrameFields /\ g.conts = ks /\ g.kind = frs[n].kind
      /\ g.cal = frs[n].cal /\ g.mod = frs[n].mod /\ g.known = frs[n].known
      /\ g.plain = frs[n].plain /\ g.blk = frs[n].blk /\ g.def = frs[n].def
      /\ g.defact = frs[n].defact /\ g.consumer = frs[n].consumer
      /\ g.consact = frs[n].consact
  BY <1>2 DEF FrameOK, Shaped, FrameFields
<1> HIDE DEF g
<1>5. T2[n] = t /\ \A j \in 1 .. n - 1 : T2[j] = T[j]
  <2> HIDE DEF n
  <2>1. \A j \in 1 .. n : T2[j] = IF j = n THEN t ELSE T[j]
    BY Zenon DEF n, Upto
  <2> HIDE DEF T2
  <2> QED
    BY <1>1, <2>1
<1> HIDE DEF T2
<1>6. Shaped(g, n) /\ BasedTop(g, B[n]) /\ BasedCallable(g, B[n])
  BY <1>2, <1>4 DEF FrameOK, Shaped, BasedTop, BasedCallable
<1>7. \A j, act : Linked(frs, n, j, act) => Linked(frs2, n, j, act) /\ frs2[j] = frs[j]
  BY <1>3 DEF Linked
<1>8. BasedBlock(frs2, B, n)
  BY <1>2, <1>3, <1>4, <1>7 DEF FrameOK, BasedBlock
<1>9. Passed(frs2, B, n)
  BY <1>2, <1>3, <1>4, <1>7 DEF FrameOK, Passed
<1>10. ASSUME n # 1
       PROVE  Served(g, T2[n - 1]) /\ ~ Wasted(frs2[n - 1], g)
  <2>1. n - 1 \in 1 .. n - 1
    BY <1>1, <1>10
  <2>2. Served(frs[n], T[n - 1]) /\ ~ Wasted(frs[n - 1], frs[n])
    BY <1>2, <1>10 DEF FrameOK
  <2>3. T2[n - 1] = T[n - 1] /\ frs2[n - 1] = frs[n - 1]
    BY <1>3, <1>5, <2>1
  <2> QED
    BY <1>4, <2>2, <2>3 DEF Served, Wasted
<1>11. FrameOK(frs2, B, T2, n)
  BY <1>3, <1>4, <1>5, <1>6, <1>8, <1>9, <1>10 DEF FrameOK
<1>12. StackOK(frs2, B, T2)
  <2>1. n \in Nat /\ n = Len(frs2) /\ n - 1 <= Len(frs)
    BY <1>1, <1>3
  <2>2. \A j \in 1 .. n - 1 : frs2[j] = frs[j] /\ B[j] = B[j] /\ T2[j] = T[j]
    BY <1>3, <1>5
  <2> HIDE DEF n
  <2> QED
    BY <1>3, <1>11, <2>1, <2>2, NewTop
<1>13. \A j \in 1 .. n : Alike(frs2[j], frs[j])
  <2>1. g.act = frs[n].act
    BY <1>2 DEF FrameOK, Shaped, FrameFields, g
  <2> QED
    BY <1>1, <1>3, <1>4, <2>1 DEF Alike
<1>14. OneFrame(frs2, frs) /\ frs2[n].conts = ks
  BY <1>3, <1>4, <1>13 DEF OneFrame
<1> QED
  BY <1>12, <1>14, Zenon DEF frs2, T2

\* A continuation pushed leaves the barrier where it is.
LEMMA BarredPush ==
  ASSUME NEW cs, IsSeq(cs), NEW i, Barred(cs, i), NEW k, k.k # "ReturnBarrier"
  PROVE  IsSeq(Append(cs, k)) /\ Barred(Append(cs, k), i)
<1> DEFINE ks == Append(cs, k)
<1>1. /\ IsSeq(ks) /\ Len(ks) = Len(cs) + 1 /\ ks[Len(cs) + 1] = k
      /\ \A j \in 1 .. Len(cs) : ks[j] = cs[j]
  BY SeqAppend
<1>2. Len(cs) \in Nat /\ (cs = <<>> <=> Len(cs) = 0) /\ (ks = <<>> <=> Len(ks) = 0)
  BY <1>1, SeqFacts
<1> HIDE DEF ks
<1>3. ASSUME NEW j \in 1 .. Len(ks)
      PROVE  ks[j].k = "ReturnBarrier" <=> j = 1 /\ i # 1
  <2>1. CASE j = Len(cs) + 1
    <3>1. j = 1 => i = 1
      BY <1>2, <2>1 DEF Barred
    <3> QED
      BY <1>1, <2>1, <3>1
  <2>2. CASE j # Len(cs) + 1
    <3>1. j \in 1 .. Len(cs)
      BY <1>1, <1>2, <2>2
    <3> QED
      BY <1>1, <3>1 DEF Barred
  <2> QED
    BY <2>1, <2>2
<1> QED
  BY <1>1, <1>2, <1>3 DEF Barred, ks

\* And one popped, unless it is the barrier.
LEMMA BarredFront ==
  ASSUME NEW cs, IsSeq(cs), NEW i, Barred(cs, i), cs # <<>>,
         cs[Len(cs)].k # "ReturnBarrier"
  PROVE  IsSeq(Front(cs)) /\ Barred(Front(cs), i)
<1> DEFINE ks == Front(cs)
<1>1. IsSeq(ks) /\ Len(ks) = Len(cs) - 1 /\ \A j \in 1 .. Len(cs) - 1 : ks[j] = cs[j]
  BY SeqFront
<1>2. Len(cs) \in Nat \ {0} /\ (ks = <<>> <=> Len(ks) = 0)
  BY <1>1, SeqFacts
<1> HIDE DEF ks
<1>3. i # 1 => ks # <<>>
  <2>1. i # 1 => Len(cs) # 1
    BY <1>2 DEF Barred
  <2> QED
    BY <1>1, <1>2, <2>1
<1>4. \A j \in 1 .. Len(ks) : ks[j].k = "ReturnBarrier" <=> j = 1 /\ i # 1
  BY <1>1, <1>2 DEF Barred
<1> QED
  BY <1>1, <1>3, <1>4 DEF Barred, ks

\* The machine's current frame and continuation.
LEMMA AtTop ==
  ASSUME NEW B, NEW T, StackOK(frames, B, T), frames # <<>>
  PROVE  /\ Len(frames) \in Nat \ {0} /\ Top = frames[Len(frames)]
         /\ FrameOK(frames, B, T, Len(frames))
         /\ Shaped(Top, Len(frames)) /\ Stands(Top.conts, B[Len(frames)], T[Len(frames)])
         /\ IsSeq(Top.conts) /\ Len(Top.conts) \in Nat
         /\ Barred(Top.conts, Len(frames))
         /\ B[Len(frames)] \in Place /\ T[Len(frames)] \in Place
<1>1. Len(frames) \in Nat \ {0} /\ Top = frames[Len(frames)] /\ FrameOK(frames, B, T, Len(frames))
  BY SeqFacts DEF StackOK, Top
<1>2. /\ Shaped(Top, Len(frames)) /\ Stands(Top.conts, B[Len(frames)], T[Len(frames)])
      /\ IsSeq(Top.conts) /\ Barred(Top.conts, Len(frames))
  BY <1>1 DEF FrameOK, Shaped
<1> QED
  BY <1>1, <1>2, SeqFacts, StandsFacts

\* A dispatched continuation is the last one of the top frame.
LEMMA AtCont ==
  ASSUME NEW B, NEW T, StackOK(frames, B, T), frames # <<>>, Top.conts # <<>>
  PROVE  \E c \in Place :
           /\ Stands(Front(Top.conts), B[Len(frames)], c) /\ ContPlaced(Cont, c)
           /\ T[Len(frames)] = AbovePlace(Cont, c)
           /\ c.home = B[Len(frames)].home /\ c.hops = B[Len(frames)].hops
<1> DEFINE n == Len(frames)
           cs == Top.conts
<1>1. IsSeq(cs) /\ Stands(cs, B[n], T[n]) /\ cs # <<>>
  BY AtTop
<1>2. IsSeq(Front(cs)) /\ Len(Front(cs)) = Len(cs) - 1 /\ \A j \in 1 .. Len(cs) - 1 : Front(cs)[j] = cs[j]
  BY <1>1, SeqFront
<1>3. Len(cs) \in 1 .. Len(cs) /\ Cont = cs[Len(cs)]
  BY <1>1, SeqFacts DEF Cont
<1>4. PICK c : /\ Stands(Front(cs), B[n], c) /\ ContPlaced(Cont, c)
               /\ T[n] = AbovePlace(Cont, c)
  <2> HIDE DEF n, cs
  <2>1. \E c : /\ Stands(Front(cs), B[n], c) /\ ContPlaced(cs[Len(cs)], c)
               /\ T[n] = AbovePlace(cs[Len(cs)], c)
    BY <1>1, StandsPop
  <2> QED
    BY <1>3, <2>1
<1> QED
  BY <1>2, <1>4, StandsFacts

\* The current continuation gives way to none, one or two.
ThenOK(conts, B, T, t) ==
  /\ StackOK(Then(conts), B, Upto(T, Len(frames), t))
  /\ OneFrame(Then(conts), frames) /\ Then(conts) # <<>>

\* The current continuation gives way to others that stand where it stood.
LEMMA ThenConts ==
  ASSUME NEW B, NEW T, StackOK(frames, B, T), frames # <<>>,
         NEW conts, NEW t, IsSeq(Front(Top.conts) \o conts),
         Barred(Front(Top.conts) \o conts, Len(frames)),
         Stands(Front(Top.conts) \o conts, B[Len(frames)], t)
  PROVE  /\ ThenOK(conts, B, T, t)
         /\ Then(conts)[Len(frames)].conts = Front(Top.conts) \o conts
<1> DEFINE ks == Front(Top.conts) \o conts
           n == Len(frames)
           frs2 == WithConts(frames, ks)
<1>1. Then(conts) = frs2
  BY Zenon DEF Then, Top, WithConts
<1>2. n \in Nat \ {0}
  BY SeqFacts DEF StackOK
<1>3. /\ StackOK(frs2, B, Upto(T, n, t))
      /\ frs2[n].conts = ks /\ OneFrame(frs2, frames)
  <2>1. IsSeq(ks) /\ Barred(ks, n) /\ Stands(ks, B[n], t)
    OBVIOUS
  <2> HIDE DEF ks
  <2> QED
    BY <2>1, TopConts, SMT
<1>4. frs2 # <<>>
  <2> HIDE DEF frs2
  <2> QED
    BY <1>2, <1>3, SeqFacts DEF StackOK, OneFrame
<1> QED
  BY <1>1, <1>3, <1>4, Zenon DEF ThenOK

LEMMA ThenNone ==
  ASSUME NEW B, NEW T, StackOK(frames, B, T), frames # <<>>, Top.conts # <<>>,
         Cont.k # "ReturnBarrier", NEW c, Stands(Front(Top.conts), B[Len(frames)], c)
  PROVE  /\ ThenOK(<<>>, B, T, c)
         /\ Then(<<>>)[Len(frames)].conts = Front(Top.conts)
<1>1. IsSeq(Front(Top.conts)) /\ Barred(Front(Top.conts), Len(frames))
  BY AtTop, BarredFront DEF Cont
<1>2. Front(Top.conts) \o <<>> = Front(Top.conts)
  BY <1>1, SeqConcat
<1> QED
  BY <1>1, <1>2, ThenConts

LEMMA ThenOne ==
  ASSUME NEW B, NEW T, StackOK(frames, B, T), frames # <<>>, Top.conts # <<>>,
         Cont.k # "ReturnBarrier", NEW c, Stands(Front(Top.conts), B[Len(frames)], c),
         NEW k, ContPlaced(k, c), k.k # "ReturnBarrier"
  PROVE  /\ ThenOK(<<k>>, B, T, AbovePlace(k, c))
         /\ Then(<<k>>)[Len(frames)].conts = Append(Front(Top.conts), k)
<1>1. IsSeq(Front(Top.conts)) /\ Barred(Front(Top.conts), Len(frames))
  BY AtTop, BarredFront DEF Cont
<1>2. Front(Top.conts) \o <<k>> = Append(Front(Top.conts), k)
  BY <1>1, SeqConcat
<1>3. /\ IsSeq(Append(Front(Top.conts), k)) /\ Barred(Append(Front(Top.conts), k), Len(frames))
      /\ Stands(Append(Front(Top.conts), k), B[Len(frames)], AbovePlace(k, c))
  BY <1>1, BarredPush, StandsPush
<1> QED
  BY <1>2, <1>3, ThenConts

LEMMA ThenTwo ==
  ASSUME NEW B, NEW T, StackOK(frames, B, T), frames # <<>>, Top.conts # <<>>,
         Cont.k # "ReturnBarrier", NEW c, Stands(Front(Top.conts), B[Len(frames)], c),
         NEW k, ContPlaced(k, c), k.k # "ReturnBarrier",
         NEW l, ContPlaced(l, AbovePlace(k, c)), l.k # "ReturnBarrier"
  PROVE  /\ ThenOK(<<k, l>>, B, T, AbovePlace(l, AbovePlace(k, c)))
         /\ Then(<<k, l>>)[Len(frames)].conts = Append(Append(Front(Top.conts), k), l)
<1> DEFINE cs == Front(Top.conts)
<1>1. IsSeq(cs) /\ Barred(cs, Len(frames))
  BY AtTop, BarredFront DEF Cont
<1> HIDE DEF cs
<1>2. cs \o <<k, l>> = Append(Append(cs, k), l)
  BY <1>1, SeqConcat
<1>3. /\ IsSeq(Append(cs, k)) /\ Barred(Append(cs, k), Len(frames))
      /\ Stands(Append(cs, k), B[Len(frames)], AbovePlace(k, c))
  BY <1>1, BarredPush, StandsPush DEF cs
<1>4. /\ IsSeq(Append(Append(cs, k), l)) /\ Barred(Append(Append(cs, k), l), Len(frames))
      /\ Stands(Append(Append(cs, k), l), B[Len(frames)], AbovePlace(l, AbovePlace(k, c)))
  BY <1>3, BarredPush, StandsPush
<1> QED
  BY <1>2, <1>4, ThenConts DEF cs

LEMMA ThenThree ==
  ASSUME NEW B, NEW T, StackOK(frames, B, T), frames # <<>>, Top.conts # <<>>,
         Cont.k # "ReturnBarrier", NEW c, Stands(Front(Top.conts), B[Len(frames)], c),
         NEW k, ContPlaced(k, c), k.k # "ReturnBarrier",
         NEW l, ContPlaced(l, AbovePlace(k, c)), l.k # "ReturnBarrier",
         NEW m, ContPlaced(m, AbovePlace(l, AbovePlace(k, c))), m.k # "ReturnBarrier"
  PROVE  /\ ThenOK(<<k, l, m>>, B, T, AbovePlace(m, AbovePlace(l, AbovePlace(k, c))))
         /\ Then(<<k, l, m>>)[Len(frames)].conts =
              Append(Append(Append(Front(Top.conts), k), l), m)
<1> DEFINE cs == Front(Top.conts)
           ds == Append(Append(cs, k), l)
<1>1. IsSeq(cs) /\ Barred(cs, Len(frames))
  BY AtTop, BarredFront DEF Cont
<1> HIDE DEF cs
<1>2. cs \o <<k, l, m>> = Append(ds, m)
  BY <1>1, SeqConcatThree
<1>3. /\ IsSeq(Append(cs, k)) /\ Barred(Append(cs, k), Len(frames))
      /\ Stands(Append(cs, k), B[Len(frames)], AbovePlace(k, c))
  BY <1>1, BarredPush, StandsPush DEF cs
<1>4. /\ IsSeq(ds) /\ Barred(ds, Len(frames))
      /\ Stands(ds, B[Len(frames)], AbovePlace(l, AbovePlace(k, c)))
  BY <1>3, BarredPush, StandsPush
<1> HIDE DEF ds
<1>5. /\ IsSeq(Append(ds, m)) /\ Barred(Append(ds, m), Len(frames))
      /\ Stands(Append(ds, m), B[Len(frames)], AbovePlace(m, AbovePlace(l, AbovePlace(k, c))))
  BY <1>4, BarredPush, StandsPush
<1> QED
  BY <1>2, <1>5, ThenConts DEF cs, ds

\* A frame is pushed, or takes the top one's place.
LEMMA UptoFacts ==
  ASSUME NEW T, NEW n \in Nat \ {0}, NEW t
  PROVE  Upto(T, n, t)[n] = t /\ \A j \in 1 .. n - 1 : Upto(T, n, t)[j] = T[j]
<1>1. \A j \in 1 .. n : Upto(T, n, t)[j] = IF j = n THEN t ELSE T[j]
  BY Zenon DEF Upto
<1> QED
  BY <1>1

\* The places of the frames below the top one are as they were.
LEMMA UptoLast ==
  ASSUME NEW T, NEW n \in Nat \ {0}, NEW t
  PROVE  Upto(T, n, t)[n] = t
<1>1. n \in 1 .. n
  OBVIOUS
<1> QED
  BY <1>1, Zenon DEF Upto

\* A frame pushed upon a sound stack that it is sound on.
LEMMA Pushed ==
  ASSUME NEW frs, NEW B, NEW T, StackOK(frs, B, T), NEW f, NEW b, NEW t,
         NEW n \in Nat, n = Len(frs) + 1,
         FrameOK(Append(frs, f), Upto(B, n, b), Upto(T, n, t), n)
  PROVE  /\ StackOK(Append(frs, f), Upto(B, n, b), Upto(T, n, t))
         /\ Len(Append(frs, f)) = n /\ Append(frs, f) # <<>>
<1>1. /\ IsSeq(Append(frs, f)) /\ Len(Append(frs, f)) = n /\ n # 0 /\ n - 1 = Len(frs)
      /\ \A j \in 1 .. n - 1 : Append(frs, f)[j] = frs[j]
  <2>1. Len(frs) \in Nat
    BY SeqFacts DEF StackOK
  <2> QED
    BY <2>1, SeqAppend DEF StackOK
<1>2. \A j \in 1 .. n - 1 : Upto(B, n, b)[j] = B[j] /\ Upto(T, n, t)[j] = T[j]
  BY <1>1, UptoFacts
<1>3. Append(frs, f) # <<>>
  BY <1>1, SeqFacts
<1>4. n - 1 <= Len(frs)
  BY <1>1
<1> DEFINE F == Append(frs, f)
           U == Upto(B, n, b)
           V == Upto(T, n, t)
<1>5. /\ IsSeq(F) /\ n = Len(F) /\ FrameOK(F, U, V, n)
      /\ \A j \in 1 .. n - 1 : F[j] = frs[j] /\ U[j] = B[j] /\ V[j] = T[j]
  BY <1>1, <1>2
<1> HIDE DEF F, U, V
<1>6. StackOK(F, U, V)
  BY <1>4, <1>5, NewTop
<1> QED
  BY <1>1, <1>3, <1>6 DEF F, U, V

\* A sound stack is sound without its top frame.
LEMMA FrameGone ==
  ASSUME NEW frs, NEW B, NEW T, StackOK(frs, B, T), frs # <<>>
  PROVE  /\ StackOK(Front(frs), B, T) /\ Len(Front(frs)) = Len(frs) - 1
         /\ Len(frs) \in Nat \ {0} /\ (Front(frs) = <<>> <=> Len(frs) = 1)
         /\ \A j \in 1 .. Len(frs) - 1 : Front(frs)[j] = frs[j]
<1>1. /\ IsSeq(Front(frs)) /\ Len(Front(frs)) = Len(frs) - 1
      /\ \A j \in 1 .. Len(frs) - 1 : Front(frs)[j] = frs[j]
  BY SeqFront DEF StackOK
<1>2. Len(frs) \in Nat \ {0} /\ (Front(frs) = <<>> <=> Len(frs) = 1)
  BY <1>1, SeqFacts DEF StackOK
<1> DEFINE F == Front(frs)
           n == Len(frs) - 1
<1>3. /\ IsSeq(F) /\ n \in Nat /\ n = Len(F) /\ n - 1 <= Len(frs)
      /\ \A j \in 1 .. n - 1 : F[j] = frs[j] /\ B[j] = B[j] /\ T[j] = T[j]
  BY <1>1, <1>2
<1>4. n # 0 => FrameOK(F, B, T, n)
  <2>1. n # 0 => n \in Nat \ {0} /\ n \in 1 .. Len(frs)
    BY <1>2
  <2>2. \A j \in 1 .. n : F[j] = frs[j]
    BY <1>1
  <2>3. n # 0 => FrameOK(frs, B, T, n)
    BY <2>1 DEF StackOK
  <2> HIDE DEF F, n
  <2> QED
    BY <2>1, <2>2, <2>3, FrameLocal
<1> HIDE DEF F, n
<1>5. StackOK(F, B, T)
  BY <1>3, <1>4, NewTop
<1> QED
  BY <1>1, <1>2, <1>5 DEF F

\* A new frame is about to run its body.
LEMMA BodyStands ==
  ASSUME NEW body, NEW b, BodyAt(body, b), NEW i, i # 1
  PROVE  /\ IsSeq(BodyConts(body)) /\ Barred(BodyConts(body), i)
         /\ Stands(BodyConts(body), b, AbovePlace(SeqCont(body), b))
<1>1. b \in Place /\ IsSeq(body) /\ Len(body) \in Nat
  BY PlaceOfBody, SeqFacts
<1>2. Barrier.k = "ReturnBarrier" /\ AbovePlace(Barrier, b) = b
  BY DEF Barrier, AbovePlace
<1>3. ContPlaced(Barrier, b)
  BY DEF Barrier, ContPlaced
<1>4. ContPlaced(SeqCont(body), b) /\ SeqCont(body).k = "Seq"
  BY <1>1 DEF SeqCont, ContPlaced
<1>5. IsSeq(<<>>) /\ Stands(<<>>, b, b)
  BY <1>1, StandsEmpty DEF IsSeq
<1>7. Append(<<>>, Barrier) = <<Barrier>>
  OBVIOUS
<1>6. IsSeq(Append(<<>>, Barrier)) /\ Stands(Append(<<>>, Barrier), b, b)
  <2>1. Stands(Append(<<>>, Barrier), b, AbovePlace(Barrier, b))
    BY <1>3, <1>5, StandsPush, Zenon
  <2>2. IsSeq(Append(<<>>, Barrier))
    BY <1>5, SeqAppend, Zenon
  <2> QED
    BY <1>2, <2>1, <2>2, Zenon
<1>8. Barred(<<Barrier>>, i)
  BY <1>2 DEF Barred
<1>9. /\ IsSeq(Append(<<Barrier>>, SeqCont(body)))
      /\ Barred(Append(<<Barrier>>, SeqCont(body)), i)
      /\ Stands(Append(<<Barrier>>, SeqCont(body)), b, AbovePlace(SeqCont(body), b))
  BY <1>4, <1>6, <1>7, <1>8, StandsPush, BarredPush
<1>10. BodyConts(body) = Append(<<Barrier>>, SeqCont(body))
  BY DEF BodyConts
<1> QED
  BY <1>9, <1>10

\* Before its first statement a body needs nothing of the register.
LEMMA SeqStarts ==
  ASSUME NEW body, NEW b, BodyAt(body, b)
  PROVE  /\ ContPlaced(SeqCont(body), b) /\ SeqCont(body).k = "Seq"
         /\ AbovePlace(SeqCont(body), b).want = "Any"
<1>1. b \in Place /\ IsSeq(body) /\ Len(body) \in Nat /\ (b.want # "Any" => body # <<>>)
      /\ (body = <<>> <=> Len(body) = 0)
  BY PlaceOfBody, SeqFacts
<1>2. ContPlaced(SeqCont(body), b)
  BY <1>1 DEF SeqCont, ContPlaced
<1>3. AbovePlace(SeqCont(body), b) = StmtPlace(b, 1 > Len(body))
  BY DEF AbovePlace, SeqCont
<1>4. StmtPlace(b, 1 > Len(body)).want = "Any"
  <2>1. CASE body = <<>>
    BY <1>1, <2>1 DEF StmtPlace
  <2>2. CASE body # <<>>
    <3>1. ~ (1 > Len(body))
      BY <1>1, <2>2
    <3> QED
      BY <1>1, <3>1 DEF StmtPlace, Place
  <2> QED
    BY <2>1, <2>2
<1> QED
  BY <1>2, <1>3, <1>4 DEF SeqCont

----------------------------------------------------------------------------
(* Where the links of a stack lead.                                         *)

\* What holds of 0 and of the successor of every number it holds of, holds.
LEMMA Counting ==
  ASSUME NEW S, 0 \in S, NEW n \in Nat,
         \A i \in 1 .. n : i - 1 \in S => i \in S
  PROVE  \A i \in 0 .. n : i \in S
<1> DEFINE U == {i \in 0 .. n : i \notin S}
<1>1. SUFFICES ASSUME U # {} PROVE FALSE
  OBVIOUS
<1>2. PICK i \in U : \A j \in U : i <= j
  <2>1. U \in SUBSET Nat
    OBVIOUS
  <2> QED
    BY <1>1, <2>1, LeastElement
<1>3. i # 0 /\ i \in 1 .. n /\ i - 1 \in 0 .. n /\ ~ (i <= i - 1)
  BY <1>2
<1>4. i - 1 \in S
  BY <1>2, <1>3
<1> QED
  BY <1>2, <1>3, <1>4

\* What the base of a frame says of it.
LEMMA Base ==
  ASSUME NEW frs, NEW B, NEW T, StackOK(frs, B, T), NEW i \in 1 .. Len(frs)
  PROVE  /\ B[i] \in Place
         /\ frs[i].kind = "Top" => B[i].hops = 0 /\ B[i].home = "Top"
         /\ frs[i].kind = "Callable" =>
              i # 1 /\ B[i].hops = 0 /\ B[i].home = Cal(frs[i].cal).kind
         /\ frs[i].kind = "Block" =>
              /\ frs[i].def \in 1 .. i - 1 /\ frs[i].consumer \in 1 .. i - 1 /\ i # 1
              /\ frs[frs[i].consumer].kind = "Callable"
              /\ B[i].hops = B[frs[i].def].hops + 1 /\ B[i].home = B[frs[i].def].home
         /\ frs[i].kind \in {"Top", "Callable", "Block"}
<1>1. FrameOK(frs, B, T, i) /\ Len(frs) \in Nat
  BY SeqFacts DEF StackOK
<1>2. B[i] \in Place
  BY <1>1, StandsFacts DEF FrameOK, Shaped
<1>3. frs[i].kind = "Top" => B[i].hops = 0 /\ B[i].home = "Top"
  BY <1>1 DEF FrameOK, BasedTop, TopPlace
<1>4. frs[i].kind = "Callable" =>
        i # 1 /\ B[i].hops = 0 /\ B[i].home = Cal(frs[i].cal).kind
  BY <1>1 DEF FrameOK, BasedCallable, CallablePlace, Shaped
<1>5. ASSUME frs[i].kind = "Block"
      PROVE  /\ frs[i].def \in 1 .. i - 1 /\ frs[i].consumer \in 1 .. i - 1 /\ i # 1
             /\ frs[frs[i].consumer].kind = "Callable"
             /\ B[i].hops = B[frs[i].def].hops + 1 /\ B[i].home = B[frs[i].def].home
  <2>1. /\ frs[i].def \in 1 .. i - 1 /\ frs[i].consumer \in 1 .. i - 1 /\ i # 1
        /\ frs[frs[i].consumer].kind = "Callable"
        /\ B[i] = BlockPlace(B[frs[i].def])
    BY <1>1, <1>5 DEF FrameOK, BasedBlock, Linked, Shaped
  <2>2. B[frs[i].def] \in Place
    <3>1. frs[i].def \in 1 .. Len(frs)
      BY <1>1, <2>1
    <3>2. FrameOK(frs, B, T, frs[i].def)
      BY <3>1 DEF StackOK
    <3> QED
      BY <3>2, StandsFacts DEF FrameOK, Shaped
  <2>3. /\ BlockPlace(B[frs[i].def]).hops = B[frs[i].def].hops + 1
        /\ BlockPlace(B[frs[i].def]).home = B[frs[i].def].home
    BY <2>2 DEF BlockPlace, Place
  <2> QED
    BY <2>1, <2>3
<1> QED
  BY <1>1, <1>2, <1>3, <1>4, <1>5 DEF FrameOK, Shaped

\* The chase of static links.
Chase(A, frs, k) ==
  A = [h \in 0 .. k |-> IF h = 0 THEN Len(frs) ELSE frs[A[h - 1]].def]

\* Static links can be followed from any frame, each to one further down.
LEMMA ChaseExists ==
  ASSUME NEW frs, NEW k \in Nat
  PROVE  \E A : Chase(A, frs, k)
<1> DEFINE S == {m \in Nat : \E A : Chase(A, frs, m)}
<1>1. 0 \in S
  <2> DEFINE A == [h \in 0 .. 0 |-> Len(frs)]
  <2>1. A = [h \in 0 .. 0 |-> IF h = 0 THEN Len(frs) ELSE frs[A[h - 1]].def]
    OBVIOUS
  <2>2. Chase(A, frs, 0)
    BY <2>1, Zenon DEF Chase
  <2> QED
    BY <2>2
<1>2. ASSUME NEW m \in 1 .. k, m - 1 \in S PROVE m \in S
  <2>1. PICK A : Chase(A, frs, m - 1)
    BY <1>2
  <2> DEFINE C == [h \in 0 .. m |-> IF h = m THEN frs[A[m - 1]].def ELSE A[h]]
  <2>2. m \in Nat /\ \A h \in 0 .. m - 1 : A[h] = IF h = 0 THEN Len(frs) ELSE frs[A[h - 1]].def
    BY <2>1 DEF Chase
  <2>3. C = [h \in 0 .. m |-> IF h = 0 THEN Len(frs) ELSE frs[C[h - 1]].def]
    <3>1. ASSUME NEW h \in 0 .. m
          PROVE  C[h] = IF h = 0 THEN Len(frs) ELSE frs[C[h - 1]].def
      <4>1. C[h] = IF h = m THEN frs[A[m - 1]].def ELSE A[h]
        OBVIOUS
      <4>2. h # 0 => h - 1 \in 0 .. m /\ h - 1 # m
        BY <2>2
      <4>3. h # 0 => C[h - 1] = A[h - 1]
        BY <4>2
      <4> HIDE DEF C
      <4>4. CASE h = m
        BY <2>2, <4>1, <4>3, <4>4
      <4>5. CASE h # m
        <5>1. h \in 0 .. m - 1
          BY <2>2, <4>5
        <5> QED
          BY <2>2, <4>1, <4>3, <4>5, <5>1
      <4> QED
        BY <4>4, <4>5
    <3> QED
      BY <3>1
  <2>4. Chase(C, frs, m)
    BY <2>3, Zenon DEF Chase
  <2>5. \E D : Chase(D, frs, m)
    <3> HIDE DEF C
    <3> QED
      BY <2>4
  <2> QED
    BY <2>2, <2>5
<1> HIDE DEF S
<1>3. k \in S
  <2>1. \A m \in 0 .. k : m \in S
    BY <1>1, <1>2, Counting
  <2> QED
    BY <2>1
<1> QED
  BY <1>3 DEF S

\* As many blocks out as a node may count there is a frame, in that many fewer.
LEMMA OuterFacts ==
  ASSUME NEW B, NEW T, StackOK(frames, B, T), frames # <<>>,
         NEW k \in Nat, k <= B[Len(frames)].hops
  PROVE  /\ Outer(k) \in 1 .. Len(frames)
         /\ B[Outer(k)].hops = B[Len(frames)].hops - k
<1> DEFINE n == Len(frames)
<1>1. n \in Nat \ {0} /\ B[n] \in Place /\ B[n].hops \in Nat
  BY AtTop, PlaceFacts
<1>2. PICK A : Chase(A, frames, k) /\ Outer(k) = A[k]
  <2>1. \E A : Chase(A, frames, k)
    BY ChaseExists
  <2> DEFINE A == CHOOSE A : Chase(A, frames, k)
  <2>2. Chase(A, frames, k)
    BY <2>1
  <2>3. Outer(k) = A[k]
    BY Zenon DEF Outer, Chase
  <2> QED
    BY <2>2, <2>3
<1>3. \A h \in 0 .. k : A[h] = IF h = 0 THEN n ELSE frames[A[h - 1]].def
  BY <1>2, Zenon DEF Chase
<1> DEFINE S == {h \in Nat : A[h] \in 1 .. n /\ B[A[h]].hops = B[n].hops - h}
<1>4. 0 \in S
  <2>1. A[0] = n
    BY <1>3
  <2> HIDE DEF n
  <2> QED
    BY <1>1, <2>1
<1>5. ASSUME NEW h \in 1 .. k, h - 1 \in S PROVE h \in S
  <2> DEFINE i == A[h - 1]
  <2>1. /\ i \in 1 .. n /\ B[i].hops = B[n].hops - (h - 1)
        /\ h \in 0 .. k /\ h # 0 /\ h \in Nat
    BY <1>5
  <2>2. A[h] = frames[i].def
    BY <1>3, <2>1
  <2> HIDE DEF i
  <2>3. B[i].hops # 0
    BY <1>1, <2>1
  <2>4. frames[i].kind = "Block"
    BY <2>1, <2>3, Base
  <2>5. frames[i].def \in 1 .. i - 1 /\ B[i].hops = B[frames[i].def].hops + 1
    BY <2>1, <2>4, Base
  <2>6. frames[i].def \in 1 .. n /\ B[frames[i].def].hops \in Nat
    <3>1. frames[i].def \in 1 .. n
      BY <1>1, <2>1, <2>5
    <3> QED
      BY <3>1, Base, PlaceFacts
  <2>7. B[frames[i].def].hops = B[n].hops - h
    <3>1. \A x, y, z \in Nat : z = y - (h - 1) /\ z = x + 1 => x = y - h
      BY <2>1
    <3>2. B[i].hops \in Nat
      BY <2>1, Base, PlaceFacts
    <3> HIDE DEF n
    <3> QED
      BY <1>1, <2>1, <2>5, <2>6, <3>1, <3>2
  <2> QED
    BY <2>1, <2>2, <2>6, <2>7
<1> HIDE DEF S
<1>6. k \in S
  <2>1. \A h \in 0 .. k : h \in S
    BY <1>4, <1>5, Counting
  <2> QED
    BY <2>1
<1> QED
  BY <1>2, <1>6 DEF S

\* The climb to the callable a block is written in.
Homeward(F, frs) ==
  F = [i \in 0 .. Len(frs) |->
         IF i = 0 THEN 0 ELSE IF frs[i].kind = "Block" THEN F[frs[i].def] ELSE i]
Lead(F, frs, i) ==
  F[i] = IF i = 0 THEN 0 ELSE IF frs[i].kind = "Block" THEN F[frs[i].def] ELSE i

\* Every block is written in a callable, or in the module.
LEMMA HomewardExists ==
  ASSUME NEW frs, NEW B, NEW T, StackOK(frs, B, T)
  PROVE  \E F : Homeward(F, frs)
<1> DEFINE n == Len(frs)
           S == {m \in Nat : \E F : \A i \in 0 .. m : Lead(F, frs, i)}
<1>1. n \in Nat
  BY SeqFacts DEF StackOK
<1>2. 0 \in S
  <2> DEFINE F == [i \in 0 .. 0 |-> 0]
  <2>1. \A i \in 0 .. 0 : Lead(F, frs, i)
    BY DEF Lead
  <2> HIDE DEF F
  <2> QED
    BY <2>1
<1>3. ASSUME NEW m \in 1 .. n, m - 1 \in S PROVE m \in S
  <2>1. PICK F : \A i \in 0 .. m - 1 : Lead(F, frs, i)
    BY <1>3
  <2> DEFINE G == [i \in 0 .. m |->
                     IF i = m THEN IF frs[m].kind = "Block" THEN F[frs[m].def] ELSE m
                     ELSE F[i]]
  <2>2. ASSUME NEW i \in 0 .. m PROVE Lead(G, frs, i)
    <3>1. /\ G[i] = IF i = m THEN IF frs[m].kind = "Block" THEN F[frs[m].def] ELSE m ELSE F[i]
          /\ m \in Nat /\ m # 0 /\ m \in 1 .. Len(frs)
      BY <1>1
    <3>2. i # 0 /\ frs[i].kind = "Block" => G[frs[i].def] = F[frs[i].def]
      <4>1. SUFFICES ASSUME i # 0, frs[i].kind = "Block" PROVE G[frs[i].def] = F[frs[i].def]
        OBVIOUS
      <4>2. i \in 1 .. n
        BY <1>1, <4>1
      <4>3. frs[i].def \in 1 .. i - 1
        BY <4>1, <4>2, Base
      <4>4. frs[i].def \in 0 .. m /\ frs[i].def # m
        BY <1>1, <4>2, <4>3
      <4> QED
        BY <4>4
    <3> HIDE DEF G
    <3>3. CASE i = m
      BY <3>1, <3>2, <3>3 DEF Lead
    <3>4. CASE i # m
      <4>1. Lead(F, frs, i)
        BY <2>1, <3>1, <3>4
      <4> QED
        BY <3>1, <3>2, <3>4, <4>1 DEF Lead
    <3> QED
      BY <3>3, <3>4
  <2>3. \E H : \A i \in 0 .. m : Lead(H, frs, i)
    <3> HIDE DEF G
    <3> QED
      BY <2>2
  <2> QED
    BY <1>1, <2>3
<1> HIDE DEF S
<1>4. n \in S
  <2>1. \A m \in 0 .. n : m \in S
    <3> HIDE DEF n
    <3> QED
      BY <1>1, <1>2, <1>3, Counting
  <2> QED
    BY <1>1, <2>1
<1>5. PICK F : \A i \in 0 .. n : Lead(F, frs, i)
  BY <1>4 DEF S
<1> DEFINE G == [i \in 0 .. n |-> F[i]]
<1>6. G = [i \in 0 .. n |->
             IF i = 0 THEN 0 ELSE IF frs[i].kind = "Block" THEN G[frs[i].def] ELSE i]
  <2>1. ASSUME NEW i \in 0 .. n
        PROVE  G[i] = IF i = 0 THEN 0 ELSE IF frs[i].kind = "Block" THEN G[frs[i].def] ELSE i
    <3>1. G[i] = F[i] /\ Lead(F, frs, i)
      BY <1>5
    <3>2. i # 0 /\ frs[i].kind = "Block" => G[frs[i].def] = F[frs[i].def]
      <4>1. SUFFICES ASSUME i # 0, frs[i].kind = "Block" PROVE G[frs[i].def] = F[frs[i].def]
        OBVIOUS
      <4>2. i \in 1 .. n
        BY <1>1, <4>1
      <4>3. frs[i].def \in 1 .. i - 1
        BY <4>1, <4>2, Base
      <4>4. frs[i].def \in 0 .. n
        BY <1>1, <4>2, <4>3
      <4> QED
        BY <4>4
    <3> HIDE DEF G
    <3> QED
      BY <3>1, <3>2 DEF Lead
  <2> QED
    BY <2>1
<1>7. Homeward(G, frs)
  BY <1>6, Zenon DEF Homeward
<1> QED
  BY <1>7

\* And a `return` in one finds that callable below it.
LEMMA HomeFacts ==
  ASSUME NEW B, NEW T, StackOK(frames, B, T), frames # <<>>,
         B[Len(frames)].home # "Top"
  PROVE  Home \in 2 .. Len(frames) /\ frames[Home].kind = "Callable"
<1> DEFINE n == Len(frames)
<1>1. n \in Nat \ {0}
  BY AtTop
<1>2. PICK F : Homeward(F, frames) /\ Home = F[n]
  <2>1. \E F : Homeward(F, frames)
    BY HomewardExists
  <2> DEFINE F == CHOOSE F : Homeward(F, frames)
  <2>2. Homeward(F, frames)
    BY <2>1
  <2>3. Home = F[n]
    BY Zenon DEF Home, Homeward
  <2> QED
    BY <2>2, <2>3
<1>3. \A i \in 0 .. n : Lead(F, frames, i)
  BY <1>2, Zenon DEF Homeward, Lead
<1> DEFINE Bad == {i \in 1 .. n : ~ /\ F[i] \in 1 .. i /\ frames[F[i]].kind # "Block"
                                    /\ B[F[i]].home = B[i].home}
<1>4. Bad = {}
  <2>1. SUFFICES ASSUME Bad # {} PROVE FALSE
    OBVIOUS
  <2>2. PICK i \in Bad : \A j \in Bad : i <= j
    <3>1. Bad \in SUBSET Nat
      OBVIOUS
    <3> QED
      BY <2>1, <3>1, LeastElement
  <2>3. i \in 1 .. n /\ i \in 0 .. n /\ i # 0 /\ Lead(F, frames, i)
    BY <1>3, <2>2
  <2>4. CASE frames[i].kind = "Block"
    <3>1. F[i] = F[frames[i].def]
      BY <2>3, <2>4 DEF Lead
    <3>2. frames[i].def \in 1 .. i - 1 /\ B[i].home = B[frames[i].def].home
      BY <2>3, <2>4, Base
    <3>3. frames[i].def \in 1 .. n /\ ~ (i <= frames[i].def)
      BY <1>1, <2>3, <3>2
    <3>4. frames[i].def \notin Bad
      BY <2>2, <3>3
    <3>5. /\ F[frames[i].def] \in 1 .. frames[i].def /\ frames[F[frames[i].def]].kind # "Block"
          /\ B[F[frames[i].def]].home = B[frames[i].def].home
      BY <3>3, <3>4
    <3>6. F[i] \in 1 .. i
      <4>1. \A x, y \in Nat : x \in 1 .. i - 1 /\ y \in 1 .. x => y \in 1 .. i
        BY <2>3
      <4>2. frames[i].def \in Nat /\ F[frames[i].def] \in Nat
        BY <3>2, <3>5
      <4> QED
        BY <3>1, <3>2, <3>5, <4>1, <4>2
    <3> QED
      BY <2>2, <3>1, <3>2, <3>5, <3>6
  <2>5. CASE frames[i].kind # "Block"
    <3>1. F[i] = i /\ i \in 1 .. i
      BY <2>3, <2>5 DEF Lead
    <3> QED
      BY <2>2, <2>5, <3>1
  <2> QED
    BY <2>4, <2>5
<1>5. F[n] \in 1 .. n /\ frames[F[n]].kind # "Block" /\ B[F[n]].home = B[n].home
  <2>1. n \in 1 .. n
    BY <1>1
  <2> QED
    BY <1>4, <2>1
<1>6. frames[F[n]].kind = "Callable" /\ F[n] # 1
  BY <1>5, Base
<1> QED
  BY <1>1, <1>2, <1>5, <1>6

----------------------------------------------------------------------------
(* The control of the machine.                                              *)

\* What a consuming place may find in the register, and what an exit carries.
Usable(r) == r.k = "Value" \/ (r.k = "None" /\ r.why \in {"Unknown", "Block", "Exit"})
Carried(v) == v.k = "Value" \/ (v.k = "None" /\ v.why = "Exit")

\* What is true of the machine as it goes on in the place t of its top frame:
\* the register serves it, or what is unwinding has where to go.
Going(frs, u, r, t) ==
  /\ u.k \in {"None", "Raise", "LoopBreak", "LoopContinue", "BlockContinue", "BlockBreak", "Return"}
  /\ u.k = "None" => u = NoUnwind /\ t.want # "Never" /\ (t.want = "Value" => Usable(r))
  /\ u.k = "LoopBreak" => u.loop \in 1 .. t.loop /\ u.loop \notin t.endless
  /\ u.k = "LoopContinue" => u.loop \in 1 .. t.loop
  /\ u.k = "BlockContinue" => Carried(u.v) /\ frs[Len(frs)].kind = "Block"
  /\ u.k = "BlockBreak" => Carried(u.v) /\ u.consumer \in 2 .. Len(frs)
  /\ u.k = "Return" =>
       Carried(u.v) /\ u.home \in 2 .. Len(frs) /\ frs[u.home].kind = "Callable"

ControlTypes ==
  /\ prog \in Mains /\ status \in Statuses /\ Len(frames) <= StackLimit
  /\ coins \in Seq(BOOLEAN) /\ Len(coins) <= MaxCoins
  /\ reg.k \in {"Value", "None"}
\* The frames stand in the places B and go on in the places T.
Control(B, T) ==
  /\ StackOK(frames, B, T)
  /\ status = "Running" =>
       frames # <<>> /\ Going(frames, unwind, reg, T[Len(frames)])
ControlOK == ControlTypes /\ \E B, T : Control(B, T)

\* A stack is sound of the program, which never changes.
LEMMA StackNext ==
  ASSUME NEW B, NEW T, prog' = prog, StackOK(frames', B, T)
  PROVE  StackOK(frames, B, T)'
<1>1. \A name : Cal(name)' = Cal(name)
  BY Zenon DEF Cal
<1>2. ASSUME NEW i \in 1 .. Len(frames'), FrameOK(frames', B, T, i)
      PROVE  FrameOK(frames, B, T, i)'
  <2>1. BasedCallable(frames[i], B[i])'
    BY <1>1, <1>2, Zenon DEF FrameOK, BasedCallable
  <2>2. i # 1 => (Served(frames[i], T[i - 1]) /\ ~ Wasted(frames[i - 1], frames[i]))'
    BY <1>1, <1>2, Zenon DEF FrameOK, Served, Wasted
  <2> QED
    BY <1>2, <2>1, <2>2, Zenon DEF FrameOK
<1> QED
  BY <1>2 DEF StackOK

\* The machine has gone on in order when stack and register serve the next place.
LEMMA Onward ==
  ASSUME ControlTypes, NEW B, NEW T, prog' = prog, StackOK(frames', B, T),
         status' \in Statuses, Len(frames') <= StackLimit,
         coins' \in Seq(BOOLEAN), Len(coins') <= MaxCoins, reg'.k \in {"Value", "None"},
         status' = "Running" =>
           frames' # <<>> /\ Going(frames', unwind', reg', T[Len(frames')])
  PROVE  ControlOK'
<1>1. StackOK(frames, B, T)'
  BY StackNext
<1>2. Control(B, T)'
  BY <1>1, Zenon DEF Control, Going, NoUnwind
<1>3. ControlTypes'
  BY Zenon DEF ControlTypes, Statuses
<1> QED
  BY <1>2, <1>3, Zenon DEF ControlOK

\* What a step of any kind leaves in order.
Kept ==
  /\ prog' = prog /\ status' \in Statuses /\ reg'.k \in {"Value", "None"}
  /\ coins' \in Seq(BOOLEAN) /\ Len(coins') <= MaxCoins

\* The machine is at the continuation Cont, which stands in c.
Here(B, T, c) ==
  /\ StackOK(frames, B, T) /\ frames # <<>> /\ Top.conts # <<>> /\ c \in Place
  /\ Stands(Front(Top.conts), B[Len(frames)], c) /\ ContPlaced(Cont, c)
  /\ T[Len(frames)] = AbovePlace(Cont, c)
  /\ c.home = B[Len(frames)].home /\ c.hops = B[Len(frames)].hops

\* The continuation to dispatch stands in a place of its kind.
LEMMA AtHere ==
  ASSUME ControlOK, status = "Running", Top.conts # <<>>
  PROVE  \E B, T, c : Here(B, T, c) /\ Going(frames, unwind, reg, AbovePlace(Cont, c))
<1>1. PICK B, T : Control(B, T)
  BY DEF ControlOK
<1>2. StackOK(frames, B, T) /\ frames # <<>> /\ Going(frames, unwind, reg, T[Len(frames)])
  BY <1>1 DEF Control
<1>3. \E c : Here(B, T, c)
  BY <1>2, AtCont DEF Here
<1> QED
  BY <1>2, <1>3 DEF Here

\* Going on asks of the place only what control finds there.
LEMMA GoesOn ==
  ASSUME NEW frs, NEW r, NEW t, t.want # "Never", t.want = "Value" => Usable(r)
  PROVE  Going(frs, NoUnwind, r, t)
  BY DEF Going, NoUnwind

\* A raise may be armed anywhere.
LEMMA Raises ==
  ASSUME NEW frs, NEW e, NEW r, NEW t
  PROVE  Going(frs, RaiseOf(e), r, t)
  BY DEF Going, RaiseOf

\* The stack is the same but for the top frame's continuations.
LEMMA ThenOnward ==
  ASSUME ControlTypes, Kept, NEW B, NEW T, StackOK(frames, B, T), frames # <<>>,
         NEW conts, NEW t, ThenOK(conts, B, T, t), frames' = Then(conts),
         status' = "Running" => Going(frames, unwind', reg', t)
  PROVE  ControlOK'
<1> DEFINE n == Len(frames)
           T2 == Upto(T, n, t)
<1>1. n \in Nat \ {0} /\ n <= StackLimit
  BY AtTop DEF ControlTypes
<1>2. /\ StackOK(frames', B, T2) /\ frames' # <<>> /\ Len(frames') = n
      /\ \A j \in 1 .. n : frames'[j].kind = frames[j].kind
  BY Zenon DEF ThenOK, OneFrame, Alike
<1>3. T2[n] = t
  <2> HIDE DEF n
  <2> QED
    BY <1>1, UptoFacts
<1> HIDE DEF T2, n
<1>4. status' = "Running" => Going(frames', unwind', reg', T2[Len(frames')])
  <2>1. SUFFICES ASSUME Going(frames, unwind', reg', t)
                 PROVE  Going(frames', unwind', reg', t)
    BY <1>2, <1>3
  <2>2. frames'[Len(frames')].kind = frames[Len(frames)].kind
    BY <1>1, <1>2 DEF n
  <2>3. \A j \in 2 .. n : frames'[j].kind = frames[j].kind
    BY <1>1, <1>2
  <2> QED
    BY <1>2, <2>1, <2>2, <2>3 DEF Going, n
<1> QED
  BY <1>1, <1>2, <1>4, Onward DEF Kept

\* The current continuation is done, or gives way to one, two or three.
LEMMA NextNone ==
  ASSUME ControlTypes, Kept, NEW B, NEW T, NEW c, Here(B, T, c), Cont.k # "ReturnBarrier",
         frames' = Then(<<>>),
         status' = "Running" => Going(frames, unwind', reg', c)
  PROVE  ControlOK'
  BY ThenNone, ThenOnward DEF Here

LEMMA NextOne ==
  ASSUME ControlTypes, Kept, NEW B, NEW T, NEW c, Here(B, T, c), Cont.k # "ReturnBarrier",
         NEW k, ContPlaced(k, c), k.k # "ReturnBarrier",
         frames' = Then(<<k>>),
         status' = "Running" => Going(frames, unwind', reg', AbovePlace(k, c))
  PROVE  ControlOK'
<1>1. ThenOK(<<k>>, B, T, AbovePlace(k, c))
  BY ThenOne DEF Here
<1> QED
  BY <1>1, ThenOnward DEF Here

LEMMA NextTwo ==
  ASSUME ControlTypes, Kept, NEW B, NEW T, NEW c, Here(B, T, c), Cont.k # "ReturnBarrier",
         NEW k, ContPlaced(k, c), k.k # "ReturnBarrier",
         NEW l, ContPlaced(l, AbovePlace(k, c)), l.k # "ReturnBarrier",
         frames' = Then(<<k, l>>),
         status' = "Running" => Going(frames, unwind', reg', AbovePlace(l, AbovePlace(k, c)))
  PROVE  ControlOK'
<1>1. ThenOK(<<k, l>>, B, T, AbovePlace(l, AbovePlace(k, c)))
  BY ThenTwo DEF Here
<1> QED
  BY <1>1, ThenOnward DEF Here

LEMMA NextThree ==
  ASSUME ControlTypes, Kept, NEW B, NEW T, NEW c, Here(B, T, c), Cont.k # "ReturnBarrier",
         NEW k, ContPlaced(k, c), k.k # "ReturnBarrier",
         NEW l, ContPlaced(l, AbovePlace(k, c)), l.k # "ReturnBarrier",
         NEW m, ContPlaced(m, AbovePlace(l, AbovePlace(k, c))), m.k # "ReturnBarrier",
         frames' = Then(<<k, l, m>>),
         status' = "Running" =>
           Going(frames, unwind', reg', AbovePlace(m, AbovePlace(l, AbovePlace(k, c))))
  PROVE  ControlOK'
<1>1. ThenOK(<<k, l, m>>, B, T, AbovePlace(m, AbovePlace(l, AbovePlace(k, c))))
  BY ThenThree DEF Here
<1> QED
  BY <1>1, ThenOnward DEF Here

\* A consuming place finds no value only where the resolver could not tell.
LEMMA RefuseKeeps ==
  ASSUME ControlOK, status = "Running", Top.conts # <<>>, Cont.k # "ReturnBarrier", Refuse
  PROVE  ControlOK'
<1>1. ControlTypes
  BY DEF ControlOK
<1>2. PICK B, T, c : Here(B, T, c) /\ Going(frames, unwind, reg, AbovePlace(Cont, c))
  BY AtHere
<1>3. Kept
  BY <1>1 DEF Kept, Refuse, ControlTypes
<1>4. Going(frames, unwind', reg', c)
  BY Raises DEF Refuse, Arm
<1> QED
  BY <1>1, <1>2, <1>3, <1>4, NextNone DEF Refuse

\* The machine dispatches a continuation: nothing unwinds.
LEMMA Dispatched ==
  ASSUME ControlOK, status = "Running", unwind = NoUnwind, Top.conts # <<>>
  PROVE  /\ ControlTypes
         /\ \E B, T, c :
              /\ Here(B, T, c) /\ AbovePlace(Cont, c).want # "Never"
              /\ AbovePlace(Cont, c).want = "Value" => Usable(reg)
<1>1. PICK B, T, c : Here(B, T, c) /\ Going(frames, unwind, reg, AbovePlace(Cont, c))
  BY AtHere
<1>2. /\ AbovePlace(Cont, c).want # "Never"
      /\ AbovePlace(Cont, c).want = "Value" => Usable(reg)
  BY <1>1 DEF Going, NoUnwind
<1> QED
  BY <1>1, <1>2 DEF ControlOK

LEMMA EvalValKeeps == ControlOK /\ EvalVal => ControlOK'
<1> SUFFICES ASSUME ControlOK, EvalVal PROVE ControlOK'
  OBVIOUS
<1>1. /\ status = "Running" /\ unwind = NoUnwind /\ Top.conts # <<>> /\ Cont.k = "Eval"
      /\ Cont.node.k = "Val" /\ frames' = Then(<<>>) /\ reg' = Value(param)
      /\ UNCHANGED <<prog, unwind, status, coins>>
  BY DEF EvalVal, At
<1>2. ControlTypes
  BY <1>1, Dispatched
<1>3. PICK B, T, c : Here(B, T, c)
  BY <1>1, Dispatched
<1>4. Kept
  BY <1>1, <1>2 DEF Kept, ControlTypes, Value
<1>5. NodeAt(Cont.node, c) /\ c.want # "Never"
  <2>1. NodeAt(Cont.node, c)
    BY <1>1, <1>3 DEF Here, ContPlaced, Does
  <2> QED
    BY <1>1, <2>1, PlaceOfNode DEF NodePlaced, Exits
<1>6. Going(frames, unwind', reg', c)
  <2>1. Usable(reg') /\ unwind' = NoUnwind
    BY <1>1 DEF Usable, Value
  <2> QED
    BY <1>5, <2>1, GoesOn
<1> QED
  BY <1>1, <1>2, <1>3, <1>4, <1>6, NextNone

LEMMA EvalIfKeeps == ControlOK /\ EvalIf => ControlOK'
<1> SUFFICES ASSUME ControlOK, EvalIf PROVE ControlOK'
  OBVIOUS
<1> DEFINE k == NodeCont("IfChoose", Cont.node)
<1>1. /\ status = "Running" /\ unwind = NoUnwind /\ Top.conts # <<>> /\ Cont.k = "Eval"
      /\ Cont.node.k = "If" /\ frames' = Then(<<k>>)
      /\ UNCHANGED <<prog, reg, unwind, status, coins>>
  BY DEF EvalIf, At
<1>2. ControlTypes
  BY <1>1, Dispatched
<1>3. PICK B, T, c : Here(B, T, c)
  BY <1>1, Dispatched
<1>4. Kept
  BY <1>1, <1>2 DEF Kept, ControlTypes
<1>5. /\ ContPlaced(k, c) /\ k.k # "ReturnBarrier"
      /\ AbovePlace(k, c) = [c EXCEPT !.want = "Any"]
  <2>1. NodeAt(Cont.node, c)
    BY <1>1, <1>3 DEF Here, ContPlaced, Does
  <2> QED
    BY <1>1, <2>1 DEF ContPlaced, Does, AbovePlace, NodeCont
<1>6. Going(frames, unwind', reg', AbovePlace(k, c))
  <2>1. AbovePlace(k, c).want = "Any"
    BY <1>3, <1>5 DEF Here, Place
  <2> QED
    BY <1>1, <2>1, GoesOn
<1> HIDE DEF k
<1> QED
  BY <1>1, <1>2, <1>3, <1>4, <1>5, <1>6, NextOne

LEMMA EvalTryKeeps == ControlOK /\ EvalTry => ControlOK'
<1> SUFFICES ASSUME ControlOK, EvalTry PROVE ControlOK'
  OBVIOUS
<1> DEFINE k == NodeCont("TryHandler", Cont.node)
           l == SeqCont(Cont.node.body)
<1>1. /\ status = "Running" /\ unwind = NoUnwind /\ Top.conts # <<>> /\ Cont.k = "Eval"
      /\ Cont.node.k = "Try" /\ frames' = Then(<<k, l>>)
      /\ UNCHANGED <<prog, reg, unwind, status, coins>>
  BY DEF EvalTry, At
<1>2. ControlTypes
  BY <1>1, Dispatched
<1>3. PICK B, T, c : Here(B, T, c)
  BY <1>1, Dispatched
<1>4. Kept
  BY <1>1, <1>2 DEF Kept, ControlTypes
<1>5. NodeAt(Cont.node, c)
  BY <1>1, <1>3 DEF Here, ContPlaced, Does
<1>6. /\ ContPlaced(k, c) /\ k.k # "ReturnBarrier"
      /\ AbovePlace(k, c) = OpenPlace(c, c.want)
  BY <1>1, <1>5 DEF ContPlaced, Does, AbovePlace, NodeCont
<1>7. /\ ContPlaced(l, AbovePlace(k, c)) /\ l.k # "ReturnBarrier"
      /\ AbovePlace(l, AbovePlace(k, c)).want = "Any"
  BY <1>1, <1>5, <1>6, OfTry, SeqStarts
<1>8. Going(frames, unwind', reg', AbovePlace(l, AbovePlace(k, c)))
  BY <1>1, <1>7, GoesOn
<1> HIDE DEF k, l
<1> QED
  BY <1>1, <1>2, <1>3, <1>4, <1>6, <1>7, <1>8, NextTwo

LEMMA TossKeeps ==
  ASSUME ControlTypes, NEW d \in BOOLEAN, Toss(d)
  PROVE  coins' \in Seq(BOOLEAN) /\ Len(coins') <= MaxCoins
<1>1. coins \in Seq(BOOLEAN) /\ Len(coins) \in Nat /\ Len(coins) <= MaxCoins /\ MaxCoins \in Nat
  BY CallsAssumption, LenProperties DEF ControlTypes
<1>2. CASE Len(coins) < MaxCoins
  <2>1. coins' = Append(coins, d)
    BY <1>2 DEF Toss
  <2> QED
    BY <1>1, <1>2, <2>1, AppendFacts
<1>3. CASE ~ (Len(coins) < MaxCoins)
  BY <1>1, <1>3 DEF Toss
<1> QED
  BY <1>2, <1>3

LEMMA IfChooseKeeps == ControlOK /\ IfChoose => ControlOK'
<1> SUFFICES ASSUME ControlOK, IfChoose PROVE ControlOK'
  OBVIOUS
<1> DEFINE n == Cont.node
<1>1. /\ status = "Running" /\ unwind = NoUnwind /\ Top.conts # <<>> /\ Cont.k = "IfChoose"
      /\ reg' = Nothing("Taken") /\ UNCHANGED <<prog, unwind, status>>
  BY DEF IfChoose, At
<1>2. PICK d \in BOOLEAN :
        /\ Toss(d)
        /\ frames' = Then(IF d THEN <<SeqCont(n.then)>>
                          ELSE IF n.else = <<>> THEN <<>> ELSE <<SeqCont(n.else[1])>>)
  BY Zenon DEF IfChoose
<1>3. ControlTypes
  BY <1>1, Dispatched
<1>4. PICK B, T, c : Here(B, T, c)
  BY <1>1, Dispatched
<1>5. Kept
  BY <1>1, <1>2, <1>3, TossKeeps DEF Kept, ControlTypes, Nothing
<1>6. NodeAt(n, c) /\ n.k = "If"
  BY <1>1, <1>4 DEF Here, ContPlaced, Does
<1>7. ASSUME NEW b, BodyAt(b, c), frames' = Then(<<SeqCont(b)>>)
      PROVE  ControlOK'
  <2> DEFINE k == SeqCont(b)
  <2>1. ContPlaced(k, c) /\ k.k # "ReturnBarrier" /\ AbovePlace(k, c).want = "Any"
    BY <1>7, SeqStarts
  <2>2. Going(frames, unwind', reg', AbovePlace(k, c))
    BY <1>1, <2>1, GoesOn
  <2>3. frames' = Then(<<k>>)
    BY <1>7
  <2> HIDE DEF k
  <2> QED
    BY <1>1, <1>3, <1>4, <1>5, <2>1, <2>2, <2>3, NextOne
<1>8. CASE d
  BY <1>2, <1>6, <1>7, <1>8, OfIf
<1>9. CASE ~ d /\ n.else # <<>>
  BY <1>2, <1>6, <1>7, <1>9, OfIf
<1>10. CASE ~ d /\ n.else = <<>>
  <2>1. c.want = "Any"
    BY <1>6, <1>10, OfIf
  <2>2. Going(frames, unwind', reg', c)
    BY <1>1, <2>1, GoesOn
  <2>3. frames' = Then(<<>>)
    BY <1>2, <1>10
  <2> QED
    BY <1>1, <1>3, <1>4, <1>5, <2>2, <2>3, NextNone
<1> QED
  BY <1>8, <1>9, <1>10

\* Going round a loop again.
LEMMA Again ==
  ASSUME ControlTypes, Kept, status = "Running", Top.conts # <<>>, unwind' = NoUnwind,
         Cont.k \in {"WhileCheck", "LoopReloop"},
         NEW B, NEW T, NEW c, Here(B, T, c),
         frames' = Then(<<Cont, SeqCont(Cont.node.body)>>)
  PROVE  ControlOK'
<1> DEFINE l == SeqCont(Cont.node.body)
<1>1. ContPlaced(Cont, c) /\ NodeAt(Cont.node, c) /\ Cont.node.k \in {"While", "Loop"}
  BY DEF Here, ContPlaced, Does
<1>2. AbovePlace(Cont, c) = LoopPlace(Cont.node, c)
  BY DEF AbovePlace
<1>3. /\ ContPlaced(l, AbovePlace(Cont, c)) /\ l.k # "ReturnBarrier"
      /\ AbovePlace(l, AbovePlace(Cont, c)).want = "Any"
  BY <1>1, <1>2, OfLoop, SeqStarts
<1>4. Going(frames, unwind', reg', AbovePlace(l, AbovePlace(Cont, c)))
  BY <1>3, GoesOn
<1>5. frames' = Then(<<Cont, l>>) /\ Cont.k # "ReturnBarrier"
  OBVIOUS
<1> HIDE DEF l
<1> QED
  BY <1>1, <1>3, <1>4, <1>5, NextTwo

LEMMA WhileCheckKeeps == ControlOK /\ WhileCheck => ControlOK'
<1> SUFFICES ASSUME ControlOK, WhileCheck PROVE ControlOK'
  OBVIOUS
<1>1. /\ status = "Running" /\ unwind = NoUnwind /\ Top.conts # <<>> /\ Cont.k = "WhileCheck"
      /\ reg' = Nothing("Taken") /\ UNCHANGED <<prog, unwind, status>>
  BY DEF WhileCheck, At
<1>2. PICK d \in BOOLEAN :
        Toss(d) /\ frames' = Then(IF d THEN <<Cont, SeqCont(Cont.node.body)>> ELSE <<>>)
  BY Zenon DEF WhileCheck
<1>3. ControlTypes
  BY <1>1, Dispatched
<1>4. PICK B, T, c : Here(B, T, c)
  BY <1>1, Dispatched
<1>5. Kept
  BY <1>1, <1>2, <1>3, TossKeeps DEF Kept, ControlTypes, Nothing
<1>6. CASE d
  <2>1. frames' = Then(<<Cont, SeqCont(Cont.node.body)>>)
    BY <1>2, <1>6
  <2> QED
    BY <1>1, <1>3, <1>4, <1>5, <2>1, Again
<1>7. CASE ~ d
  <2>1. NodeAt(Cont.node, c) /\ Cont.node.k = "While"
    BY <1>1, <1>4 DEF Here, ContPlaced, Does
  <2>2. c.want = "Any"
    BY <2>1, OfLoop
  <2>3. Going(frames, unwind', reg', c)
    BY <1>1, <2>2, GoesOn
  <2>4. frames' = Then(<<>>)
    BY <1>2, <1>7
  <2> QED
    BY <1>1, <1>3, <1>4, <1>5, <2>3, <2>4, NextNone
<1> QED
  BY <1>6, <1>7

LEMMA LoopReloopKeeps == ControlOK /\ LoopReloop => ControlOK'
<1> SUFFICES ASSUME ControlOK, LoopReloop PROVE ControlOK'
  OBVIOUS
<1>1. /\ status = "Running" /\ unwind = NoUnwind /\ Top.conts # <<>> /\ Cont.k = "LoopReloop"
      /\ frames' = Then(<<Cont, SeqCont(Cont.node.body)>>)
      /\ UNCHANGED <<prog, reg, unwind, status, coins>>
  BY DEF LoopReloop, At
<1>2. ControlTypes
  BY <1>1, Dispatched
<1>3. PICK B, T, c : Here(B, T, c)
  BY <1>1, Dispatched
<1>4. Kept
  BY <1>1, <1>2 DEF Kept, ControlTypes
<1> QED
  BY <1>1, <1>2, <1>3, <1>4, Again

\* What a statement schedules stands where the statement does.
OneCont(conts, d) ==
  \E x : /\ conts = <<x>> /\ ContPlaced(x, d) /\ x.k # "ReturnBarrier"
         /\ AbovePlace(x, d).want = "Any"
TwoConts(conts, d) ==
  \E x, y : /\ conts = <<x, y>> /\ ContPlaced(x, d) /\ x.k # "ReturnBarrier"
            /\ ContPlaced(y, AbovePlace(x, d)) /\ y.k # "ReturnBarrier"
            /\ AbovePlace(y, AbovePlace(x, d)).want = "Any"

\* What runs above an expression being evaluated need leave no value.
LEMMA EvalStarts ==
  ASSUME NEW e, NEW d, NodeAt(e, d), e.k \in Expressions
  PROVE  /\ ContPlaced(EvalCont(e), d) /\ EvalCont(e).k # "ReturnBarrier"
         /\ AbovePlace(EvalCont(e), d).want = "Any"
<1>1. d \in Place
  BY PlaceOfNode
<1>2. AbovePlace(EvalCont(e), d) = [d EXCEPT !.want = "Any"]
  BY DEF AbovePlace, EvalCont
<1>3. AbovePlace(EvalCont(e), d).want = "Any"
  BY <1>1, <1>2 DEF Place
<1> QED
  BY <1>3 DEF ContPlaced, Does, EvalCont

\* A node that consumes an operand, if it has one.
LEMMA OperandConts ==
  ASSUME NEW n, NEW d, NodeAt(n, d), NEW kind,
         \/ kind = "ExitApply" /\ n.k \in Exits
         \/ kind = "RaiseApply" /\ n.k = "Raise"
  PROVE  LET conts == <<NodeCont(kind, n)>> \o Evals(n.op)
         IN OneCont(conts, d) \/ TwoConts(conts, d)
<1> DEFINE x == NodeCont(kind, n)
           y == EvalCont(n.op[1])
<1>1. d \in Place
  BY PlaceOfNode
<1>2. ContPlaced(x, d) /\ x.k # "ReturnBarrier" /\ x.node = n /\ x.k \in {"ExitApply", "RaiseApply"}
  BY DEF ContPlaced, Does, NodeCont
<1>3. AbovePlace(x, d) = [d EXCEPT !.tail = (n.k = "Return" /\ d.ret),
                                   !.want = IF n.op = <<>> THEN "Any" ELSE "Value"]
  BY <1>2 DEF AbovePlace
<1> HIDE DEF x
<1>4. CASE n.op = <<>>
  <2>1. <<x>> \o Evals(n.op) = <<x>>
    BY <1>4, TupleConcat DEF Evals
  <2>2. AbovePlace(x, d).want = "Any"
    BY <1>1, <1>3, <1>4 DEF Place
  <2>3. OneCont(<<x>>, d)
    BY <1>2, <2>2 DEF OneCont
  <2> QED
    BY <2>1, <2>3 DEF x
<1>5. CASE n.op # <<>>
  <2>1. <<x>> \o Evals(n.op) = <<x, y>>
    BY <1>5, TupleConcat DEF Evals
  <2>2. AbovePlace(x, d) = OperandPlace(d, n.k = "Return" /\ d.ret)
    BY <1>3, <1>5 DEF OperandPlace
  <2>3. NodeAt(n.op[1], AbovePlace(x, d)) /\ n.op[1].k \in Expressions
    BY <1>5, <2>2, OfExit
  <2>4. /\ ContPlaced(y, AbovePlace(x, d)) /\ y.k # "ReturnBarrier"
        /\ AbovePlace(y, AbovePlace(x, d)).want = "Any"
    BY <2>3, EvalStarts
  <2> HIDE DEF y
  <2>5. TwoConts(<<x, y>>, d)
    BY <1>2, <2>4 DEF TwoConts
  <2> QED
    BY <2>1, <2>5 DEF x
<1> QED
  BY <1>4, <1>5

\* What a statement schedules stands where the statement does.
LEMMA StmtStands ==
  ASSUME NEW n, NEW d, NodeAt(n, d), n.k \in Statements
  PROVE  OneCont(StmtConts(n), d) \/ TwoConts(StmtConts(n), d)
<1>1. CASE n.k = "ExprStmt"
  <2>1. StmtConts(n) = <<EvalCont(n.e)>>
    BY <1>1 DEF StmtConts, Exits
  <2>2. /\ ContPlaced(EvalCont(n.e), d) /\ EvalCont(n.e).k # "ReturnBarrier"
        /\ AbovePlace(EvalCont(n.e), d).want = "Any"
    BY <1>1, OfExprStmt, EvalStarts
  <2> QED
    BY <2>1, <2>2, Zenon DEF OneCont
<1>2. CASE n.k \in {"Let", "With"}
  <2> DEFINE x == NodeCont(IF n.k = "Let" THEN "BindLet" ELSE "WithBind", n)
             y == EvalCont(n.e)
  <2>1. StmtConts(n) = <<x, y>>
    BY <1>2 DEF StmtConts, Exits
  <2>2. ContPlaced(x, d) /\ x.k # "ReturnBarrier" /\ AbovePlace(x, d) = OperandPlace(d, FALSE)
    BY <1>2 DEF ContPlaced, Does, NodeCont, AbovePlace
  <2> HIDE DEF x
  <2>3. NodeAt(n.e, AbovePlace(x, d)) /\ n.e.k \in Expressions
    BY <1>2, <2>2, OfLet, OfWith
  <2>4. /\ ContPlaced(y, AbovePlace(x, d)) /\ y.k # "ReturnBarrier"
        /\ AbovePlace(y, AbovePlace(x, d)).want = "Any"
    BY <2>3, EvalStarts
  <2> HIDE DEF y
  <2> QED
    BY <2>1, <2>2, <2>4 DEF TwoConts
<1>3. CASE n.k = "While"
  <2> DEFINE x == NodeCont("WhileCheck", n)
  <2>1. StmtConts(n) = <<x>>
    BY <1>3 DEF StmtConts, Exits
  <2>2. ContPlaced(x, d) /\ x.k # "ReturnBarrier" /\ AbovePlace(x, d) = LoopPlace(n, d)
    BY <1>3 DEF ContPlaced, Does, NodeCont, AbovePlace
  <2> HIDE DEF x
  <2>3. AbovePlace(x, d).want = "Any"
    <3>1. d \in Place
      BY PlaceOfNode
    <3>2. PICK l, e : LoopPlace(n, d) =
            [d EXCEPT !.loop = l, !.tail = FALSE, !.want = "Any", !.endless = e]
      BY Zenon DEF LoopPlace
    <3> QED
      BY <2>2, <3>1, <3>2 DEF Place
  <2> QED
    BY <2>1, <2>2, <2>3 DEF OneCont
<1>4. CASE n.k = "Loop"
  <2> DEFINE x == NodeCont("LoopReloop", n)
             y == SeqCont(n.body)
  <2>1. StmtConts(n) = <<x, y>>
    BY <1>4 DEF StmtConts, Exits
  <2>2. ContPlaced(x, d) /\ x.k # "ReturnBarrier" /\ AbovePlace(x, d) = LoopPlace(n, d)
    BY <1>4 DEF ContPlaced, Does, NodeCont, AbovePlace
  <2> HIDE DEF x
  <2>3. /\ ContPlaced(y, AbovePlace(x, d)) /\ y.k # "ReturnBarrier"
        /\ AbovePlace(y, AbovePlace(x, d)).want = "Any"
    BY <1>4, <2>2, OfLoop, SeqStarts
  <2> HIDE DEF y
  <2> QED
    BY <2>1, <2>2, <2>3 DEF TwoConts
<1>5. CASE n.k \in Exits
  <2>1. StmtConts(n) = <<NodeCont("ExitApply", n)>> \o Evals(n.op)
    BY <1>5 DEF StmtConts, Exits
  <2> QED
    BY <1>5, <2>1, OperandConts
<1>6. CASE n.k = "Raise"
  <2>1. StmtConts(n) = <<NodeCont("RaiseApply", n)>> \o Evals(n.op)
    BY <1>6 DEF StmtConts, Exits
  <2> QED
    BY <1>6, <2>1, OperandConts
<1> QED
  BY <1>1, <1>2, <1>3, <1>4, <1>5, <1>6 DEF Statements

\* The statements of a body run one after the other in their places.
LEMMA SeqStepKeeps == ControlOK /\ SeqStep => ControlOK'
<1> SUFFICES ASSUME ControlOK, SeqStep PROVE ControlOK'
  OBVIOUS
<1>1. /\ status = "Running" /\ unwind = NoUnwind /\ Top.conts # <<>> /\ Cont.k = "Seq"
      /\ UNCHANGED <<prog, unwind, status, coins>>
  BY DEF SeqStep, At
<1>2. ControlTypes
  BY <1>1, Dispatched
<1>3. PICK B, T, c : /\ Here(B, T, c) /\ AbovePlace(Cont, c).want # "Never"
                     /\ AbovePlace(Cont, c).want = "Value" => Usable(reg)
  BY <1>1, Dispatched
<1>4. Kept
  <2>1. reg' = reg \/ reg' = Nothing("Stmt")
    BY DEF SeqStep
  <2> QED
    BY <1>1, <1>2, <2>1 DEF Kept, ControlTypes, Nothing
<1>5. /\ BodyAt(Cont.body, c) /\ Cont.next \in 1 .. Len(Cont.body) + 1
      /\ Cont = [k |-> "Seq", body |-> Cont.body, next |-> Cont.next]
      /\ c \in Place
  BY <1>1, <1>3 DEF Here, ContPlaced
<1>6. IsSeq(Cont.body) /\ Len(Cont.body) \in Nat
  BY <1>5, PlaceOfBody, SeqFacts
<1>7. AbovePlace(Cont, c) = StmtPlace(c, Cont.next > Len(Cont.body))
  BY <1>1 DEF AbovePlace
<1>8. CASE Cont.next > Len(Cont.body)
  <2>1. frames' = Then(<<>>) /\ reg' = reg
    BY <1>8 DEF SeqStep
  <2>2. Going(frames, unwind', reg', c)
    <3>1. c.want # "Never" /\ (c.want = "Value" => Usable(reg))
      BY <1>3, <1>7, <1>8 DEF StmtPlace
    <3> QED
      BY <1>1, <2>1, <3>1, GoesOn
  <2> QED
    BY <1>1, <1>2, <1>3, <1>4, <2>1, <2>2, NextNone
<1>9. CASE ~ (Cont.next > Len(Cont.body))
  <2> DEFINE k == [Cont EXCEPT !.next = @ + 1]
             n == Cont.body[Cont.next]
             d == StmtPlace(c, Cont.next = Len(Cont.body))
  <2>1. frames' = Then(<<k>> \o StmtConts(n)) /\ reg' = Nothing("Stmt")
    BY <1>9 DEF SeqStep
  <2>2. Cont.next \in 1 .. Len(Cont.body) /\ Cont.next + 1 \in 1 .. Len(Cont.body) + 1
        /\ (Cont.next + 1 > Len(Cont.body) <=> Cont.next = Len(Cont.body))
    BY <1>5, <1>6, <1>9
  <2>3. NodeAt(n, d) /\ n.k \in Statements
    BY <1>5, <2>2, PlaceOfBody
  <2>4. /\ k = [k |-> "Seq", body |-> Cont.body, next |-> Cont.next + 1]
        /\ k.k = "Seq" /\ k.body = Cont.body /\ k.next = Cont.next + 1
    BY <1>5
  <2> HIDE DEF k, n
  <2>5. ContPlaced(k, c) /\ k.k # "ReturnBarrier"
    BY <1>5, <2>2, <2>4 DEF ContPlaced
  <2>6. AbovePlace(k, c) = d
    <3>1. AbovePlace(k, c) = StmtPlace(c, Cont.next + 1 > Len(Cont.body))
      BY <2>4 DEF AbovePlace
    <3> QED
      BY <2>2, <3>1 DEF StmtPlace
  <2> HIDE DEF d
  <2>7. Cont.k # "ReturnBarrier"
    BY <1>1
  <2>8. CASE OneCont(StmtConts(n), d)
    <3>1. PICK x : /\ StmtConts(n) = <<x>> /\ ContPlaced(x, d) /\ x.k # "ReturnBarrier"
                   /\ AbovePlace(x, d).want = "Any"
      BY <2>8 DEF OneCont
    <3>2. frames' = Then(<<k, x>>)
      BY <2>1, <3>1, TupleConcat
    <3>3. Going(frames, unwind', reg', AbovePlace(x, d))
      BY <1>1, <3>1, GoesOn
    <3> QED
      BY <1>2, <1>3, <1>4, <2>5, <2>6, <2>7, <3>1, <3>2, <3>3, NextTwo
  <2>9. CASE TwoConts(StmtConts(n), d)
    <3>1. PICK x, y : /\ StmtConts(n) = <<x, y>> /\ ContPlaced(x, d) /\ x.k # "ReturnBarrier"
                      /\ ContPlaced(y, AbovePlace(x, d)) /\ y.k # "ReturnBarrier"
                      /\ AbovePlace(y, AbovePlace(x, d)).want = "Any"
      BY <2>9 DEF TwoConts
    <3>2. frames' = Then(<<k, x, y>>)
      BY <2>1, <3>1, TupleConcat
    <3>3. Going(frames, unwind', reg', AbovePlace(y, AbovePlace(x, d)))
      BY <1>1, <3>1, GoesOn
    <3> QED
      BY <1>2, <1>3, <1>4, <2>5, <2>6, <2>7, <3>1, <3>2, <3>3, NextThree
  <2> QED
    BY <2>3, <2>8, <2>9, StmtStands
<1> QED
  BY <1>8, <1>9

LEMMA BindLetKeeps == ControlOK /\ BindLet => ControlOK'
<1> SUFFICES ASSUME ControlOK, BindLet PROVE ControlOK'
  OBVIOUS
<1>1. status = "Running" /\ unwind = NoUnwind /\ Top.conts # <<>> /\ Cont.k = "BindLet"
  BY DEF BindLet, At
<1>2. CASE Refuse
  BY <1>1, <1>2, RefuseKeeps
<1>3. CASE /\ reg' = Nothing("Taken") /\ frames' = Then(<<>>)
           /\ UNCHANGED <<prog, unwind, status, coins>>
  <2>1. ControlTypes
    BY <1>1, Dispatched
  <2>2. PICK B, T, c : Here(B, T, c)
    BY <1>1, Dispatched
  <2>3. Kept
    BY <1>3, <2>1 DEF Kept, ControlTypes, Nothing
  <2>4. c.want = "Any"
    BY <1>1, <2>2, OfLet DEF Here, ContPlaced, Does
  <2>5. Going(frames, unwind', reg', c)
    BY <1>1, <1>3, <2>4, GoesOn
  <2> QED
    BY <1>1, <1>3, <2>1, <2>2, <2>3, <2>5, NextNone
<1> QED
  BY <1>2, <1>3 DEF BindLet

\* A `with` runs its body where nothing may end that needs a value.
LEMMA WithBindKeeps == ControlOK /\ WithBind => ControlOK'
<1> SUFFICES ASSUME ControlOK, WithBind PROVE ControlOK'
  OBVIOUS
<1> DEFINE k == [k |-> "WithRestore", mark |-> Len(dyn)]
           l == SeqCont(Cont.node.body)
<1>1. status = "Running" /\ unwind = NoUnwind /\ Top.conts # <<>> /\ Cont.k = "WithBind"
  BY DEF WithBind, At
<1>2. CASE Refuse
  BY <1>1, <1>2, RefuseKeeps
<1>3. CASE /\ reg' = Nothing("Taken") /\ frames' = Then(<<k, l>>)
           /\ UNCHANGED <<prog, unwind, status, coins>>
  <2>1. ControlTypes
    BY <1>1, Dispatched
  <2>2. PICK B, T, c : Here(B, T, c)
    BY <1>1, Dispatched
  <2>3. Kept
    BY <1>3, <2>1 DEF Kept, ControlTypes, Nothing
  <2>4. NodeAt(Cont.node, c) /\ Cont.node.k = "With"
    BY <1>1, <2>2 DEF Here, ContPlaced, Does
  <2>5. k.k = "WithRestore"
    OBVIOUS
  <2> HIDE DEF k
  <2>6. /\ ContPlaced(k, c) /\ k.k # "ReturnBarrier"
        /\ AbovePlace(k, c) = OpenPlace(c, IF c.want = "Any" THEN "Any" ELSE "Never")
    BY <2>5 DEF ContPlaced, AbovePlace
  <2>7. /\ ContPlaced(l, AbovePlace(k, c)) /\ l.k # "ReturnBarrier"
        /\ AbovePlace(l, AbovePlace(k, c)).want = "Any"
    <3>1. BodyAt(Cont.node.body, AbovePlace(k, c))
      BY <2>4, <2>6, OfWith
    <3> QED
      BY <3>1, SeqStarts
  <2>8. Going(frames, unwind', reg', AbovePlace(l, AbovePlace(k, c)))
    BY <1>1, <1>3, <2>7, GoesOn
  <2> HIDE DEF l
  <2> QED
    BY <1>1, <1>3, <2>1, <2>2, <2>3, <2>6, <2>7, <2>8, NextTwo
<1> QED
  BY <1>2, <1>3 DEF WithBind

\* Leaving what was open keeps what the place above it had.
LEMMA LeaveKeeps ==
  ASSUME ControlOK, status = "Running", unwind = NoUnwind, Top.conts # <<>>,
         Cont.k \in {"WithRestore", "TryHandler", "PopHandler"}, frames' = Then(<<>>),
         UNCHANGED <<prog, reg, unwind, status, coins>>
  PROVE  ControlOK'
<1>1. ControlTypes
  BY Dispatched
<1>2. PICK B, T, c : /\ Here(B, T, c) /\ AbovePlace(Cont, c).want # "Never"
                     /\ AbovePlace(Cont, c).want = "Value" => Usable(reg)
  BY Dispatched
<1>3. Kept
  BY <1>1 DEF Kept, ControlTypes
<1>4. c.want # "Never" /\ (c.want = "Value" => Usable(reg))
  <2>1. c \in Place
    BY <1>2 DEF Here
  <2>2. CASE Cont.k = "WithRestore"
    <3>1. AbovePlace(Cont, c) = OpenPlace(c, IF c.want = "Any" THEN "Any" ELSE "Never")
      BY <2>2 DEF AbovePlace
    <3> QED
      BY <1>2, <2>1, <3>1 DEF OpenPlace, Place
  <2>3. CASE Cont.k \in {"TryHandler", "PopHandler"}
    <3>1. AbovePlace(Cont, c) = OpenPlace(c, c.want)
      BY <2>3 DEF AbovePlace
    <3> QED
      BY <1>2, <2>1, <3>1 DEF OpenPlace, Place
  <2> QED
    BY <2>2, <2>3
<1>5. Going(frames, unwind', reg', c)
  BY <1>4, GoesOn
<1> QED
  BY <1>1, <1>2, <1>3, <1>5, NextNone

LEMMA WithRestoreKeeps == ControlOK /\ WithRestore => ControlOK'
  BY LeaveKeeps DEF WithRestore, At

LEMMA LeaveTryKeeps == ControlOK /\ LeaveTry => ControlOK'
  BY LeaveKeeps DEF LeaveTry, At

LEMMA PopHandlerKeeps == ControlOK /\ PopHandler => ControlOK'
  BY LeaveKeeps DEF PopHandler, At

LEMMA RaiseApplyKeeps == ControlOK /\ RaiseApply => ControlOK'
<1> SUFFICES ASSUME ControlOK, RaiseApply PROVE ControlOK'
  OBVIOUS
<1>1. status = "Running" /\ unwind = NoUnwind /\ Top.conts # <<>> /\ Cont.k = "RaiseApply"
  BY DEF RaiseApply, At
<1>2. ControlTypes
  BY <1>1, Dispatched
<1>3. PICK B, T, c : Here(B, T, c)
  BY <1>1, Dispatched
<1>4. CASE Refuse
  BY <1>1, <1>4, RefuseKeeps
<1>5. CASE /\ \E e : unwind' = RaiseOf(e)
           /\ reg' \in {reg, Nothing("Taken")} /\ frames' = Then(<<>>)
           /\ UNCHANGED <<prog, status, coins>>
  <2>1. Kept
    BY <1>2, <1>5 DEF Kept, ControlTypes, Nothing
  <2>2. Going(frames, unwind', reg', c)
    BY <1>5, Raises
  <2> QED
    BY <1>1, <1>2, <1>3, <1>5, <2>1, <2>2, NextNone
<1>6. CASE /\ status' = "Panic" /\ frames' = Then(<<>>) /\ UNCHANGED <<prog, reg, coins>>
  <2>1. Kept
    BY <1>2, <1>6 DEF Kept, ControlTypes, Statuses
  <2> QED
    BY <1>1, <1>2, <1>3, <1>6, <2>1, NextNone
<1> QED
  BY <1>4, <1>5, <1>6, Zenon DEF RaiseApply

\* The end of the module ends the run.
LEMMA FinishKeeps == ControlOK /\ Finish => ControlOK'
<1> SUFFICES ASSUME ControlOK, Finish PROVE ControlOK'
  OBVIOUS
<1>1. /\ frames' = Front(frames) /\ reg' = Nothing("Taken") /\ status' = "Done"
      /\ status = "Running" /\ UNCHANGED <<prog, coins>>
  BY DEF Finish, Popped
<1>2. ControlTypes
  BY DEF ControlOK
<1>3. PICK B, T : StackOK(frames, B, T) /\ frames # <<>>
  BY <1>1 DEF ControlOK, Control
<1>4. StackOK(frames', B, T) /\ Len(frames') = Len(frames) - 1 /\ Len(frames) \in Nat
  BY <1>1, <1>3, FrameGone
<1>5. Len(frames') <= StackLimit
  BY <1>2, <1>4, CallsAssumption DEF ControlTypes
<1>6. status' \in Statuses /\ reg'.k \in {"Value", "None"}
  BY <1>1 DEF Nothing, Statuses
<1>7. /\ prog' = prog /\ coins' \in Seq(BOOLEAN) /\ Len(coins') <= MaxCoins
      /\ status' # "Running"
  BY <1>1, <1>2 DEF ControlTypes
<1> QED
  BY <1>2, <1>4, <1>5, <1>6, <1>7, Onward

\* The callables of the program.
LEMMA CalPlaced ==
  ASSUME prog \in Mains, NEW name \in Names
  PROVE  /\ Cal(name) \in Callees(name) /\ Cal(name).kind \in {"Proc", "Func"}
         /\ BodyAt(Cal(name).body, CallablePlace(Cal(name).kind))
         /\ KnownIn(prog, Cal(name))
<1>1. Cal(name) \in Callees(name)
  <2>1. CASE name = "main"
    BY <2>1, Zenon DEF Cal, Callees
  <2>2. CASE name # "main"
    BY <2>2, Zenon DEF Cal, Callees
  <2> QED
    BY <2>1, <2>2
<1>2. Cal(name).kind \in {"Proc", "Func"}
  BY <1>1, CalleesPlaced, Zenon
<1>3. BodyAt(Cal(name).body, CallablePlace(Cal(name).kind))
  <2> DEFINE BodyOf(to) == {<<c.body, CallablePlace(c.kind)>> : c \in Callees(to)}
  <2>0. <<Cal(name).body, CallablePlace(Cal(name).kind)>> \in BodyOf(name)
    BY <1>1, Zenon
  <2>1. <<Cal(name).body, CallablePlace(Cal(name).kind)>> \in UNION {BodyOf(to) : to \in Names}
    BY <2>0, Zenon
  <2> QED
    BY <2>1, CalleesPlaced, Zenon DEF BodyAt
<1>4. KnownIn(prog, Cal(name))
  <2>1. CASE name = "main"
    BY <2>1, CalleesPlaced, Zenon DEF Cal
  <2>2. CASE name # "main"
    <3>1. name \in DOMAIN Library.cals
      BY <2>2, Zenon DEF Names
    <3>2. Library.cals[name] \in {Library.cals[to] : to \in DOMAIN Library.cals}
      BY <3>1, Zenon
    <3>3. KnownIn(prog, Library.cals[name])
      BY <3>2, CalleesPlaced, Zenon
    <3> QED
      BY <2>2, <3>3, Zenon DEF Cal
  <2> QED
    BY <2>1, <2>2
<1> QED
  BY <1>1, <1>2, <1>3, <1>4

\* A barrier is all that is left of its frame, and another frame is below.
LEMMA AtBarrier ==
  ASSUME NEW B, NEW T, NEW c, Here(B, T, c), Cont.k = "ReturnBarrier"
  PROVE  Len(frames) \in Nat \ {0, 1} /\ T[Len(frames)] = B[Len(frames)] /\ c = B[Len(frames)]
         /\ Len(Top.conts) = 1
<1> DEFINE n == Len(frames)
<1>1. /\ n \in Nat \ {0} /\ IsSeq(Top.conts) /\ Len(Top.conts) \in Nat \ {0}
      /\ Barred(Top.conts, n)
  BY AtTop, SeqFacts DEF Here
<1>2. Len(Top.conts) = 1 /\ n # 1
  <2>1. Len(Top.conts) \in 1 .. Len(Top.conts) /\ Top.conts[Len(Top.conts)].k = "ReturnBarrier"
    BY <1>1 DEF Cont
  <2> HIDE DEF n
  <2> QED
    BY <1>1, <2>1 DEF Barred
<1>3. Front(Top.conts) = <<>>
  <2>1. Top.conts # <<>>
    BY DEF Here
  <2>3. IsSeq(Front(Top.conts)) /\ Len(Front(Top.conts)) = Len(Top.conts) - 1
    BY <1>1, <2>1, SeqFront, Zenon
  <2>2. IsSeq(Front(Top.conts)) /\ Len(Front(Top.conts)) = 0
    BY <1>2, <2>3
  <2> QED
    BY <2>2, SeqFacts
<1>4. c = B[n]
  BY <1>3, StandsNone DEF Here
<1>5. T[n] = c
  BY DEF Here, AbovePlace
<1> QED
  BY <1>1, <1>2, <1>4, <1>5

\* The frame below takes over.
LEMMA PopOnward ==
  ASSUME ControlTypes, Kept, NEW B, NEW T, StackOK(frames, B, T), Len(frames) \in Nat \ {0, 1},
         frames' = Front(frames),
         status' = "Running" => Going(Front(frames), unwind', reg', T[Len(frames) - 1])
  PROVE  ControlOK'
<1>1. frames # <<>>
  BY SeqFacts DEF StackOK
<1>2. /\ StackOK(frames', B, T) /\ Len(frames') = Len(frames) - 1 /\ frames' # <<>>
  BY <1>1, FrameGone
<1>3. Len(frames') <= StackLimit
  BY <1>2, CallsAssumption DEF ControlTypes
<1> QED
  BY <1>2, <1>3, Onward DEF Kept

\* What the caller of the top frame wants of it.
LEMMA CallerWants ==
  ASSUME ControlTypes, NEW B, NEW T, StackOK(frames, B, T), Len(frames) \in Nat \ {0, 1}
  PROVE  /\ Served(Top, T[Len(frames) - 1])
         /\ Top.kind \in {"Callable", "Block"}
         /\ Top.kind = "Callable" =>
              /\ Top.cal \in Names /\ Cal(Top.cal).kind \in {"Proc", "Func"}
              /\ B[Len(frames)].want = IF Cal(Top.cal).kind = "Func" THEN "Value" ELSE "Any"
<1>1. frames # <<>>
  BY SeqFacts DEF StackOK
<1>2. FrameOK(frames, B, T, Len(frames)) /\ Top = frames[Len(frames)]
  BY <1>1, AtTop
<1>3. Served(Top, T[Len(frames) - 1]) /\ Top.kind \in {"Callable", "Block"}
  BY <1>2 DEF FrameOK, Shaped
<1>4. ASSUME Top.kind = "Callable"
      PROVE  /\ Top.cal \in Names /\ Cal(Top.cal).kind \in {"Proc", "Func"}
             /\ B[Len(frames)].want = IF Cal(Top.cal).kind = "Func" THEN "Value" ELSE "Any"
  <2>1. Top.cal \in Names /\ B[Len(frames)] = CallablePlace(Cal(Top.cal).kind)
    BY <1>2, <1>4 DEF FrameOK, BasedCallable
  <2>2. Cal(Top.cal).kind \in {"Proc", "Func"}
    BY <2>1, CalPlaced DEF ControlTypes
  <2> QED
    BY <2>1, <2>2 DEF CallablePlace
<1> QED
  BY <1>3, <1>4

\* What a callee hands back serves the place its caller goes on in.
LEMMA ReturnBarrierKeeps == ControlOK /\ ReturnBarrier => ControlOK'
<1> SUFFICES ASSUME ControlOK, ReturnBarrier PROVE ControlOK'
  OBVIOUS
<1> DEFINE kind == IF Top.kind = "Block" THEN "Block" ELSE Cal(Top.cal).kind
<1>1. /\ status = "Running" /\ unwind = NoUnwind /\ Top.conts # <<>> /\ Cont.k = "ReturnBarrier"
      /\ frames' = Front(frames) /\ UNCHANGED <<prog, status, coins>>
      /\ unwind' = (IF kind = "Func" /\ ~Takes THEN RaiseOf(<<"FellOff">>) ELSE unwind)
      /\ reg' = BodyResult(kind)
  BY DEF ReturnBarrier, At, Popped
<1>2. ControlTypes
  BY <1>1, Dispatched
<1>3. PICK B, T, c : Here(B, T, c)
  BY <1>1, Dispatched
<1>4. Len(frames) \in Nat \ {0, 1} /\ StackOK(frames, B, T)
  BY <1>1, <1>3, AtBarrier DEF Here
<1>5. Kept
  <2>1. reg'.k \in {"Value", "None"}
    BY <1>1, <1>2 DEF BodyResult, Nothing, ControlTypes
  <2> QED
    BY <1>1, <1>2, <2>1 DEF Kept, ControlTypes
<1>6. /\ Served(Top, T[Len(frames) - 1]) /\ Top.kind \in {"Callable", "Block"}
      /\ Top.kind = "Callable" => Cal(Top.cal).kind \in {"Proc", "Func"}
  BY <1>2, <1>4, CallerWants
<1>7. Going(Front(frames), unwind', reg', T[Len(frames) - 1])
  <2>1. CASE Top.kind = "Block"
    <3>1. kind = "Block" /\ unwind' = NoUnwind /\ Usable(reg')
      BY <1>1, <2>1 DEF BodyResult, Usable, Nothing, Takes
    <3> QED
      BY <1>6, <3>1, GoesOn DEF Served
  <2>2. CASE Top.kind = "Callable" /\ kind = "Func"
    <3>1. CASE Takes
      <4>1. unwind' = NoUnwind /\ Usable(reg')
        BY <1>1, <2>2, <3>1 DEF BodyResult, Usable, Takes
      <4> QED
        BY <1>6, <4>1, GoesOn DEF Served
    <3>2. CASE ~ Takes
      BY <1>1, <2>2, <3>2, Raises
    <3> QED
      BY <3>1, <3>2
  <2>3. CASE Top.kind = "Callable" /\ kind = "Proc"
    <3>1. unwind' = NoUnwind /\ (~ Top.known => Usable(reg')) /\ Cal(Top.cal).kind = "Proc"
      BY <1>1, <2>3 DEF BodyResult, Usable, Nothing
    <3> QED
      BY <1>6, <2>3, <3>1, GoesOn DEF Served
  <2> QED
    BY <1>6, <2>1, <2>2, <2>3
<1> QED
  BY <1>1, <1>2, <1>4, <1>5, <1>7, PopOnward

\* The target of an exit is there when it starts,
LEMMA ExitApplyKeeps == ControlOK /\ ExitApply => ControlOK'
<1> SUFFICES ASSUME ControlOK, ExitApply PROVE ControlOK'
  OBVIOUS
<1> DEFINE n == Cont.node
           valued == n.op # <<>>
           kind == IF valued /\ n.k = "Break" /\ n.at = "Consumer"
                   THEN ConsumerKind(Top.consumer) ELSE "None"
           v == IF valued THEN reg ELSE Nothing("Exit")
<1>1. status = "Running" /\ unwind = NoUnwind /\ Top.conts # <<>> /\ Cont.k = "ExitApply"
  BY DEF ExitApply, At
<1>2. CASE Refuse
  BY <1>1, <1>2, RefuseKeeps
<1>3. CASE /\ valued => Takes
           /\ unwind' = IF kind = "Proc" THEN RaiseOf(<<"NoDestination">>)
                        ELSE IF kind = "Panic" THEN unwind
                        ELSE ExitUnwind(n, v)
           /\ status' = IF kind = "Panic" THEN "Panic" ELSE status
           /\ reg' = IF valued THEN Nothing("Taken") ELSE reg
           /\ frames' = Then(<<>>)
           /\ UNCHANGED <<prog, coins>>
  <2>1. ControlTypes
    BY <1>1, Dispatched
  <2>2. PICK B, T, c : Here(B, T, c)
    BY <1>1, Dispatched
  <2>3. Carried(v)
    BY <1>3 DEF Carried, Nothing, Takes
  <2> HIDE DEF v, kind
  <2>4. Kept
    BY <1>3, <2>1 DEF Kept, ControlTypes, Nothing, Statuses
  <2>5. NodeAt(n, c) /\ n.k \in Exits /\ c \in Place
    BY <1>1, <2>2 DEF Here, ContPlaced, Does
  <2>6. ExitPlaced(n, c)
    BY <2>5, OfExit
  <2> DEFINE m == Len(frames)
  <2>7. /\ StackOK(frames, B, T) /\ frames # <<>> /\ m \in Nat \ {0} /\ m \in 1 .. m
        /\ c.home = B[m].home /\ c.hops = B[m].hops /\ Top = frames[m] /\ c.hops \in Nat
    BY <2>2, <2>5, AtTop, PlaceFacts DEF Here
  <2>8. ASSUME c.hops > 0
        PROVE  frames[m].kind = "Block" /\ Top.consumer \in 2 .. m
    <3> HIDE DEF m
    <3>1. frames[m].kind = "Block"
      BY <2>7, <2>8, Base DEF m
    <3>2. Top.consumer \in 1 .. m - 1 /\ frames[Top.consumer].kind = "Callable"
      BY <2>7, <3>1, Base DEF m
    <3>3. Top.consumer \in 1 .. m
      BY <2>7, <3>2
    <3>4. Top.consumer # 1
      BY <2>7, <3>2, <3>3, Base DEF m
    <3> QED
      BY <2>7, <3>1, <3>3, <3>4
  <2>9. ASSUME unwind' = ExitUnwind(n, v)
        PROVE  Going(frames, unwind', reg', c)
    <3>1. CASE n.at = "Home"
      <4>1. n.k = "Return" /\ c.home # "Top"
        BY <2>6, <3>1 DEF ExitPlaced
      <4>2. unwind' = [k |-> "Return", v |-> v, home |-> Home]
        BY <2>9, <4>1 DEF ExitUnwind
      <4>3. Home \in 2 .. Len(frames) /\ frames[Home].kind = "Callable"
        BY <2>7, <4>1, HomeFacts
      <4> QED
        BY <2>3, <4>2, <4>3 DEF Going
    <3>2. CASE n.at = "Loop"
      <4>1. /\ n.k \in {"Break", "Continue"} /\ n.loop \in 1 .. c.loop
            /\ n.k = "Break" => n.loop \notin c.endless
        BY <2>5, <2>6, <3>2 DEF ExitPlaced, Exits
      <4>2. CASE n.k = "Break"
        <5>1. unwind' = [k |-> "LoopBreak", loop |-> n.loop]
          BY <2>9, <3>2, <4>2 DEF ExitUnwind
        <5> QED
          BY <4>1, <4>2, <5>1 DEF Going
      <4>3. CASE n.k = "Continue"
        <5>1. unwind' = [k |-> "LoopContinue", loop |-> n.loop]
          BY <2>9, <3>2, <4>3 DEF ExitUnwind
        <5> QED
          BY <4>1, <4>3, <5>1 DEF Going
      <4> QED
        BY <4>1, <4>2, <4>3
    <3>3. CASE n.at = "Consumer"
      <4>1. n.k = "Break" /\ c.hops > 0
        BY <2>6, <3>3 DEF ExitPlaced
      <4>2. unwind' = [k |-> "BlockBreak", v |-> v, consumer |-> Top.consumer]
        BY <2>9, <3>3, <4>1 DEF ExitUnwind
      <4> QED
        BY <2>3, <2>8, <4>1, <4>2 DEF Going
    <3>4. CASE n.at = "Block"
      <4>1. n.k = "Continue" /\ c.hops > 0
        BY <2>6, <3>4 DEF ExitPlaced
      <4>2. unwind' = [k |-> "BlockContinue", v |-> v]
        BY <2>9, <3>4, <4>1 DEF ExitUnwind
      <4> QED
        BY <2>3, <2>8, <4>1, <4>2 DEF Going
    <3> QED
      BY <2>6, <3>1, <3>2, <3>3, <3>4 DEF ExitPlaced
  <2>10. status' = "Running" => Going(frames, unwind', reg', c)
    <3>1. CASE kind = "Proc"
      BY <1>3, <3>1, Raises
    <3>2. CASE kind = "Panic"
      BY <1>3, <3>2
    <3>3. CASE kind \notin {"Proc", "Panic"}
      BY <1>3, <2>9, <3>3
    <3> QED
      BY <3>1, <3>2, <3>3
  <2> QED
    BY <1>1, <1>3, <2>1, <2>2, <2>4, <2>10, NextNone
<1> QED
  BY <1>2, <1>3 DEF ExitApply

----------------------------------------------------------------------------
(* Unwinding.                                                               *)

\* No loop is open at the base of a frame.
LEMMA BaseLoop ==
  ASSUME NEW frs, NEW B, NEW T, StackOK(frs, B, T), NEW i \in 1 .. Len(frs)
  PROVE  /\ B[i].loop = 0
         /\ frs[i].kind = "Block" => B[i].want = "Any"
<1>1. FrameOK(frs, B, T, i) /\ frs[i].kind \in {"Top", "Callable", "Block"}
  BY Base DEF StackOK
<1>2. CASE frs[i].kind = "Top"
  BY <1>1, <1>2 DEF FrameOK, BasedTop, TopPlace
<1>3. CASE frs[i].kind = "Callable"
  BY <1>1, <1>3 DEF FrameOK, BasedCallable, CallablePlace
<1>4. CASE frs[i].kind = "Block"
  <2>1. B[i] = BlockPlace(B[frs[i].def]) /\ frs[i].def \in 1 .. i - 1
    BY <1>1, <1>4, Base DEF FrameOK, BasedBlock
  <2>2. B[frs[i].def] \in Place
    <3>1. Len(frs) \in Nat
      BY SeqFacts DEF StackOK
    <3>2. frs[i].def \in 1 .. Len(frs)
      BY <2>1, <3>1
    <3> QED
      BY <3>2, Base
  <2>3. PICK h : h = B[frs[i].def].hops + 1
    OBVIOUS
  <2>4. BlockPlace(B[frs[i].def]) =
          [B[frs[i].def] EXCEPT !.hops = h, !.loop = 0, !.tail = TRUE, !.ret = FALSE,
                                !.want = "Any", !.endless = {}]
    BY <2>3, Zenon DEF BlockPlace
  <2> QED
    BY <2>1, <2>2, <2>4 DEF Place
<1> QED
  BY <1>1, <1>2, <1>3, <1>4

\* Only a loop's continuation changes the loops of a place.
LEMMA LoopsKept ==
  ASSUME NEW k, NEW c \in Place, k.k \in ContKinds \ {"WhileCheck", "LoopReloop"}
  PROVE  AbovePlace(k, c).loop = c.loop /\ AbovePlace(k, c).endless = c.endless
<1>2. CASE k.k = "Seq"
  BY <1>2 DEF AbovePlace, StmtPlace, Place
<1>3. CASE k.k \in {"BindLet", "WithBind"}
  BY <1>3 DEF AbovePlace, OperandPlace, Place
<1>4. CASE k.k \in {"ExitApply", "RaiseApply"}
  BY <1>4 DEF AbovePlace, Place
<1>5. CASE k.k \in {"Eval", "IfChoose", "ReturnBarrier"}
  BY <1>5 DEF AbovePlace, Place
<1>6. CASE k.k \in {"WithRestore", "TryHandler", "PopHandler"}
  BY <1>6 DEF AbovePlace, OpenPlace, Place
<1> QED
  BY <1>2, <1>3, <1>4, <1>5, <1>6 DEF ContKinds

\* and a loop that a place counts has its continuation below.
LEMMA LoopAround ==
  ASSUME NEW n, NEW c \in Place, NodeAt(n, c), n.k \in {"While", "Loop"}
  PROVE  /\ LoopPlace(n, c).loop = c.loop + 1 /\ n.loop = c.loop + 1
         /\ LoopPlace(n, c).want = "Any"
         /\ c.endless \subseteq LoopPlace(n, c).endless
         /\ c.want # "Any" => n.loop \in LoopPlace(n, c).endless
<1>1. PICK e : e = IF c.want = "Any" THEN c.endless ELSE c.endless \cup {n.loop}
  OBVIOUS
<1>2. PICK l : l = c.loop + 1
  OBVIOUS
<1>3. LoopPlace(n, c) = [c EXCEPT !.loop = l, !.tail = FALSE, !.want = "Any", !.endless = e]
  BY <1>1, <1>2, Zenon DEF LoopPlace
<1>4. LoopPlace(n, c).loop = l /\ LoopPlace(n, c).want = "Any" /\ LoopPlace(n, c).endless = e
  BY <1>3 DEF Place
<1> QED
  BY <1>1, <1>2, <1>4, OfLoop

\* Where a loop's exit is unwinding, its loop is still in the frame.
LEMMA InLoop ==
  ASSUME ControlOK, status = "Running", unwind.k \in {"LoopBreak", "LoopContinue"}
  PROVE  /\ ControlTypes /\ Top.conts # <<>> /\ Cont.k # "ReturnBarrier"
         /\ \E B, T, c :
              /\ Here(B, T, c)
              /\ AtLoop => /\ AbovePlace(Cont, c).want = "Any"
                           /\ unwind.k = "LoopBreak" => c.want = "Any"
              /\ ~ AtLoop => Going(frames, unwind, reg, c)
<1>1. PICK B, T : Control(B, T)
  BY DEF ControlOK
<1> DEFINE n == Len(frames)
           t == T[n]
<1>2. StackOK(frames, B, T) /\ frames # <<>> /\ Going(frames, unwind, reg, t)
  BY <1>1 DEF Control
<1>3. /\ unwind.loop \in 1 .. t.loop /\ (unwind.k = "LoopBreak" => unwind.loop \notin t.endless)
  BY <1>2 DEF Going
<1>4. /\ n \in Nat \ {0} /\ n \in 1 .. n /\ Stands(Top.conts, B[n], t) /\ IsSeq(Top.conts)
      /\ B[n] \in Place
  BY <1>2, AtTop
<1>5. B[n].loop = 0
  BY <1>2, <1>4, BaseLoop
<1>6. Top.conts # <<>>
  <2>1. SUFFICES ASSUME Top.conts = <<>> PROVE FALSE
    OBVIOUS
  <2>2. t = B[n]
    BY <1>4, <2>1, StandsNone
  <2> HIDE DEF t, n
  <2> QED
    BY <1>3, <1>5, <2>2
<1>7. PICK c : Here(B, T, c)
  BY <1>2, <1>6, AtCont DEF Here
<1>8. t = AbovePlace(Cont, c) /\ c \in Place /\ ContPlaced(Cont, c)
  BY <1>7 DEF Here
<1>9. Cont.k # "ReturnBarrier"
  <2>1. SUFFICES ASSUME Cont.k = "ReturnBarrier" PROVE FALSE
    OBVIOUS
  <2>2. t = B[n]
    BY <1>7, <2>1, AtBarrier
  <2> HIDE DEF t, n
  <2> QED
    BY <1>3, <1>5, <2>2
<1> HIDE DEF t, n
<1>10. CASE Cont.k \in {"WhileCheck", "LoopReloop"}
  <2>1. NodeAt(Cont.node, c) /\ Cont.node.k \in {"While", "Loop"} /\ t = LoopPlace(Cont.node, c)
    BY <1>8, <1>10 DEF ContPlaced, Does, AbovePlace
  <2>2. /\ t.loop = c.loop + 1 /\ Cont.node.loop = c.loop + 1 /\ t.want = "Any"
        /\ c.endless \subseteq t.endless /\ (c.want # "Any" => Cont.node.loop \in t.endless)
    BY <1>8, <2>1, LoopAround
  <2>3. AtLoop <=> Cont.node.loop = unwind.loop
    BY <1>10 DEF AtLoop
  <2>4. AtLoop => t.want = "Any" /\ (unwind.k = "LoopBreak" => c.want = "Any")
    BY <1>3, <2>2, <2>3
  <2>5. ~ AtLoop => unwind.loop \in 1 .. c.loop /\ (unwind.k = "LoopBreak" => unwind.loop \notin c.endless)
    <3>1. c.loop \in Nat
      BY <1>8, PlaceFacts
    <3> QED
      BY <1>3, <2>2, <2>3, <3>1
  <2>6. ~ AtLoop => Going(frames, unwind, reg, c)
    BY <2>5 DEF Going
  <2> QED
    BY <1>6, <1>7, <1>8, <1>9, <2>4, <2>6 DEF ControlOK
<1>11. CASE Cont.k \notin {"WhileCheck", "LoopReloop"}
  <2>1. t.loop = c.loop /\ t.endless = c.endless
    BY <1>8, <1>11, ContKind, LoopsKept
  <2>2. ~ AtLoop
    BY <1>11 DEF AtLoop
  <2>3. Going(frames, unwind, reg, c)
    BY <1>3, <2>1 DEF Going
  <2> QED
    BY <1>6, <1>7, <1>9, <2>2, <2>3 DEF ControlOK
<1> QED
  BY <1>10, <1>11

\* Where nothing of the stack moves.
LEMMA SameOnward ==
  ASSUME ControlTypes, Kept, NEW B, NEW T, StackOK(frames, B, T), frames # <<>>,
         frames' = frames, Going(frames, unwind', reg', T[Len(frames)])
  PROVE  ControlOK'
  BY Onward DEF Kept, ControlTypes

\* The exits cut the stack down to where they lead, and go on in a place there.
LEMMA LoopBreakKeeps == ControlOK /\ LoopBreak => ControlOK'
<1> SUFFICES ASSUME ControlOK, LoopBreak PROVE ControlOK'
  OBVIOUS
<1>1. /\ status = "Running" /\ unwind.k = "LoopBreak" /\ frames' = Then(<<>>)
      /\ UNCHANGED <<prog, status, coins>>
      /\ IF AtLoop THEN reg' = Nothing("Loop") /\ unwind' = NoUnwind
         ELSE reg' = reg /\ unwind' = unwind
  BY DEF LoopBreak, Unwinding
<1>2. ControlTypes /\ Top.conts # <<>> /\ Cont.k # "ReturnBarrier"
  BY <1>1, InLoop
<1>3. PICK B, T, c : /\ Here(B, T, c)
                     /\ AtLoop => c.want = "Any"
                     /\ ~ AtLoop => Going(frames, unwind, reg, c)
  BY <1>1, InLoop
<1>4. Kept
  BY <1>1, <1>2 DEF Kept, ControlTypes, Nothing
<1>5. Going(frames, unwind', reg', c)
  <2>1. CASE AtLoop
    BY <1>1, <1>3, <2>1, GoesOn
  <2>2. CASE ~ AtLoop
    BY <1>1, <1>3, <2>2
  <2> QED
    BY <2>1, <2>2
<1> QED
  BY <1>1, <1>2, <1>3, <1>4, <1>5, NextNone

LEMMA LoopContinueKeeps == ControlOK /\ LoopContinue => ControlOK'
<1> SUFFICES ASSUME ControlOK, LoopContinue PROVE ControlOK'
  OBVIOUS
<1>1. /\ status = "Running" /\ unwind.k = "LoopContinue" /\ UNCHANGED <<prog, reg, status, coins>>
      /\ IF AtLoop THEN unwind' = NoUnwind /\ frames' = frames
         ELSE frames' = Then(<<>>) /\ unwind' = unwind
  BY DEF LoopContinue, Unwinding
<1>2. ControlTypes /\ Top.conts # <<>> /\ Cont.k # "ReturnBarrier"
  BY <1>1, InLoop
<1>3. PICK B, T, c : /\ Here(B, T, c)
                     /\ AtLoop => AbovePlace(Cont, c).want = "Any"
                     /\ ~ AtLoop => Going(frames, unwind, reg, c)
  BY <1>1, InLoop
<1>4. Kept
  BY <1>1, <1>2 DEF Kept, ControlTypes
<1>5. CASE AtLoop
  <2>1. Going(frames, unwind', reg', T[Len(frames)])
    <3>1. T[Len(frames)] = AbovePlace(Cont, c)
      BY <1>3 DEF Here
    <3> QED
      BY <1>1, <1>3, <1>5, <3>1, GoesOn
  <2> QED
    BY <1>1, <1>2, <1>3, <1>4, <1>5, <2>1, SameOnward DEF Here
<1>6. CASE ~ AtLoop
  <2>1. Going(frames, unwind', reg', c)
    BY <1>1, <1>3, <1>6
  <2> QED
    BY <1>1, <1>2, <1>3, <1>4, <1>6, <2>1, NextNone
<1> QED
  BY <1>5, <1>6

LEMMA BlockContinueKeeps == ControlOK /\ BlockContinue => ControlOK'
<1> SUFFICES ASSUME ControlOK, BlockContinue PROVE ControlOK'
  OBVIOUS
<1>1. /\ status = "Running" /\ unwind.k = "BlockContinue" /\ UNCHANGED <<prog, status, coins>>
      /\ IF Cont.k = "ReturnBarrier"
         THEN reg' = unwind.v /\ unwind' = NoUnwind /\ frames' = frames
         ELSE frames' = Then(<<>>) /\ reg' = reg /\ unwind' = unwind
  BY DEF BlockContinue, Unwinding
<1>2. ControlTypes
  BY DEF ControlOK
<1>3. PICK B, T : Control(B, T)
  BY DEF ControlOK
<1>4. /\ StackOK(frames, B, T) /\ frames # <<>> /\ Carried(unwind.v)
      /\ frames[Len(frames)].kind = "Block"
  BY <1>1, <1>3 DEF Control, Going
<1>5. Top.conts # <<>>
  <2>1. Shaped(Top, Len(frames)) /\ Top.kind = "Block"
    BY <1>4, AtTop
  <2> QED
    BY <2>1 DEF Shaped, Barred
<1>6. PICK c : Here(B, T, c)
  BY <1>4, <1>5, AtCont DEF Here
<1>7. Kept
  <2>1. reg'.k \in {"Value", "None"}
    BY <1>1, <1>2, <1>4 DEF ControlTypes, Carried
  <2> QED
    BY <1>1, <1>2, <2>1 DEF Kept, ControlTypes
<1>8. CASE Cont.k = "ReturnBarrier"
  <2>1. T[Len(frames)].want = "Any"
    <3>1. Len(frames) \in 1 .. Len(frames)
      BY <1>4, AtTop
    <3> QED
      BY <1>4, <1>6, <1>8, <3>1, AtBarrier, BaseLoop
  <2>2. Going(frames, unwind', reg', T[Len(frames)])
    BY <1>1, <1>8, <2>1, GoesOn
  <2> QED
    BY <1>1, <1>2, <1>4, <1>7, <1>8, <2>2, SameOnward
<1>9. CASE Cont.k # "ReturnBarrier"
  <2>1. Going(frames, unwind', reg', c)
    BY <1>1, <1>4, <1>9 DEF Going
  <2> QED
    BY <1>1, <1>2, <1>6, <1>7, <1>9, <2>1, NextNone
<1> QED
  BY <1>8, <1>9

LEMMA BlockBreakKeeps == ControlOK /\ BlockBreak => ControlOK'
<1> SUFFICES ASSUME ControlOK, BlockBreak PROVE ControlOK'
  OBVIOUS
<1>1. /\ status = "Running" /\ unwind.k = "BlockBreak" /\ UNCHANGED <<prog, status, coins>>
      /\ frames' = Front(frames)
      /\ IF Len(frames) = unwind.consumer THEN reg' = unwind.v /\ unwind' = NoUnwind
         ELSE reg' = reg /\ unwind' = unwind
  BY DEF BlockBreak, Unwinding, Popped
<1>2. ControlTypes
  BY DEF ControlOK
<1>3. PICK B, T : Control(B, T)
  BY DEF ControlOK
<1>4. /\ StackOK(frames, B, T) /\ frames # <<>> /\ Carried(unwind.v)
      /\ unwind.consumer \in 2 .. Len(frames)
  BY <1>1, <1>3 DEF Control, Going
<1>5. Len(frames) \in Nat \ {0, 1} /\ Len(Front(frames)) = Len(frames) - 1
  <2>1. Len(frames) \in Nat /\ Len(Front(frames)) = Len(frames) - 1
    BY <1>4, FrameGone
  <2> QED
    BY <1>4, <2>1
<1>6. Kept
  <2>1. reg'.k \in {"Value", "None"}
    BY <1>1, <1>2, <1>4 DEF ControlTypes, Carried
  <2> QED
    BY <1>1, <1>2, <2>1 DEF Kept, ControlTypes
<1>7. Going(Front(frames), unwind', reg', T[Len(frames) - 1])
  <2>1. CASE Len(frames) = unwind.consumer
    <3>1. unwind' = NoUnwind /\ Usable(reg')
      BY <1>1, <1>4, <2>1 DEF Usable, Carried
    <3>2. T[Len(frames) - 1].want # "Never"
      BY <1>2, <1>4, <1>5, CallerWants DEF Served
    <3> QED
      BY <3>1, <3>2, GoesOn
  <2>2. CASE Len(frames) # unwind.consumer
    <3>1. unwind.consumer \in 2 .. Len(Front(frames)) /\ unwind' = unwind
      BY <1>1, <1>4, <1>5, <2>2
    <3> QED
      BY <1>1, <1>4, <3>1 DEF Going
  <2> QED
    BY <2>1, <2>2
<1> QED
  BY <1>1, <1>2, <1>4, <1>5, <1>6, <1>7, PopOnward

LEMMA ReturnKeeps == ControlOK /\ Return => ControlOK'
<1> SUFFICES ASSUME ControlOK, Return PROVE ControlOK'
  OBVIOUS
<1> DEFINE fell == Cal(Top.cal).kind = "Func" /\ unwind.v.k = "None"
<1>1. /\ status = "Running" /\ unwind.k = "Return" /\ UNCHANGED <<prog, status, coins>>
      /\ frames' = Front(frames)
      /\ IF Len(frames) # unwind.home THEN reg' = reg /\ unwind' = unwind
         ELSE /\ unwind' = IF fell THEN RaiseOf(<<"FellOff">>) ELSE NoUnwind
              /\ reg' = IF fell THEN reg
                        ELSE IF unwind.v.k = "None"
                        THEN Nothing(IF Top.known THEN "Known" ELSE "Unknown")
                        ELSE unwind.v
  BY DEF Return, Unwinding, Popped
<1>2. ControlTypes
  BY DEF ControlOK
<1>3. PICK B, T : Control(B, T)
  BY DEF ControlOK
<1>4. /\ StackOK(frames, B, T) /\ frames # <<>> /\ Carried(unwind.v)
      /\ unwind.home \in 2 .. Len(frames) /\ frames[unwind.home].kind = "Callable"
  BY <1>1, <1>3 DEF Control, Going
<1>5. /\ Len(frames) \in Nat \ {0, 1} /\ Len(Front(frames)) = Len(frames) - 1
      /\ \A j \in 1 .. Len(frames) - 1 : Front(frames)[j] = frames[j]
  <2>1. /\ Len(frames) \in Nat /\ Len(Front(frames)) = Len(frames) - 1
        /\ \A j \in 1 .. Len(frames) - 1 : Front(frames)[j] = frames[j]
    BY <1>4, FrameGone
  <2> QED
    BY <1>4, <2>1
<1>6. Kept
  <2>1. reg'.k \in {"Value", "None"}
    BY <1>1, <1>2, <1>4 DEF ControlTypes, Carried, Nothing
  <2> QED
    BY <1>1, <1>2, <2>1 DEF Kept, ControlTypes
<1>7. Going(Front(frames), unwind', reg', T[Len(frames) - 1])
  <2>1. CASE Len(frames) = unwind.home
    <3>1. Top.kind = "Callable"
      BY <1>4, <2>1 DEF Top
    <3>2. Served(Top, T[Len(frames) - 1]) /\ Cal(Top.cal).kind \in {"Proc", "Func"}
      BY <1>2, <1>4, <1>5, <3>1, CallerWants
    <3>3. CASE fell
      BY <1>1, <2>1, <3>3, Raises
    <3>4. CASE ~ fell
      <4>1. unwind' = NoUnwind
        BY <1>1, <2>1, <3>4
      <4>2. CASE unwind.v.k = "None"
        <5>1. Cal(Top.cal).kind = "Proc" /\ (~ Top.known => Usable(reg'))
          BY <1>1, <2>1, <3>2, <3>4, <4>2 DEF Usable, Nothing
        <5> QED
          BY <3>1, <3>2, <4>1, <5>1, GoesOn DEF Served
      <4>3. CASE unwind.v.k # "None"
        <5>1. Usable(reg')
          BY <1>1, <1>4, <2>1, <3>4, <4>3 DEF Usable, Carried
        <5> QED
          BY <3>2, <4>1, <5>1, GoesOn DEF Served
      <4> QED
        BY <4>2, <4>3
    <3> QED
      BY <3>3, <3>4
  <2>2. CASE Len(frames) # unwind.home
    <3>1. /\ unwind.home \in 2 .. Len(Front(frames)) /\ unwind' = unwind
          /\ Front(frames)[unwind.home].kind = "Callable"
      BY <1>1, <1>4, <1>5, <2>2
    <3> QED
      BY <1>1, <1>4, <3>1 DEF Going
  <2> QED
    BY <2>1, <2>2
<1> QED
  BY <1>1, <1>2, <1>4, <1>5, <1>6, <1>7, PopOnward

\* A raise leaves a frame, or goes on at its innermost handler.
LEMMA AbandonKeeps == ControlOK /\ Abandon => ControlOK'
<1> SUFFICES ASSUME ControlOK, Abandon PROVE ControlOK'
  OBVIOUS
<1>1. /\ status = "Running" /\ unwind.k = "Raise" /\ UNCHANGED <<prog, reg, unwind, coins>>
      /\ frames' = Front(frames)
      /\ status' = IF Len(frames) = 1 THEN "Uncaught" ELSE status
  BY DEF Abandon, Unwinding, Popped
<1>2. ControlTypes
  BY DEF ControlOK
<1>3. PICK B, T : Control(B, T)
  BY DEF ControlOK
<1>4. StackOK(frames, B, T) /\ frames # <<>>
  BY <1>1, <1>3 DEF Control
<1>5. /\ Len(frames) \in Nat \ {0} /\ Len(frames') = Len(frames) - 1 /\ StackOK(frames', B, T)
  BY <1>1, <1>4, FrameGone
<1>6. Kept
  BY <1>1, <1>2 DEF Kept, ControlTypes, Statuses
<1>7. CASE Len(frames) = 1
  <2>1. status' # "Running" /\ Len(frames') <= StackLimit
    BY <1>1, <1>5, <1>7, CallsAssumption
  <2> QED
    BY <1>2, <1>5, <1>6, <2>1, Onward DEF Kept
<1>8. CASE Len(frames) # 1
  <2>1. Going(Front(frames), unwind', reg', T[Len(frames) - 1])
    BY <1>1 DEF Going
  <2>2. Len(frames) \in Nat \ {0, 1}
    BY <1>5, <1>8
  <2> QED
    BY <1>1, <1>2, <1>4, <1>6, <2>1, <2>2, PopOnward
<1> QED
  BY <1>7, <1>8

\* The innermost handler of the frame.
LEMMA InnermostFacts ==
  ASSUME IsSeq(Top.conts), Handlers # {}
  PROVE  /\ Innermost \in 1 .. Len(Top.conts) /\ Top.conts[Innermost].k = "TryHandler"
         /\ \A j \in Handlers : j <= Innermost
<1> DEFINE m == Len(Top.conts)
           S == {m - i : i \in Handlers}
<1>1. m \in Nat /\ DOMAIN Top.conts = 1 .. m
  BY SeqFacts
<1>2. Handlers \subseteq 1 .. m
  BY <1>1 DEF Handlers
<1>3. PICK x \in S : \A y \in S : x <= y
  <2>1. S \in SUBSET Nat /\ S # {}
    <3> HIDE DEF m
    <3>1. \A j \in Handlers : m - j \in Nat
      BY <1>1, <1>2
    <3> QED
      BY <3>1
  <2> QED
    BY <2>1, LeastElement
<1>4. PICK i \in Handlers : x = m - i
  OBVIOUS
<1>5. \A j \in Handlers : j <= i
  <2> SUFFICES ASSUME NEW j \in Handlers PROVE j <= i
    OBVIOUS
  <2>1. m - i <= m - j
    BY <1>3, <1>4
  <2> HIDE DEF m
  <2> QED
    BY <1>1, <1>2, <2>1
<1>6. Innermost \in Handlers /\ \A j \in Handlers : j <= Innermost
  BY <1>5, Zenon DEF Innermost
<1> QED
  BY <1>2, <1>6 DEF Handlers

LEMMA CatchKeeps == ControlOK /\ Catch => ControlOK'
<1> SUFFICES ASSUME ControlOK, Catch PROVE ControlOK'
  OBVIOUS
<1> DEFINE i == Innermost
           n == Len(frames)
           cs == Top.conts
           k == [k |-> "PopHandler"]
           l == SeqCont(cs[i].node.rescue)
           below == SubSeq(cs, 1, i - 1)
           ks == Append(Append(below, k), l)
<1>1. /\ status = "Running" /\ UNCHANGED <<prog, reg, status, coins>>
      /\ unwind' = NoUnwind /\ Handlers # {}
      /\ frames' = WithConts(frames, below \o <<k, l>>)
  BY Zenon DEF Catch, Unwinding, WithConts, Top
<1>2. ControlTypes
  BY DEF ControlOK
<1>3. PICK B, T : Control(B, T)
  BY DEF ControlOK
<1>4. StackOK(frames, B, T) /\ frames # <<>>
  BY <1>1, <1>3 DEF Control
<1>5. /\ n \in Nat \ {0} /\ IsSeq(cs) /\ Len(cs) \in Nat /\ Barred(cs, n) /\ Stands(cs, B[n], T[n])
  BY <1>4, AtTop
<1>6. i \in 1 .. Len(cs) /\ cs[i].k = "TryHandler"
  BY <1>1, <1>5, InnermostFacts
<1> HIDE DEF cs, i, n
<1>7. /\ IsSeq(below) /\ Len(below) = i - 1 /\ \A j \in 1 .. i - 1 : below[j] = cs[j]
  BY <1>5, <1>6, SeqCut
<1> HIDE DEF below
<1>8. PICK c : Stands(below, B[n], c) /\ ContPlaced(cs[i], c)
  BY <1>5, <1>6, <1>7, StandsCut
<1>9. Barred(below, n)
  <2>1. n # 1 => i # 1
    BY <1>5, <1>6 DEF Barred
  <2>2. n # 1 => below # <<>>
    BY <1>6, <1>7, <2>1, SeqFacts
  <2>3. \A j \in 1 .. i - 1 : j \in 1 .. Len(cs)
    BY <1>5, <1>6
  <2> QED
    BY <1>5, <1>7, <2>2, <2>3 DEF Barred
<1>10. NodeAt(cs[i].node, c) /\ cs[i].node.k = "Try"
  BY <1>6, <1>8 DEF ContPlaced, Does
<1>11. k.k = "PopHandler"
  OBVIOUS
<1> HIDE DEF k
<1>12. ContPlaced(k, c) /\ k.k # "ReturnBarrier" /\ AbovePlace(k, c) = OpenPlace(c, c.want)
  BY <1>11 DEF ContPlaced, AbovePlace
<1>13. /\ ContPlaced(l, AbovePlace(k, c)) /\ l.k # "ReturnBarrier"
       /\ AbovePlace(l, AbovePlace(k, c)).want = "Any"
  <2>1. BodyAt(cs[i].node.rescue, AbovePlace(k, c))
    BY <1>10, <1>12, OfTry
  <2> QED
    BY <2>1, SeqStarts
<1> HIDE DEF l
<1>14. below \o <<k, l>> = ks
  BY <1>7, SeqConcat
<1>15. IsSeq(Append(below, k)) /\ Barred(Append(below, k), n)
       /\ Stands(Append(below, k), B[n], AbovePlace(k, c))
  BY <1>7, <1>8, <1>9, <1>12, BarredPush, StandsPush
<1>16. PICK t : t = AbovePlace(l, AbovePlace(k, c))
  OBVIOUS
<1>17. IsSeq(ks) /\ Barred(ks, n) /\ Stands(ks, B[n], t)
  BY <1>13, <1>15, <1>16, BarredPush, StandsPush
<1> HIDE DEF ks
<1> DEFINE T2 == Upto(T, n, t)
<1>18. StackOK(frames', B, T2) /\ Len(frames') = n
  <2>1. frames' = WithConts(frames, ks)
    BY <1>1, <1>14
  <2>2. /\ StackOK(WithConts(frames, ks), B, Upto(T, Len(frames), t))
        /\ OneFrame(WithConts(frames, ks), frames)
    BY <1>4, <1>17, TopConts DEF n
  <2> QED
    BY <2>1, <2>2 DEF n, OneFrame
<1>19. T2[Len(frames')] = t
  BY <1>5, <1>18, UptoFacts
<1> HIDE DEF T2
<1>20. Going(frames', unwind', reg', T2[Len(frames')])
  BY <1>1, <1>13, <1>16, <1>19, GoesOn
<1>21. Kept /\ frames' # <<>> /\ Len(frames') <= StackLimit
  <2>1. Kept
    BY <1>1, <1>2 DEF Kept, ControlTypes
  <2>2. frames' # <<>>
    BY <1>5, <1>18, SeqFacts DEF StackOK
  <2> QED
    BY <1>2, <1>18, <2>1, <2>2 DEF ControlTypes, n
<1> QED
  BY <1>2, <1>18, <1>20, <1>21, Onward DEF Kept

----------------------------------------------------------------------------
(* Calls.                                                                   *)

\* A block stands at its callable and the blocks around it.
LEMMA BlockPlaceSame ==
  ASSUME NEW c \in Place, NEW d \in Place, c.home = d.home, c.hops = d.hops
  PROVE  BlockPlace(c) = BlockPlace(d)
<1>1. ASSUME NEW e \in Place, NEW h, h = e.hops + 1
      PROVE  BlockPlace(e) = [home |-> e.home, hops |-> h, loop |-> 0, tail |-> TRUE,
                              ret |-> FALSE, want |-> "Any", endless |-> {}]
  <2>1. BlockPlace(e) = [e EXCEPT !.hops = h, !.loop = 0, !.tail = TRUE, !.ret = FALSE,
                                  !.want = "Any", !.endless = {}]
    BY <1>1, Zenon DEF BlockPlace
  <2> QED
    BY <2>1 DEF Place
<1>2. PICK h : h = c.hops + 1
  OBVIOUS
<1> QED
  BY <1>1, <1>2

\* A frame that is about to run a body.
Starts(f, kind, body) ==
  DOMAIN f = FrameFields /\ f.kind = kind /\ f.conts = BodyConts(body)

\* A callable's frame, the ith of its stack, with what it is to be given.
Callee(f, to) ==
  /\ Starts(f, "Callable", Cal(to).body) /\ f.cal = to /\ f.mod = Cal(to).mod
NewAt(frs, B, T, i, f, to) ==
  /\ i \in Nat \ {0, 1} /\ frs[i] = f /\ B[i] = CallablePlace(Cal(to).kind)
  /\ T[i] = AbovePlace(SeqCont(Cal(to).body), B[i])
Bound(frs, B, i, f) ==
  f.blk # NoBlock => /\ Linked(frs, i, f.blk.def, f.blk.act)
                     /\ BodyAt(f.blk.body, BlockPlace(B[f.blk.def]))
Awaited(frs, T, i, f) == Served(f, T[i - 1]) /\ ~ Wasted(frs[i - 1], f)

\* A callable may start upon the frame that calls it.
LEMMA CalleeOK ==
  ASSUME prog \in Mains, NEW to, to \in Names, NEW f, Callee(f, to),
         NEW frs, NEW B, NEW T, NEW i, NewAt(frs, B, T, i, f, to),
         Bound(frs, B, i, f), Awaited(frs, T, i, f)
  PROVE  FrameOK(frs, B, T, i) /\ T[i].want = "Any"
<1>0. i \in Nat \ {0, 1} /\ frs[i] = f
  BY DEF NewAt
<1>1. BodyAt(Cal(to).body, B[i])
  BY CalPlaced DEF NewAt
<1>2. /\ IsSeq(f.conts) /\ Barred(f.conts, i) /\ Stands(f.conts, B[i], T[i])
      /\ T[i].want = "Any"
  BY <1>0, <1>1, BodyStands, SeqStarts DEF Starts, Callee, NewAt
<1>3. Shaped(f, i) /\ BasedTop(f, B[i]) /\ BasedCallable(f, B[i])
  BY <1>0, <1>2 DEF Shaped, BasedTop, BasedCallable, Starts, Callee, NewAt
<1>4. BasedBlock(frs, B, i) /\ Passed(frs, B, i)
  BY <1>0 DEF BasedBlock, Passed, Starts, Callee, Bound
<1> QED
  BY <1>0, <1>2, <1>3, <1>4 DEF FrameOK, Awaited

\* So may a block's body, upon the frame that invokes it.
LEMMA BlockOK ==
  ASSUME NEW f, NEW body, Starts(f, "Block", body), f.blk = NoBlock,
         NEW frs, NEW B, NEW T, NEW i \in Nat \ {0, 1}, frs[i] = f,
         Linked(frs, i, f.def, f.defact), Linked(frs, i, f.consumer, f.consact),
         frs[f.consumer].kind = "Callable",
         B[i] = BlockPlace(B[f.def]), BodyAt(body, B[i]),
         T[i] = AbovePlace(SeqCont(body), B[i]), T[i - 1].want # "Never"
  PROVE  FrameOK(frs, B, T, i) /\ T[i].want = "Any"
<1>1. /\ IsSeq(f.conts) /\ Barred(f.conts, i) /\ Stands(f.conts, B[i], T[i])
      /\ T[i].want = "Any"
  BY BodyStands, SeqStarts DEF Starts
<1>2. Shaped(f, i) /\ BasedTop(f, B[i]) /\ BasedCallable(f, B[i])
  BY <1>1 DEF Shaped, BasedTop, BasedCallable, Starts
<1>3. BasedBlock(frs, B, i) /\ Passed(frs, B, i)
  BY DEF BasedBlock, Passed, Starts
<1>4. Served(f, T[i - 1]) /\ ~ Wasted(frs[i - 1], f)
  BY DEF Served, Wasted, Starts
<1> QED
  BY <1>1, <1>2, <1>3, <1>4 DEF FrameOK

\* A frame is pushed on what the call leaves, unless the stack is full.
LEMMA PushOnward ==
  ASSUME ControlTypes, status = "Running", NEW B, NEW T, NEW c, Here(B, T, c),
         Cont.k # "ReturnBarrier", NEW f, PushFrame(f),
         NEW p, p = Len(frames) + 1, NEW b, NEW t,
         LET frs2 == Append(Then(<<>>), f)
             T1 == Upto(T, Len(frames), c)
         IN FrameOK(frs2, Upto(B, p, b), Upto(T1, p, t), p),
         t.want = "Any", unwind' = NoUnwind, reg'.k \in {"Value", "None"},
         UNCHANGED <<prog, coins>>
  PROVE  ControlOK'
<1> DEFINE m == Len(frames)
           frs1 == Then(<<>>)
           frs2 == Append(frs1, f)
           T1 == Upto(T, m, c)
           B2 == Upto(B, p, b)
           T2 == Upto(T1, p, t)
<1>1. StackOK(frames, B, T) /\ frames # <<>> /\ m \in Nat \ {0} /\ m <= StackLimit
  BY AtTop DEF Here, ControlTypes
<1>2. CASE m >= StackLimit
  <2>1. status' = "StackFault" /\ frames' = frames
    BY <1>2 DEF PushFrame
  <2> QED
    BY <1>1, <2>1, Onward DEF ControlTypes, Statuses
<1>3. CASE ~ (m >= StackLimit)
  <2>1. frames' = frs2 /\ status' = "Running"
    BY <1>3 DEF PushFrame
  <2>2. ThenOK(<<>>, B, T, c)
    BY ThenNone DEF Here
  <2>3. StackOK(frs1, B, T1) /\ Len(frs1) = m
    BY <2>2, Zenon DEF ThenOK, OneFrame
  <2>4. p \in Nat /\ p \in Nat \ {0} /\ p = Len(frs1) + 1 /\ p <= StackLimit
    <3>1. p = m + 1
      OBVIOUS
    <3> HIDE DEF m, frs1
    <3> QED
      BY <1>1, <1>3, <2>3, <3>1, CallsAssumption
  <2>5. FrameOK(frs2, B2, T2, p)
    OBVIOUS
  <2> HIDE DEF m, frs1, T1
  <2>6. StackOK(frs2, B2, T2) /\ Len(frs2) = p /\ frs2 # <<>>
    BY <2>3, <2>4, <2>5, Pushed
  <2>7. T2[p] = t
    BY <2>4, UptoLast
  <2> HIDE DEF frs2, B2, T2
  <2>8. Going(frames', unwind', reg', T2[Len(frames')])
    BY <2>1, <2>6, <2>7, GoesOn
  <2> QED
    BY <2>1, <2>4, <2>6, <2>8, Onward DEF ControlTypes, Statuses
<1> QED
  BY <1>2, <1>3

\* A block runs linked to the activation it is written in.
LEMMA BlockApplyKeeps == ControlOK /\ BlockApply => ControlOK'
<1> SUFFICES ASSUME ControlOK, BlockApply PROVE ControlOK'
  OBVIOUS
<1> DEFINE n == Cont.node
           m == Len(frames)
           owner == Outer(n.hops)
           desc == frames[owner].blk
           f == [Frame("Block", "None", frames[desc.def].mod, desc.body, FreshAct)
                  EXCEPT !.def = desc.def, !.defact = desc.act,
                         !.consumer = owner, !.consact = frames[owner].act]
<1>1. /\ status = "Running" /\ unwind = NoUnwind /\ Top.conts # <<>> /\ Cont.k = "Eval"
      /\ n.k = "Call" /\ n.to = "b" /\ UNCHANGED <<prog, reg, coins>>
      /\ IF desc = NoBlock
         THEN Arm(<<"NoBlock">>) /\ frames' = Then(<<>>) /\ status' = status
         ELSE PushFrame(f) /\ unwind' = unwind
  BY DEF BlockApply, At
<1>2. /\ Starts(f, "Block", desc.body) /\ f.blk = NoBlock
      /\ f.def = desc.def /\ f.defact = desc.act
      /\ f.consumer = owner /\ f.consact = frames[owner].act
  BY DEF Starts, Frame, FrameFields
<1> HIDE DEF f
<1>3. ControlTypes
  BY <1>1, Dispatched
<1>4. PICK B, T, c : Here(B, T, c)
  BY <1>1, Dispatched
<1>5. NodeAt(n, c)
  BY <1>1, <1>4 DEF Here, ContPlaced, Does
<1>6. n.hops = c.hops /\ c.want # "Never"
  BY <1>1, <1>5, OfCall
<1>7. /\ StackOK(frames, B, T) /\ frames # <<>> /\ m \in Nat \ {0}
      /\ c.hops = B[m].hops /\ c.hops \in Nat /\ B[m].hops \in Nat
  BY <1>4, AtTop, PlaceFacts DEF Here
<1>8. owner \in 1 .. m
  BY <1>6, <1>7, OuterFacts
<1> HIDE DEF owner
<1>9. CASE desc = NoBlock
  <2>1. frames' = Then(<<>>) /\ unwind' = RaiseOf(<<"NoBlock">>) /\ status' = status
    BY <1>1, <1>9 DEF Arm
  <2>2. Kept
    BY <1>1, <1>3, <2>1 DEF Kept, ControlTypes
  <2>3. Going(frames, unwind', reg', c)
    BY <2>1, Raises
  <2> QED
    BY <1>1, <1>3, <1>4, <2>1, <2>2, <2>3, NextNone
<1>10. CASE desc # NoBlock
  <2> DEFINE p == m + 1
             frs2 == Append(Then(<<>>), f)
             T1 == Upto(T, m, c)
             b == BlockPlace(B[desc.def])
             t == AbovePlace(SeqCont(desc.body), b)
             B2 == Upto(B, p, b)
             T2 == Upto(T1, p, t)
  <2>1. FrameOK(frames, B, T, owner)
    BY <1>7, <1>8 DEF StackOK
  <2>2. /\ frames[owner].kind = "Callable" /\ desc.def \in 1 .. owner - 1
        /\ frames[desc.def].act = desc.act
        /\ BodyAt(desc.body, b)
    BY <1>10, <2>1 DEF FrameOK, Passed, Linked
  <2>3. /\ ThenOK(<<>>, B, T, c)
    BY <1>1, <1>4, ThenNone DEF Here
  <2>4. /\ IsSeq(Then(<<>>)) /\ Len(Then(<<>>)) = m
        /\ \A j \in 1 .. m : Alike(Then(<<>>)[j], frames[j])
    BY <2>3, Zenon DEF ThenOK, OneFrame, StackOK
  <2> HIDE DEF desc, b
  <2>5. p \in Nat \ {0, 1} /\ p - 1 = m
    BY <1>7
  <2>6. frs2[p] = f /\ \A j \in 1 .. m : Alike(frs2[j], frames[j])
    BY <2>4, SeqAppend
  <2> HIDE DEF frs2, t
  <2>7. /\ B2[p] = b /\ \A j \in 1 .. m : B2[j] = B[j]
        /\ T2[p] = t /\ T2[m] = c
    <3>1. T1[m] = c
      <4> HIDE DEF m
      <4> QED
        BY <1>7, UptoLast
    <3> HIDE DEF T1
    <3>2. m \in 1 .. p - 1
      BY <1>7, <2>5
    <3>3. B2[p] = b /\ T2[p] = t /\ \A j \in 1 .. p - 1 : B2[j] = B[j] /\ T2[j] = T1[j]
      <4> HIDE DEF p
      <4> QED
        BY <2>5, UptoFacts
    <3> QED
      BY <2>5, <3>1, <3>2, <3>3
  <2>8. p = Len(frames) + 1
    OBVIOUS
  <2> HIDE DEF T1, B2, T2, p, m
  <2>9. desc.def \in 1 .. m /\ owner \in 1 .. m
    BY <1>7, <1>8, <2>2
  <2>10. /\ Linked(frs2, p, f.def, f.defact) /\ Linked(frs2, p, f.consumer, f.consact)
         /\ frs2[f.consumer].kind = "Callable"
    BY <1>2, <2>2, <2>5, <2>6, <2>9 DEF Linked, Alike
  <2>11. B2[p] = BlockPlace(B2[f.def])
    BY <1>2, <2>7, <2>9 DEF b
  <2>12. FrameOK(frs2, B2, T2, p) /\ T2[p].want = "Any"
    <3>1. BodyAt(desc.body, B2[p]) /\ T2[p] = AbovePlace(SeqCont(desc.body), B2[p])
      BY <2>2, <2>7 DEF t
    <3>2. T2[p - 1].want # "Never"
      BY <1>6, <2>5, <2>7
    <3> QED
      BY <1>2, <2>5, <2>6, <2>10, <2>11, <3>1, <3>2, BlockOK
  <2>13. PushFrame(f) /\ unwind' = NoUnwind /\ reg'.k \in {"Value", "None"}
    BY <1>1, <1>3, <1>10 DEF ControlTypes, desc
  <2>14. t.want = "Any" /\ FrameOK(Append(Then(<<>>), f), Upto(B, p, b), Upto(Upto(T, Len(frames), c), p, t), p)
    BY <2>7, <2>12 DEF frs2, T1, B2, T2, m
  <2> QED
    BY <1>1, <1>3, <1>4, <2>8, <2>13, <2>14, PushOnward
<1> QED
  BY <1>9, <1>10

\* A callable in tail position is not still there while its callee runs: it
\* has more to do, or its frame was reused.
LEMMA Unwasted ==
  ASSUME ControlTypes, NEW B, NEW T, NEW c, Here(B, T, c), NEW n,
         n.tail = (c.tail /\ n.blk = <<>>), n.to \in Names, ~ Reuses(n),
         NEW f, f.kind = "Callable", f.cal = n.to, f.plain = (n.blk = <<>>),
         NEW g, Alike(g, Top), g.conts = Front(Top.conts)
  PROVE  ~ Wasted(g, f)
<1>1. SUFFICES ASSUME Top.kind = "Callable", n.blk = <<>>, Handing(Front(Top.conts)),
                      Cal(Top.cal).kind = Cal(n.to).kind
               PROVE  FALSE
  BY DEF Wasted, Alike
<1>2. /\ StackOK(frames, B, T) /\ frames # <<>> /\ Stands(Front(Top.conts), B[Len(frames)], c)
      /\ Top.conts # <<>>
  BY DEF Here
<1>3. FrameOK(frames, B, T, Len(frames)) /\ Top = frames[Len(frames)] /\ IsSeq(Top.conts)
  BY <1>2, AtTop
<1>4. /\ Top.cal \in Names /\ Top.mod = Cal(Top.cal).mod
      /\ B[Len(frames)] = CallablePlace(Cal(Top.cal).kind)
  BY <1>1, <1>3 DEF FrameOK, BasedCallable
<1>5. TableOf(Top.mod)[Cal(Top.cal).id] = Cal(Top.cal).kind
  BY <1>4, CalPlaced DEF KnownIn, TableOf, ControlTypes
<1>6. ~ c.tail
  BY <1>1, <1>5 DEF Reuses
<1>7. B[Len(frames)].tail /\ B[Len(frames)].ret
  BY <1>4 DEF CallablePlace
<1> QED
  BY <1>1, <1>2, <1>3, <1>6, <1>7, SeqFront, NotHanding

\* A reused frame goes on being what its caller waits for.
LEMMA ReuseKeeps ==
  ASSUME ControlTypes, Kept, status = "Running", NEW B, NEW T, NEW c, Here(B, T, c),
         unwind' = NoUnwind, NEW n, n.to \in Names, Reuses(n),
         NEW g, Starts(g, "Callable", Cal(n.to).body), g.cal = n.to,
         g.mod = Cal(n.to).mod, g.blk = NoBlock, g.known = Top.known, g.plain = Top.plain,
         frames' = [frames EXCEPT ![Len(frames)] = g]
  PROVE  ControlOK'
<1> DEFINE m == Len(frames)
           b == CallablePlace(Cal(n.to).kind)
           t == AbovePlace(SeqCont(Cal(n.to).body), b)
           frs2 == [frames EXCEPT ![m] = g]
           B2 == Upto(B, m, b)
           T2 == Upto(T, m, t)
<1>1. /\ StackOK(frames, B, T) /\ frames # <<>> /\ m \in Nat \ {0} /\ Top = frames[m]
      /\ FrameOK(frames, B, T, m) /\ prog \in Mains /\ m <= StackLimit
  BY AtTop DEF Here, ControlTypes
<1>2. m \in Nat \ {0, 1}
  BY <1>1 DEF FrameOK, Shaped, Reuses
<1>3. Top.cal \in Names /\ Top.mod = Cal(Top.cal).mod
  BY <1>1 DEF FrameOK, BasedCallable, Reuses
<1>4. Cal(Top.cal).kind = Cal(n.to).kind
  BY <1>1, <1>3, CalPlaced DEF KnownIn, TableOf, Reuses
<1>5. Served(Top, T[m - 1]) /\ ~ Wasted(frames[m - 1], Top)
  BY <1>1, <1>2 DEF FrameOK
<1>6. Served(g, T[m - 1]) /\ ~ Wasted(frames[m - 1], g)
  BY <1>4, <1>5 DEF Served, Wasted, Starts, Reuses
<1>7. /\ frs2[m] = g /\ IsSeq(frs2) /\ Len(frs2) = m
      /\ \A j \in 1 .. m : j # m => frs2[j] = frames[j]
  <2>1. PICK S : frames \in Seq(S) /\ g \in S
    BY <1>1, SeqWithin DEF StackOK
  <2>2. m \in 1 .. m
    <3> HIDE DEF m
    <3> QED
      BY <1>2
  <2>3. /\ frs2[m] = g /\ frs2 \in Seq(S) /\ Len(frs2) = m
        /\ \A j \in 1 .. m : j # m => frs2[j] = frames[j]
    BY <2>1, <2>2, ExceptFacts
  <2> HIDE DEF frs2
  <2> QED
    BY <2>3 DEF IsSeq
<1> HIDE DEF frs2, b, t, m
<1>8. /\ B2[m] = b /\ T2[m] = t /\ T2[m - 1] = T[m - 1]
      /\ \A j \in 1 .. m - 1 : B2[j] = B[j] /\ T2[j] = T[j]
  <2>1. m - 1 \in 1 .. m - 1
    BY <1>2
  <2>2. \A j \in 1 .. m - 1 : B2[j] = B[j] /\ T2[j] = T[j]
    BY <1>1, UptoFacts
  <2> QED
    BY <1>1, <2>1, <2>2, UptoLast
<1> HIDE DEF B2, T2
<1>9. FrameOK(frs2, B2, T2, m) /\ t.want = "Any"
  <2>1. B2[m] = CallablePlace(Cal(n.to).kind) /\ T2[m] = AbovePlace(SeqCont(Cal(n.to).body), B2[m])
    BY <1>8 DEF b, t
  <2>2. Served(g, T2[m - 1]) /\ ~ Wasted(frs2[m - 1], g)
    <3>1. m - 1 \in 1 .. m /\ m - 1 # m
      BY <1>2
    <3>2. frs2[m - 1] = frames[m - 1]
      BY <1>7, <3>1
    <3> QED
      BY <1>6, <1>8, <3>2
  <2>3. Callee(g, n.to) /\ Bound(frs2, B2, m, g) /\ Awaited(frs2, T2, m, g)
    BY <2>2 DEF Callee, Bound, Awaited
  <2>4. NewAt(frs2, B2, T2, m, g, n.to)
    BY <1>2, <1>7, <2>1 DEF NewAt
  <2> QED
    BY <1>1, <1>8, <2>3, <2>4, CalleeOK
<1>10. StackOK(frs2, B2, T2) /\ Len(frs2) = m /\ frs2 # <<>>
  <2>1. m \in Nat /\ m = Len(frs2) /\ m - 1 <= Len(frames)
    <3>1. m = Len(frames)
      BY DEF m
    <3> QED
      BY <1>1, <1>7, <3>1
  <2>2. \A j \in 1 .. m - 1 : frs2[j] = frames[j] /\ B2[j] = B[j] /\ T2[j] = T[j]
    BY <1>1, <1>7, <1>8
  <2>3. StackOK(frs2, B2, T2)
    BY <1>1, <1>7, <1>9, <2>1, <2>2, NewTop
  <2> QED
    BY <1>1, <1>7, <2>3, SeqFacts
<1>11. frames' = frs2
  BY DEF frs2, m
<1>12. Going(frames', unwind', reg', T2[Len(frames')])
  BY <1>8, <1>9, <1>10, <1>11, GoesOn
<1> QED
  BY <1>1, <1>10, <1>11, <1>12, Onward DEF Kept

\* A call pushes its frame or, in tail position, takes the place of its own.
LEMMA CallApplyKeeps == ControlOK /\ CallApply => ControlOK'
<1> SUFFICES ASSUME ControlOK, CallApply PROVE ControlOK'
  OBVIOUS
<1> DEFINE n == Cont.node
           m == Len(frames)
           cal == Cal(n.to)
           f == [Frame("Callable", n.to, cal.mod, cal.body, FreshAct) EXCEPT
                   !.blk = BlockOf(n), !.known = n.known, !.plain = n.blk = <<>>]
           g == [f EXCEPT !.plain = Top.plain, !.known = Top.known]
<1>1. /\ status = "Running" /\ unwind = NoUnwind /\ Top.conts # <<>> /\ Cont.k = "Eval"
      /\ n.k = "Call" /\ n.to # "b" /\ UNCHANGED <<prog, coins>> /\ reg' = Nothing("Taken")
      /\ IF cal.takes # (n.blk # <<>>)
         THEN Arm(<<"Arguments">>) /\ frames' = Then(<<>>) /\ status' = status
         ELSE IF Reuses(n)
         THEN /\ frames' = [frames EXCEPT ![m] = g]
              /\ unwind' = unwind /\ status' = status
         ELSE PushFrame(f) /\ unwind' = unwind
  BY DEF CallApply, At
<1>2. /\ Starts(f, "Callable", cal.body) /\ f.cal = n.to /\ f.mod = cal.mod
      /\ f.blk = BlockOf(n) /\ f.known = n.known /\ f.plain = (n.blk = <<>>)
  BY DEF Starts, Frame, FrameFields
<1> HIDE DEF f
<1>3. /\ Starts(g, "Callable", cal.body) /\ g.cal = n.to /\ g.mod = cal.mod
      /\ g.blk = BlockOf(n) /\ g.known = Top.known /\ g.plain = Top.plain
  BY <1>2 DEF Starts, FrameFields
<1> HIDE DEF g
<1>4. ControlTypes
  BY <1>1, Dispatched
<1>5. PICK B, T, c : Here(B, T, c)
  BY <1>1, Dispatched
<1>6. NodeAt(n, c)
  BY <1>1, <1>5 DEF Here, ContPlaced, Does
<1>7. /\ n.tail = (c.tail /\ n.blk = <<>>) /\ n.to \in Names /\ c.want # "Never"
      /\ c.want = "Value" /\ n.known => \A k \in Callees(n.to) : k.kind = "Func"
      /\ n.blk # <<>> => BodyAt(n.blk[1], BlockPlace(c))
  BY <1>1, <1>6, OfCall
<1>8. cal \in Callees(n.to)
  BY <1>4, <1>7, CalPlaced DEF ControlTypes
<1>9. CASE cal.takes # (n.blk # <<>>)
  <2>1. frames' = Then(<<>>) /\ unwind' = RaiseOf(<<"Arguments">>) /\ status' = status
    BY <1>1, <1>9 DEF Arm
  <2>2. Kept
    BY <1>1, <1>4, <2>1 DEF Kept, ControlTypes, Nothing
  <2>3. Going(frames, unwind', reg', c)
    BY <2>1, Raises
  <2> QED
    BY <1>1, <1>4, <1>5, <2>1, <2>2, <2>3, NextNone
<1>10. CASE cal.takes = (n.blk # <<>>) /\ Reuses(n)
  <2>1. /\ frames' = [frames EXCEPT ![Len(frames)] = g] /\ unwind' = NoUnwind
        /\ status' = status
    BY <1>1, <1>10
  <2>2. Kept
    BY <1>1, <1>4, <2>1 DEF Kept, ControlTypes, Nothing
  <2>3. g.blk = NoBlock
    BY <1>3, <1>7, <1>10 DEF Reuses, BlockOf
  <2> HIDE DEF n
  <2> QED
    BY <1>1, <1>3, <1>4, <1>5, <1>7, <1>10, <2>1, <2>2, <2>3, ReuseKeeps
<1>11. CASE cal.takes = (n.blk # <<>>) /\ ~ Reuses(n)
  <2> DEFINE p == m + 1
             frs2 == Append(Then(<<>>), f)
             T1 == Upto(T, m, c)
             b == CallablePlace(cal.kind)
             t == AbovePlace(SeqCont(cal.body), b)
             B2 == Upto(B, p, b)
             T2 == Upto(T1, p, t)
  <2>1. ThenOK(<<>>, B, T, c) /\ Then(<<>>)[Len(frames)].conts = Front(Top.conts)
    BY <1>1, <1>5, ThenNone DEF Here
  <2>2. /\ IsSeq(Then(<<>>)) /\ Len(Then(<<>>)) = m
        /\ \A j \in 1 .. m : Alike(Then(<<>>)[j], frames[j])
    BY <2>1, Zenon DEF ThenOK, OneFrame, StackOK
  <2>3. /\ m \in Nat \ {0} /\ Top = frames[m] /\ c \in Place /\ B[m] \in Place
        /\ c.home = B[m].home /\ c.hops = B[m].hops
    BY <1>5, AtTop DEF Here
  <2> HIDE DEF b
  <2>4. p \in Nat \ {0, 1} /\ p - 1 = m /\ m \in 1 .. m
    BY <2>3
  <2>5. /\ frs2[p] = f /\ Alike(frs2[m], Top) /\ frs2[m].conts = Front(Top.conts)
    <3>1. frs2[p] = f /\ \A j \in 1 .. m : frs2[j] = Then(<<>>)[j]
      BY <2>2, SeqAppend
    <3> HIDE DEF frs2
    <3> QED
      BY <2>1, <2>2, <2>3, <2>4, <3>1
  <2> HIDE DEF frs2, t
  <2>6. /\ B2[p] = b /\ \A j \in 1 .. m : B2[j] = B[j]
        /\ T2[p] = t /\ T2[m] = c
    <3>1. T1[m] = c
      <4> HIDE DEF m
      <4> QED
        BY <2>3, UptoLast
    <3> HIDE DEF T1
    <3>2. B2[p] = b /\ T2[p] = t /\ \A j \in 1 .. p - 1 : B2[j] = B[j] /\ T2[j] = T1[j]
      <4> HIDE DEF p
      <4> QED
        BY <2>4, UptoFacts
    <3> QED
      BY <2>4, <3>1, <3>2
  <2>7. p = Len(frames) + 1
    OBVIOUS
  <2> HIDE DEF T1, B2, T2, p
  <2>8. Served(f, T2[p - 1])
    <3>1. cal.kind = "Proc" /\ c.want = "Value" => ~ n.known
      BY <1>7, <1>8
    <3> QED
      BY <1>2, <1>7, <2>4, <2>6, <3>1 DEF Served
  <2>9. ~ Wasted(frs2[p - 1], f)
    BY <1>2, <1>4, <1>5, <1>7, <1>11, <2>4, <2>5, Unwasted DEF Starts
  <2>10. ASSUME f.blk # NoBlock
         PROVE  /\ Linked(frs2, p, f.blk.def, f.blk.act)
                /\ BodyAt(f.blk.body, BlockPlace(B2[f.blk.def]))
    <3>1. n.blk # <<>> /\ f.blk = [k |-> "Block", def |-> m, body |-> n.blk[1], act |-> Top.act]
      BY <1>2, <2>10 DEF BlockOf
    <3>2. f.blk.def = m /\ f.blk.body = n.blk[1] /\ f.blk.act = Top.act
      BY <3>1
    <3>3. Linked(frs2, p, f.blk.def, f.blk.act)
      BY <2>4, <2>5, <3>2 DEF Linked, Alike
    <3>4. BlockPlace(B2[m]) = BlockPlace(c)
      BY <2>3, <2>4, <2>6, BlockPlaceSame
    <3> QED
      BY <1>7, <3>1, <3>2, <3>3, <3>4
  <2>11. FrameOK(frs2, B2, T2, p) /\ T2[p].want = "Any"
    <3>1. B2[p] = CallablePlace(Cal(n.to).kind) /\ T2[p] = AbovePlace(SeqCont(Cal(n.to).body), B2[p])
      BY <2>6 DEF b, t
    <3>2. prog \in Mains
      BY <1>4 DEF ControlTypes
    <3>3. Callee(f, n.to) /\ Bound(frs2, B2, p, f) /\ Awaited(frs2, T2, p, f)
      BY <1>2, <2>8, <2>9, <2>10 DEF Callee, Bound, Awaited
    <3>4. NewAt(frs2, B2, T2, p, f, n.to)
      BY <2>4, <2>5, <3>1 DEF NewAt
    <3> HIDE DEF n
    <3> QED
      BY <1>7, <3>2, <3>3, <3>4, CalleeOK
  <2>12. PushFrame(f) /\ unwind' = NoUnwind /\ reg'.k \in {"Value", "None"}
    BY <1>1, <1>11 DEF Nothing
  <2>13. t.want = "Any" /\ FrameOK(Append(Then(<<>>), f), Upto(B, p, b), Upto(Upto(T, Len(frames), c), p, t), p)
    BY <2>6, <2>11 DEF frs2, T1, B2, T2
  <2> QED
    BY <1>1, <1>4, <1>5, <2>7, <2>12, <2>13, PushOnward
<1> QED
  BY <1>9, <1>10, <1>11

----------------------------------------------------------------------------
(* The invariant, and what follows from it.                                 *)

\* The module starts in order,
LEMMA ControlInit == Init => ControlOK
<1> SUFFICES ASSUME Init PROVE ControlOK
  OBVIOUS
<1> DEFINE f == TopFrame(Start)
           t == AbovePlace(SeqCont(Start), TopPlace)
           B == [i \in 1 .. 1 |-> TopPlace]
           T == [i \in 1 .. 1 |-> t]
<1>1. ControlTypes
  <2>1. Len(frames) = 1 /\ Len(<<>>) = 0
    BY DEF Init
  <2> QED
    BY <2>1, CallsAssumption DEF Init, ControlTypes, Statuses, Nothing
<1>2. BodyAt(Start, TopPlace)
  BY CalleesPlaced, Zenon DEF BodyAt
<1>3. ContPlaced(SeqCont(Start), TopPlace) /\ SeqCont(Start).k = "Seq" /\ t.want = "Any"
      /\ TopPlace \in Place
  BY <1>2, SeqStarts, PlaceOfBody
<1>4. Stands(<<>>, TopPlace, TopPlace) /\ IsSeq(<<>>) /\ Len(<<>>) = 0
  BY <1>3, StandsEmpty DEF IsSeq
<1>5. Stands(Append(<<>>, SeqCont(Start)), TopPlace, t) /\ IsSeq(Append(<<>>, SeqCont(Start)))
  BY <1>3, <1>4, StandsPush, SeqAppend
<1>6. Append(<<>>, SeqCont(Start)) = <<SeqCont(Start)>>
  OBVIOUS
<1>7. /\ DOMAIN f = FrameFields /\ f.kind = "Top" /\ f.conts = <<SeqCont(Start)>> /\ f.blk = NoBlock
  BY DEF TopFrame, Frame, FrameFields
<1>8. Barred(f.conts, 1)
  BY <1>3, <1>7 DEF Barred
<1> HIDE DEF f, t
<1>9. frames = <<f>> /\ Len(frames) = 1 /\ frames[1] = f /\ B[1] = TopPlace /\ T[1] = t /\ IsSeq(frames)
  <2>1. frames = <<f>>
    BY DEF Init, f
  <2>2. <<f>> \in Seq({f}) /\ Len(<<f>>) = 1 /\ <<f>>[1] = f
    OBVIOUS
  <2>3. B[1] = TopPlace /\ T[1] = t
    OBVIOUS
  <2> QED
    BY <2>1, <2>2, <2>3 DEF IsSeq
<1> HIDE DEF B, T
<1>10. Shaped(f, 1) /\ Stands(f.conts, B[1], T[1])
  BY <1>5, <1>6, <1>7, <1>8, <1>9 DEF Shaped
<1>11. FrameOK(frames, B, T, 1)
  BY <1>7, <1>9, <1>10 DEF FrameOK, BasedTop, BasedCallable, BasedBlock, Passed
<1>12. StackOK(frames, B, T)
  BY <1>9, <1>11 DEF StackOK
<1>13. Going(frames, unwind, reg, T[Len(frames)]) /\ frames # <<>>
  <2>1. unwind = NoUnwind
    BY DEF Init
  <2> QED
    BY <1>3, <1>9, <2>1, GoesOn
<1> QED
  BY <1>1, <1>12, <1>13 DEF ControlOK, Control

LEMMA ControlStutter == ControlOK /\ UNCHANGED vars => ControlOK'
<1> SUFFICES ASSUME ControlOK, UNCHANGED vars PROVE ControlOK'
  OBVIOUS
<1>1. ControlTypes
  BY DEF ControlOK
<1>2. PICK B, T : Control(B, T)
  BY DEF ControlOK
<1>3. UNCHANGED <<prog, frames, reg, unwind, status, coins>>
  BY DEF vars
<1> QED
  BY <1>1, <1>2, <1>3, Onward DEF ControlTypes, Control

\* and every step keeps it so.
LEMMA ControlNext == ControlOK /\ [Next]_vars => ControlOK'
<1> SUFFICES ASSUME ControlOK, [Next]_vars PROVE ControlOK'
  OBVIOUS
<1>1. CASE Dispatch
  BY <1>1, SeqStepKeeps, EvalValKeeps, EvalIfKeeps, EvalTryKeeps, CallApplyKeeps,
     BlockApplyKeeps, IfChooseKeeps, WhileCheckKeeps, LoopReloopKeeps, BindLetKeeps,
     WithBindKeeps, WithRestoreKeeps, LeaveTryKeeps, PopHandlerKeeps, RaiseApplyKeeps,
     ReturnBarrierKeeps, ExitApplyKeeps, FinishKeeps, Zenon DEF Dispatch
<1>2. CASE UnwindStep
  BY <1>2, LoopBreakKeeps, LoopContinueKeeps, BlockContinueKeeps, BlockBreakKeeps,
     ReturnKeeps, CatchKeeps, AbandonKeeps, Zenon DEF UnwindStep
<1>3. CASE UNCHANGED vars
  BY <1>3, ControlStutter
<1> QED
  BY <1>1, <1>2, <1>3 DEF Next

\* The control of the machine stays in order: its continuations stand in places
\* that fit, its links lead to live frames below, a caller can use what its
\* callee will hand back, and the target of an exit under way is there.
THEOREM ControlInvariant == Spec => []ControlOK
<1> QED
  BY ControlInit, ControlNext, PTL DEF Spec

\* The invariant has that tail calls take no stack,
LEMMA TailsProper == ControlOK => ProperTails
<1> SUFFICES ASSUME ControlOK, NEW i \in 2 .. Len(frames)
             PROVE  ~ Wasted(frames[i - 1], frames[i])
  BY DEF ProperTails, Wasted
<1>1. PICK B, T : Control(B, T)
  BY DEF ControlOK
<1>2. StackOK(frames, B, T) /\ Len(frames) \in Nat
  BY <1>1, SeqFacts DEF Control, StackOK
<1>3. i \in 1 .. Len(frames) /\ i # 1
  BY <1>2
<1> QED
  BY <1>2, <1>3 DEF StackOK, FrameOK

\* Tail calls take no stack: a callable that has only to hand on the result of
\* a plain call of its own kind is never still there while the callee runs.
THEOREM TailCallsTakeNoStack == Spec => []ProperTails
<1> QED
  BY ControlInvariant, TailsProper, PTL

\* and that links are live.
LEMMA LinksAreLive == ControlOK => LinksLive
<1> SUFFICES ASSUME ControlOK, NEW i \in DOMAIN frames
             PROVE  /\ frames[i].kind = "Block" =>
                         /\ Linked(frames, i, frames[i].def, frames[i].defact)
                         /\ Linked(frames, i, frames[i].consumer, frames[i].consact)
                    /\ frames[i].blk # NoBlock =>
                         Linked(frames, i, frames[i].blk.def, frames[i].blk.act)
  BY Zenon DEF LinksLive, Linked
<1>1. PICK B, T : Control(B, T)
  BY DEF ControlOK
<1>2. StackOK(frames, B, T) /\ DOMAIN frames = 1 .. Len(frames)
  BY <1>1, SeqFacts DEF Control, StackOK
<1>3. FrameOK(frames, B, T, i)
  BY <1>2 DEF StackOK
<1> QED
  BY <1>3 DEF FrameOK, BasedBlock, Passed

----------------------------------------------------------------------------
(* The value checks only fail on what the resolver could not see.           *)

\* A check fails: a bare raise is not one.
Fails ==
  /\ unwind = NoUnwind /\ unwind' \in {RaiseOf(<<"FellOff">>), RaiseOf(<<"NoValue">>)}
  /\ ~ Rethrows
Excused == reg.k = "None" /\ reg.why \in {"Unknown", "Block", "Exit"}

\* A missing value is refused only where the resolver could not see it,
LEMMA RefuseExcused ==
  ASSUME ControlOK, status = "Running", unwind = NoUnwind, Top.conts # <<>>,
         \/ Cont.k \in {"BindLet", "WithBind"}
         \/ Cont.k \in {"RaiseApply", "ExitApply"} /\ Cont.node.op # <<>>,
         Refuse
  PROVE  Excused
<1>1. PICK B, T, c : /\ Here(B, T, c)
                     /\ AbovePlace(Cont, c).want = "Value" => Usable(reg)
  BY Dispatched
<1>2. c \in Place
  BY <1>1 DEF Here
<1>3. AbovePlace(Cont, c).want = "Value"
  <2>1. CASE Cont.k \in {"BindLet", "WithBind"}
    <3>1. AbovePlace(Cont, c) = OperandPlace(c, FALSE)
      BY <2>1 DEF AbovePlace
    <3> QED
      BY <1>2, <3>1 DEF OperandPlace, Place
  <2>2. CASE Cont.k \in {"RaiseApply", "ExitApply"} /\ Cont.node.op # <<>>
    <3>1. AbovePlace(Cont, c) = [c EXCEPT !.tail = (Cont.node.k = "Return" /\ c.ret),
                                          !.want = IF Cont.node.op = <<>> THEN "Any" ELSE "Value"]
      BY <2>2 DEF AbovePlace
    <3>2. PICK w : w = IF Cont.node.op = <<>> THEN "Any" ELSE "Value"
      OBVIOUS
    <3>3. PICK r : r = (Cont.node.k = "Return" /\ c.ret)
      OBVIOUS
    <3>4. AbovePlace(Cont, c) = [c EXCEPT !.tail = r, !.want = w]
      BY <3>1, <3>2, <3>3
    <3> QED
      BY <1>2, <2>2, <3>2, <3>4 DEF Place
  <2> QED
    BY <2>1, <2>2
<1> QED
  BY <1>1, <1>3 DEF Excused, Usable, Refuse, Takes

\* at the end of a callable as well.
LEMMA BarrierExcused ==
  ASSUME ControlOK, ReturnBarrier, Fails
  PROVE  Excused
<1> DEFINE kind == IF Top.kind = "Block" THEN "Block" ELSE Cal(Top.cal).kind
<1>1. /\ status = "Running" /\ unwind = NoUnwind /\ Top.conts # <<>> /\ Cont.k = "ReturnBarrier"
      /\ unwind' = (IF kind = "Func" /\ ~Takes THEN RaiseOf(<<"FellOff">>) ELSE unwind)
  BY DEF ReturnBarrier, At
<1>2. ControlTypes
  BY <1>1, Dispatched
<1>3. PICK B, T, c : /\ Here(B, T, c)
                     /\ AbovePlace(Cont, c).want = "Value" => Usable(reg)
  BY <1>1, Dispatched
<1>4. kind = "Func" /\ ~ Takes
  BY <1>1 DEF Fails, NoUnwind, RaiseOf
<1>5. Len(frames) \in Nat \ {0, 1} /\ StackOK(frames, B, T) /\ T[Len(frames)] = B[Len(frames)]
  BY <1>1, <1>3, AtBarrier DEF Here
<1>6. Top.kind = "Callable" /\ Cal(Top.cal).kind = "Func"
  BY <1>2, <1>4, <1>5, CallerWants
<1>7. B[Len(frames)].want = "Value"
  BY <1>2, <1>5, <1>6, CallerWants
<1>8. AbovePlace(Cont, c).want = "Value"
  BY <1>3, <1>5, <1>7 DEF Here
<1> QED
  BY <1>3, <1>4, <1>8 DEF Excused, Usable, Takes

\* Only these steps fail a check.
LEMMA FailsExcused ==
  ASSUME ControlOK, Next, Fails
  PROVE  Excused
<1>1. unwind = NoUnwind /\ unwind' # NoUnwind
  BY DEF Fails, NoUnwind, RaiseOf
<1>2. CASE UnwindStep
  BY <1>1, <1>2 DEF UnwindStep, LoopBreak, LoopContinue, BlockContinue, BlockBreak, Return,
                    Catch, Abandon, Unwinding, NoUnwind
<1>3. CASE SeqStep \/ EvalVal \/ EvalIf \/ EvalTry \/ IfChoose \/ WhileCheck \/ LoopReloop
           \/ WithRestore \/ LeaveTry \/ PopHandler \/ Finish
  BY <1>1, <1>3 DEF SeqStep, EvalVal, EvalIf, EvalTry, IfChoose, WhileCheck, LoopReloop,
                    WithRestore, LeaveTry, PopHandler, Finish
<1>4. CASE BindLet \/ WithBind
  <2>1. /\ status = "Running" /\ Top.conts # <<>> /\ Cont.k \in {"BindLet", "WithBind"}
        /\ Refuse \/ unwind' = unwind
    BY <1>4 DEF BindLet, WithBind, At
  <2> QED
    BY <1>1, <2>1, RefuseExcused
<1>5. CASE RaiseApply
  <2>1. status = "Running" /\ Top.conts # <<>> /\ Cont.k = "RaiseApply"
    BY <1>5 DEF RaiseApply, At
  <2>2. Cont.node.op # <<>>
    BY <2>1 DEF Fails, Rethrows
  <2>3. Refuse \/ unwind' = RaiseOf(<<"User", reg.v>>)
    BY <1>5, <2>2 DEF RaiseApply
  <2>4. unwind' # RaiseOf(<<"User", reg.v>>)
    <3>1. \A x, y : RaiseOf(x) = RaiseOf(y) => x = y
      BY DEF RaiseOf
    <3>2. <<"User", reg.v>> # <<"FellOff">> /\ <<"User", reg.v>> # <<"NoValue">>
      <4>1. <<"User", reg.v>>[1] = "User" /\ <<"FellOff">>[1] = "FellOff" /\ <<"NoValue">>[1] = "NoValue"
        OBVIOUS
      <4> QED
        BY <4>1
    <3> QED
      BY <3>1, <3>2 DEF Fails
  <2> QED
    BY <1>1, <2>1, <2>2, <2>3, <2>4, RefuseExcused
<1>6. CASE CallApply \/ BlockApply
  <2>1. unwind' \in {unwind, RaiseOf(<<"Arguments">>), RaiseOf(<<"NoBlock">>)}
    BY <1>6 DEF CallApply, BlockApply, Arm
  <2>2. \A x, y : RaiseOf(x) = RaiseOf(y) => x = y
    BY DEF RaiseOf
  <2>3. /\ <<"Arguments">>[1] = "Arguments" /\ <<"NoBlock">>[1] = "NoBlock"
        /\ <<"FellOff">>[1] = "FellOff" /\ <<"NoValue">>[1] = "NoValue"
    OBVIOUS
  <2> QED
    BY <1>1, <2>1, <2>2, <2>3 DEF Fails
<1>7. CASE ReturnBarrier
  BY <1>7, BarrierExcused
<1>8. CASE ExitApply
  <2>1. status = "Running" /\ Top.conts # <<>> /\ Cont.k = "ExitApply"
    BY <1>8 DEF ExitApply, At
  <2>2. CASE Cont.node.op # <<>> /\ Refuse
    BY <1>1, <2>1, <2>2, RefuseExcused
  <2>3. CASE \/ unwind' \in {unwind, RaiseOf(<<"NoDestination">>)}
             \/ \E v : unwind' = ExitUnwind(Cont.node, v)
    <3>1. PICK B, T, c : Here(B, T, c)
      BY <1>1, <2>1, Dispatched
    <3>2. NodeAt(Cont.node, c) /\ Cont.node.k \in Exits
      BY <2>1, <3>1 DEF Here, ContPlaced, Does
    <3>3. ExitPlaced(Cont.node, c)
      BY <3>2, OfExit
    <3>4. \A v : ExitUnwind(Cont.node, v).k # "Raise"
      BY <3>2, <3>3 DEF ExitUnwind, ExitPlaced, Exits
    <3>5. \A x, y : RaiseOf(x).k = "Raise" /\ (RaiseOf(x) = RaiseOf(y) => x = y)
      BY DEF RaiseOf
    <3>6. /\ <<"NoDestination">>[1] = "NoDestination"
          /\ <<"FellOff">>[1] = "FellOff" /\ <<"NoValue">>[1] = "NoValue"
      OBVIOUS
    <3> QED
      BY <1>1, <2>3, <3>4, <3>5, <3>6 DEF Fails
  <2> QED
    BY <1>8, <2>2, <2>3, Zenon DEF ExitApply
<1> QED
  BY <1>2, <1>3, <1>4, <1>5, <1>6, <1>7, <1>8 DEF Next, Dispatch

\* The value checks the machine makes when it runs only fail on what the
\* resolver could not see: a callee it did not know, a block's own value, an
\* exit without one.
THEOREM ChecksFailForCause == Spec => StaticChecksSound
<1>1. ControlOK /\ [Next]_vars => [Fails => Excused]_vars
  BY FailsExcused
<1>2. [][Fails => Excused]_vars => StaticChecksSound
  BY PTL DEF StaticChecksSound, Fails, Excused
<1> QED
  BY <1>1, <1>2, ControlInvariant, PTL DEF Spec

----------------------------------------------------------------------------
(* What the continuations hold open: how many bindings and exceptions there *)
(* are below each, counted from the bottom of the stack.                    *)

\* k takes the counts from d and h to e and g.
Opens(k, d, h, e, g) ==
  /\ e = IF k.k = "WithRestore" THEN d + 1 ELSE d
  /\ g = IF k.k = "PopHandler" THEN h + 1 ELSE h
  /\ k.k = "WithRestore" => k.mark = d

\* D and H count the bindings and the exceptions below each continuation.
Counted(D, H, cs) ==
  /\ D \in [1 .. Len(cs) + 1 -> Nat] /\ H \in [1 .. Len(cs) + 1 -> Nat]
  /\ \A i \in 1 .. Len(cs) : Opens(cs[i], D[i], H[i], D[i + 1], H[i + 1])
\* cs takes the counts from d and h to e and g.
Levels(cs, d, h, e, g) ==
  \E D, H : /\ Counted(D, H, cs) /\ D[1] = d /\ H[1] = h
            /\ D[Len(cs) + 1] = e /\ H[Len(cs) + 1] = g

\* The marks and the rescue bodies above the ith continuation.
MarksFrom(cs, i) == {cs[j].mark : j \in {l \in i + 1 .. Len(cs) : cs[l].k = "WithRestore"}}
HandlersFrom(cs, i) == {j \in i + 1 .. Len(cs) : cs[j].k = "PopHandler"}

LEMMA LevelsFacts ==
  ASSUME NEW cs, IsSeq(cs), NEW d, NEW h, NEW e, NEW g, Levels(cs, d, h, e, g)
  PROVE  d \in Nat /\ h \in Nat /\ e \in Nat /\ g \in Nat
<1>1. PICK D, H : /\ Counted(D, H, cs) /\ D[1] = d /\ H[1] = h
                  /\ D[Len(cs) + 1] = e /\ H[Len(cs) + 1] = g
  BY DEF Levels
<1>2. 1 \in 1 .. Len(cs) + 1 /\ Len(cs) + 1 \in 1 .. Len(cs) + 1
  BY SeqFacts
<1> QED
  BY <1>1, <1>2 DEF Counted

\* No continuation leaves the counts as they are.
LEMMA LevelsEmpty ==
  ASSUME NEW d \in Nat, NEW h \in Nat
  PROVE  Levels(<<>>, d, h, d, h)
<1> DEFINE D == [i \in 1 .. Len(<<>>) + 1 |-> d]
           H == [i \in 1 .. Len(<<>>) + 1 |-> h]
<1>1. Len(<<>>) = 0
  OBVIOUS
<1>2. /\ Counted(D, H, <<>>) /\ D[1] = d /\ H[1] = h
      /\ D[Len(<<>>) + 1] = d /\ H[Len(<<>>) + 1] = h
  BY <1>1 DEF Counted
<1> HIDE DEF D, H
<1> QED
  BY <1>2 DEF Levels

LEMMA LevelsNone ==
  ASSUME NEW d, NEW h, NEW e, NEW g, Levels(<<>>, d, h, e, g)
  PROVE  d = e /\ h = g
<1>1. Len(<<>>) + 1 = 1
  OBVIOUS
<1> QED
  BY <1>1 DEF Levels

\* One more takes them on,
LEMMA LevelsPush ==
  ASSUME NEW cs, IsSeq(cs), NEW d, NEW h, NEW e, NEW g, Levels(cs, d, h, e, g),
         NEW k, NEW x \in Nat, NEW y \in Nat, Opens(k, e, g, x, y)
  PROVE  Levels(Append(cs, k), d, h, x, y)
<1>1. PICK D, H : /\ Counted(D, H, cs) /\ D[1] = d /\ H[1] = h
                  /\ D[Len(cs) + 1] = e /\ H[Len(cs) + 1] = g
  BY DEF Levels
<1> DEFINE n == Len(cs)
           ks == Append(cs, k)
           D2 == [i \in 1 .. n + 2 |-> IF i = n + 2 THEN x ELSE D[i]]
           H2 == [i \in 1 .. n + 2 |-> IF i = n + 2 THEN y ELSE H[i]]
<1>2. n \in Nat /\ Len(ks) = n + 1 /\ ks[n + 1] = k /\ \A i \in 1 .. n : ks[i] = cs[i]
  BY SeqFacts, SeqAppend
<1>3. n + 1 + 1 = n + 2 /\ n + 2 \in 1 .. n + 2 /\ n + 2 # 1
  BY <1>2
<1>4. /\ D2[n + 2] = x /\ H2[n + 2] = y
      /\ \A i \in 1 .. n + 1 : D2[i] = D[i] /\ H2[i] = H[i]
  BY <1>2, <1>3
<1>5. D2 \in [1 .. n + 2 -> Nat] /\ H2 \in [1 .. n + 2 -> Nat]
  BY <1>1, <1>2 DEF Counted
<1> HIDE DEF D2, H2, ks
<1>6. ASSUME NEW i \in 1 .. n
      PROVE  Opens(ks[i], D2[i], H2[i], D2[i + 1], H2[i + 1])
  <2>1. Opens(cs[i], D[i], H[i], D[i + 1], H[i + 1])
    BY <1>1 DEF Counted
  <2>2. i \in 1 .. n + 1 /\ i + 1 \in 1 .. n + 1
    BY <1>2
  <2> QED
    BY <1>2, <1>4, <2>1, <2>2
<1>7. ASSUME NEW i \in 1 .. n + 1
      PROVE  Opens(ks[i], D2[i], H2[i], D2[i + 1], H2[i + 1])
  <2>1. CASE i = n + 1
    <3>1. n + 1 \in 1 .. n + 1
      BY <1>2
    <3> QED
      BY <1>1, <1>2, <1>3, <1>4, <2>1, <3>1
  <2>2. CASE i # n + 1
    <3>1. i \in 1 .. n
      BY <1>2, <2>2
    <3> QED
      BY <1>6, <3>1
  <2> QED
    BY <2>1, <2>2
<1>8. Counted(D2, H2, ks)
  BY <1>2, <1>3, <1>5, <1>7 DEF Counted
<1>9. D2[1] = d /\ H2[1] = h /\ D2[Len(ks) + 1] = x /\ H2[Len(ks) + 1] = y
  <2>1. 1 \in 1 .. n + 1
    BY <1>2
  <2> QED
    BY <1>1, <1>2, <1>3, <1>4, <2>1
<1>10. Levels(ks, d, h, x, y)
  BY <1>8, <1>9 DEF Levels
<1> QED
  BY <1>10 DEF ks

\* A continuation that opens nothing.
LEMMA LevelsPlainPush ==
  ASSUME NEW cs, IsSeq(cs), NEW d, NEW h, NEW e, NEW g, Levels(cs, d, h, e, g),
         NEW k, k.k \notin {"WithRestore", "PopHandler"}
  PROVE  Levels(Append(cs, k), d, h, e, g)
<1>1. Opens(k, e, g, e, g)
  BY DEF Opens
<1> QED
  BY <1>1, LevelsFacts, LevelsPush

\* The elements of two sequences put together.
LEMMA SeqJoined ==
  ASSUME NEW s, IsSeq(s), NEW t, IsSeq(t)
  PROVE  /\ IsSeq(s \o t) /\ Len(s \o t) = Len(s) + Len(t)
         /\ \A i \in 1 .. Len(s) : (s \o t)[i] = s[i]
         /\ \A i \in Len(s) + 1 .. Len(s) + Len(t) : (s \o t)[i] = t[i - Len(s)]
<1>1. PICK S : s \in Seq(S)
  BY DEF IsSeq
<1>2. PICK T : t \in Seq(T)
  BY DEF IsSeq
<1> DEFINE R == S \cup T
<1>3. s \in Seq(R) /\ t \in Seq(R) /\ Len(s) \in Nat /\ Len(t) \in Nat
  BY <1>1, <1>2, SeqMonotonic, SeqFacts
<1> HIDE DEF R
<1>4. /\ s \o t \in Seq(R) /\ Len(s \o t) = Len(s) + Len(t)
      /\ \A i \in 1 .. Len(s) + Len(t) :
           (s \o t)[i] = IF i <= Len(s) THEN s[i] ELSE t[i - Len(s)]
  BY <1>3, ConcatProperties
<1>5. \A i \in 1 .. Len(s) : i \in 1 .. Len(s) + Len(t) /\ i <= Len(s)
  BY <1>3
<1>6. \A i \in Len(s) + 1 .. Len(s) + Len(t) : i \in 1 .. Len(s) + Len(t) /\ ~ (i <= Len(s))
  BY <1>3
<1> QED
  BY <1>4, <1>5, <1>6 DEF IsSeq

\* Continuations that open nothing.
PlainKind(k) == k.k \notin {"WithRestore", "PopHandler"}
Plain(ks) == IsSeq(ks) /\ \A i \in 1 .. Len(ks) : PlainKind(ks[i])

LEMMA LevelsJoin ==
  ASSUME NEW cs, IsSeq(cs), NEW d, NEW h, NEW e, NEW g, Levels(cs, d, h, e, g),
         NEW ks, Plain(ks)
  PROVE  Levels(cs \o ks, d, h, e, g)
<1>1. PICK D, H : /\ Counted(D, H, cs) /\ D[1] = d /\ H[1] = h
                  /\ D[Len(cs) + 1] = e /\ H[Len(cs) + 1] = g
  BY DEF Levels
<1> DEFINE n == Len(cs)
           m == n + Len(ks)
           ls == cs \o ks
           D2 == [i \in 1 .. m + 1 |-> IF i <= n THEN D[i] ELSE e]
           H2 == [i \in 1 .. m + 1 |-> IF i <= n THEN H[i] ELSE g]
<1>2. n \in Nat /\ Len(ks) \in Nat /\ m \in Nat
  BY SeqFacts DEF Plain
<1>3. /\ Len(ls) = m /\ \A i \in 1 .. n : ls[i] = cs[i]
      /\ \A i \in n + 1 .. m : ls[i] = ks[i - n]
  BY SeqJoined DEF Plain
<1> HIDE DEF ls
<1>4. e \in Nat /\ g \in Nat
  BY LevelsFacts
<1>5. /\ \A i \in 1 .. n + 1 : D2[i] = D[i] /\ H2[i] = H[i]
      /\ \A i \in n + 1 .. m + 1 : D2[i] = e /\ H2[i] = g
  BY <1>1, <1>2
<1>6. D2 \in [1 .. m + 1 -> Nat] /\ H2 \in [1 .. m + 1 -> Nat]
  BY <1>1, <1>2, <1>4 DEF Counted
<1> HIDE DEF D2, H2
<1>7. ASSUME NEW i \in 1 .. m
      PROVE  Opens(ls[i], D2[i], H2[i], D2[i + 1], H2[i + 1])
  <2>1. CASE i <= n
    <3>1. i \in 1 .. n /\ i \in 1 .. n + 1 /\ i + 1 \in 1 .. n + 1
      BY <1>2, <2>1
    <3>2. Opens(cs[i], D[i], H[i], D[i + 1], H[i + 1])
      BY <1>1, <3>1 DEF Counted
    <3> QED
      BY <1>3, <1>5, <3>1, <3>2
  <2>2. CASE ~ (i <= n)
    <3>1. /\ i \in n + 1 .. m /\ i \in n + 1 .. m + 1 /\ i + 1 \in n + 1 .. m + 1
          /\ i - n \in 1 .. Len(ks)
      BY <1>2, <2>2
    <3>2. PlainKind(ls[i])
      BY <1>3, <3>1 DEF Plain
    <3> QED
      BY <1>5, <3>1, <3>2 DEF PlainKind, Opens
  <2> QED
    BY <2>1, <2>2
<1>8. Counted(D2, H2, ls)
  BY <1>3, <1>6, <1>7 DEF Counted
<1>9. D2[1] = d /\ H2[1] = h /\ D2[Len(ls) + 1] = e /\ H2[Len(ls) + 1] = g
  <2>1. 1 \in 1 .. n + 1 /\ m + 1 \in n + 1 .. m + 1
    BY <1>2
  <2> QED
    BY <1>1, <1>3, <1>5, <2>1
<1>10. Levels(ls, d, h, e, g)
  BY <1>8, <1>9 DEF Levels
<1> QED
  BY <1>10 DEF ls

\* What is open above a continuation is what the counts say.
LEMMA LevelsAbove ==
  ASSUME NEW cs, IsSeq(cs), NEW D, NEW H, Counted(D, H, cs), NEW i \in 0 .. Len(cs)
  PROVE  /\ D[i + 1] \in Nat /\ D[i + 1] <= D[Len(cs) + 1]
         /\ H[i + 1] \in Nat /\ H[i + 1] <= H[Len(cs) + 1]
         /\ MarksFrom(cs, i) = D[i + 1] .. D[Len(cs) + 1] - 1
         /\ IsFiniteSet(HandlersFrom(cs, i))
         /\ Cardinality(HandlersFrom(cs, i)) = H[Len(cs) + 1] - H[i + 1]
<1> DEFINE n == Len(cs)
           Good(j) == /\ D[j + 1] \in Nat /\ D[j + 1] <= D[n + 1]
                      /\ H[j + 1] \in Nat /\ H[j + 1] <= H[n + 1]
                      /\ MarksFrom(cs, j) = D[j + 1] .. D[n + 1] - 1
                      /\ IsFiniteSet(HandlersFrom(cs, j))
                      /\ Cardinality(HandlersFrom(cs, j)) = H[n + 1] - H[j + 1]
           S == {l \in Nat : l <= n /\ Good(n - l)}
<1>1. n \in Nat
  BY SeqFacts
<1>2. \A j \in 0 .. n : D[j + 1] \in Nat /\ H[j + 1] \in Nat
  <2>1. \A j \in 0 .. n : j + 1 \in 1 .. n + 1
    BY <1>1
  <2> QED
    BY <2>1 DEF Counted
<1>3. 0 \in S
  <2>1. n \in 0 .. n /\ n - 0 = n /\ n + 1 .. n = {}
    BY <1>1
  <2>2. MarksFrom(cs, n) = {} /\ HandlersFrom(cs, n) = {}
    BY <2>1 DEF MarksFrom, HandlersFrom
  <2>3. D[n + 1] .. D[n + 1] - 1 = {} /\ H[n + 1] - H[n + 1] = 0
    BY <1>2, <2>1
  <2>4. IsFiniteSet(HandlersFrom(cs, n)) /\ Cardinality(HandlersFrom(cs, n)) = 0
    BY <2>2, FS_EmptySet
  <2>5. D[n + 1] \in Nat /\ H[n + 1] \in Nat /\ n \in Nat /\ 0 <= n
    BY <1>1, <1>2, <2>1
  <2>6. Good(n)
    <3> HIDE DEF n
    <3>1. D[n + 1] <= D[n + 1] /\ H[n + 1] <= H[n + 1]
      BY <2>5
    <3> QED
      BY <2>2, <2>3, <2>4, <2>5, <3>1
  <2> HIDE DEF Good, n
  <2> QED
    BY <2>1, <2>5, <2>6
<1>4. ASSUME NEW l \in 1 .. n, l - 1 \in S
      PROVE  l \in S
  <2> DEFINE j == n - l
             a == D[j + 1]
             b == D[j + 2]
             p == H[j + 1]
             q == H[j + 2]
             k == cs[j + 1]
  <2>1. j \in 0 .. n /\ j + 1 \in 0 .. n /\ j + 1 \in 1 .. n /\ n - (l - 1) = j + 1 /\ j + 1 + 1 = j + 2
    BY <1>1
  <2>2. Good(j + 1)
    <3>1. Good(n - (l - 1))
      BY <1>4
    <3> HIDE DEF Good
    <3> QED
      BY <2>1, <3>1
  <2>3. a \in Nat /\ b \in Nat /\ p \in Nat /\ q \in Nat /\ D[n + 1] \in Nat /\ H[n + 1] \in Nat
    <3>1. n \in 0 .. n
      BY <1>1
    <3> QED
      BY <1>2, <2>1, <3>1
  <2>4. Opens(k, a, p, b, q)
    BY <2>1 DEF Counted
  <2>5. j + 1 .. n = {j + 1} \cup (j + 2 .. n) /\ j + 1 \notin j + 2 .. n
    BY <1>1, <2>1
  <2>6. MarksFrom(cs, j) = MarksFrom(cs, j + 1) \cup (IF k.k = "WithRestore" THEN {k.mark} ELSE {})
    BY <2>1, <2>5 DEF MarksFrom
  <2>7. HandlersFrom(cs, j) =
          IF k.k = "PopHandler" THEN HandlersFrom(cs, j + 1) \cup {j + 1} ELSE HandlersFrom(cs, j + 1)
    BY <2>1, <2>5 DEF HandlersFrom
  <2>8. j + 1 \notin HandlersFrom(cs, j + 1)
    BY <2>1, <2>5 DEF HandlersFrom
  <2>9. /\ b <= D[n + 1] /\ q <= H[n + 1] /\ MarksFrom(cs, j + 1) = b .. D[n + 1] - 1
        /\ IsFiniteSet(HandlersFrom(cs, j + 1))
        /\ Cardinality(HandlersFrom(cs, j + 1)) = H[n + 1] - q
    BY <2>1, <2>2
  <2>10. a <= D[n + 1] /\ MarksFrom(cs, j) = a .. D[n + 1] - 1
    <3>1. CASE k.k = "WithRestore"
      <4>1. b = a + 1 /\ k.mark = a
        BY <2>4, <3>1 DEF Opens
      <4>2. MarksFrom(cs, j) = (b .. D[n + 1] - 1) \cup {a}
        BY <2>6, <2>9, <3>1, <4>1
      <4>3. PICK z : z = D[n + 1]
        OBVIOUS
      <4>4. a \in Nat /\ z \in Nat /\ b = a + 1 /\ b <= z /\ MarksFrom(cs, j) = (b .. z - 1) \cup {a}
        BY <2>3, <2>9, <4>1, <4>2, <4>3
      <4> HIDE DEF a, b, j
      <4>5. a <= z /\ (b .. z - 1) \cup {a} = a .. z - 1
        BY <4>4
      <4> QED
        BY <4>3, <4>4, <4>5
    <3>2. CASE k.k # "WithRestore"
      <4>1. b = a
        BY <2>4, <3>2 DEF Opens
      <4> QED
        BY <2>6, <2>9, <3>2, <4>1
    <3> QED
      BY <3>1, <3>2
  <2>11. /\ p <= H[n + 1] /\ IsFiniteSet(HandlersFrom(cs, j))
         /\ Cardinality(HandlersFrom(cs, j)) = H[n + 1] - p
    <3>1. CASE k.k = "PopHandler"
      <4>1. q = p + 1
        BY <2>4, <3>1 DEF Opens
      <4>2. /\ IsFiniteSet(HandlersFrom(cs, j))
            /\ Cardinality(HandlersFrom(cs, j)) = Cardinality(HandlersFrom(cs, j + 1)) + 1
        BY <2>7, <2>8, <2>9, <3>1, FS_AddElement
      <4> HIDE DEF p, q
      <4> QED
        BY <2>3, <2>9, <4>1, <4>2
    <3>2. CASE k.k # "PopHandler"
      <4>1. q = p
        BY <2>4, <3>2 DEF Opens
      <4> QED
        BY <2>7, <2>9, <3>2, <4>1
    <3> QED
      BY <3>1, <3>2
  <2>12. Good(j)
    BY <2>3, <2>10, <2>11
  <2> HIDE DEF Good
  <2> QED
    BY <2>12
<1> HIDE DEF Good
<1>5. \A l \in 0 .. n : l \in S
  <2> HIDE DEF S, n
  <2> QED
    BY <1>1, <1>3, <1>4, Counting
<1>6. n - i \in 0 .. n /\ n - (n - i) = i
  BY <1>1
<1>7. Good(i)
  <2>1. n - i \in S
    BY <1>5, <1>6
  <2> QED
    BY <1>6, <2>1
<1> QED
  BY <1>7 DEF Good


LEMMA LevelsCut ==
  ASSUME NEW cs, IsSeq(cs), NEW d, NEW h, NEW e, NEW g, Levels(cs, d, h, e, g),
         NEW i \in 0 .. Len(cs), NEW ks, IsSeq(ks), Len(ks) = i,
         \A j \in 1 .. i : ks[j] = cs[j]
  PROVE  \E x, y :
           /\ Levels(ks, d, h, x, y) /\ x \in 0 .. e /\ y \in 0 .. g
           /\ MarksFrom(cs, i) = x .. e - 1
           /\ IsFiniteSet(HandlersFrom(cs, i)) /\ Cardinality(HandlersFrom(cs, i)) = g - y
           /\ i = Len(cs) - 1 => Opens(cs[Len(cs)], x, y, e, g)
<1>1. PICK D, H : /\ Counted(D, H, cs) /\ D[1] = d /\ H[1] = h
                  /\ D[Len(cs) + 1] = e /\ H[Len(cs) + 1] = g
  BY DEF Levels
<1>2. Len(cs) \in Nat /\ e \in Nat /\ g \in Nat
  BY SeqFacts, LevelsFacts
<1> DEFINE x == D[i + 1]
           y == H[i + 1]
           D2 == [j \in 1 .. i + 1 |-> D[j]]
           H2 == [j \in 1 .. i + 1 |-> H[j]]
<1>3. /\ x \in Nat /\ x <= e /\ y \in Nat /\ y <= g /\ MarksFrom(cs, i) = x .. e - 1
      /\ IsFiniteSet(HandlersFrom(cs, i)) /\ Cardinality(HandlersFrom(cs, i)) = g - y
  BY <1>1, LevelsAbove
<1>4. \A j \in 1 .. i + 1 : D2[j] = D[j] /\ H2[j] = H[j] /\ D[j] \in Nat /\ H[j] \in Nat
  <2>1. \A j \in 1 .. i + 1 : j \in 1 .. Len(cs) + 1
    BY <1>2
  <2> QED
    BY <1>1, <2>1 DEF Counted
<1>5. D2 \in [1 .. i + 1 -> Nat] /\ H2 \in [1 .. i + 1 -> Nat]
  BY <1>4
<1> HIDE DEF D2, H2
<1>6. ASSUME NEW j \in 1 .. i
      PROVE  Opens(ks[j], D2[j], H2[j], D2[j + 1], H2[j + 1])
  <2>1. j \in 1 .. Len(cs) /\ j \in 1 .. i + 1 /\ j + 1 \in 1 .. i + 1
    BY <1>2
  <2>2. Opens(cs[j], D[j], H[j], D[j + 1], H[j + 1])
    BY <1>1, <2>1 DEF Counted
  <2> QED
    BY <1>4, <2>1, <2>2
<1>7. Counted(D2, H2, ks)
  BY <1>5, <1>6 DEF Counted
<1>8. D2[1] = d /\ H2[1] = h /\ D2[Len(ks) + 1] = x /\ H2[Len(ks) + 1] = y
  <2>1. 1 \in 1 .. i + 1 /\ i + 1 \in 1 .. i + 1
    BY <1>2
  <2> QED
    BY <1>1, <1>4, <2>1
<1>9. Levels(ks, d, h, x, y)
  BY <1>7, <1>8 DEF Levels
<1>10. i = Len(cs) - 1 => Opens(cs[Len(cs)], x, y, e, g)
  <2>1. ASSUME i = Len(cs) - 1
        PROVE  Len(cs) \in 1 .. Len(cs) /\ i + 1 = Len(cs)
    BY <1>2, <2>1
  <2> QED
    BY <1>1, <2>1 DEF Counted
<1>11. x \in 0 .. e /\ y \in 0 .. g
  BY <1>2, <1>3
<1> QED
  BY <1>3, <1>9, <1>10, <1>11

\* and the last one took them to where they are.
LEMMA LevelsPop ==
  ASSUME NEW cs, IsSeq(cs), cs # <<>>, NEW d, NEW h, NEW e, NEW g, Levels(cs, d, h, e, g)
  PROVE  \E x, y : /\ Levels(Front(cs), d, h, x, y) /\ x \in 0 .. e /\ y \in 0 .. g
                   /\ Opens(cs[Len(cs)], x, y, e, g)
<1>1. /\ IsSeq(Front(cs)) /\ Len(Front(cs)) = Len(cs) - 1
      /\ \A j \in 1 .. Len(cs) - 1 : Front(cs)[j] = cs[j]
  BY SeqFront
<1>2. Len(cs) - 1 \in 0 .. Len(cs)
  BY SeqFacts
<1> QED
  BY <1>1, <1>2, LevelsCut

\* Nothing plain is counted.
LEMMA LevelsPlain ==
  ASSUME NEW cs, Plain(cs), NEW d, NEW h, NEW e, NEW g, Levels(cs, d, h, e, g)
  PROVE  d = e /\ h = g
<1>1. IsSeq(cs) /\ Len(cs) \in Nat /\ 0 \in 0 .. Len(cs)
  BY SeqFacts DEF Plain
<1>2. IsSeq(<<>>) /\ Len(<<>>) = 0
  BY DEF IsSeq
<1>3. MarksFrom(cs, 0) = {} /\ HandlersFrom(cs, 0) = {}
  <2>1. 0 + 1 = 1
    OBVIOUS
  <2> QED
    BY <2>1 DEF MarksFrom, HandlersFrom, Plain, PlainKind
<1>4. PICK x, y : /\ Levels(<<>>, d, h, x, y) /\ x \in 0 .. e /\ y \in 0 .. g
                  /\ MarksFrom(cs, 0) = x .. e - 1
                  /\ Cardinality(HandlersFrom(cs, 0)) = g - y
  BY <1>1, <1>2, LevelsCut
<1>5. x = d /\ y = h
  BY <1>4, LevelsNone
<1>6. e \in Nat /\ g \in Nat
  BY <1>1, LevelsFacts
<1>7. Cardinality(HandlersFrom(cs, 0)) = 0
  BY <1>3, FS_EmptySet
<1>8. e = x
  <2>1. x .. e - 1 = {}
    BY <1>3, <1>4, Zenon
  <2>2. x \in Nat /\ x <= e
    BY <1>4, <1>6
  <2>3. x < e => x \in x .. e - 1
    BY <1>6, <2>2
  <2> QED
    BY <1>6, <2>1, <2>2, <2>3
<1>9. g = y
  BY <1>4, <1>6, <1>7
<1> QED
  BY <1>5, <1>8, <1>9

----------------------------------------------------------------------------
(* What the whole stack holds open.                                         *)

\* L and M are the counts below each frame.
Reaches(L, M, frs) ==
  /\ L \in [1 .. Len(frs) + 1 -> Nat] /\ M \in [1 .. Len(frs) + 1 -> Nat]
  /\ L[1] = 0 /\ M[1] = 0
  /\ \A i \in 1 .. Len(frs) : Levels(frs[i].conts, L[i], M[i], L[i + 1], M[i + 1])
\* The whole stack holds a bindings and b exceptions open.
Rising(frs, a, b) ==
  \E L, M : Reaches(L, M, frs) /\ L[Len(frs) + 1] = a /\ M[Len(frs) + 1] = b

\* An empty stack holds nothing open.
LEMMA RisingNone ==
  ASSUME NEW a, NEW b
  PROVE  Rising(<<>>, a, b) <=> a = 0 /\ b = 0
<1>1. Len(<<>>) = 0 /\ Len(<<>>) + 1 = 1
  OBVIOUS
<1>2. ASSUME Rising(<<>>, a, b) PROVE a = 0 /\ b = 0
  BY <1>1, <1>2 DEF Rising, Reaches
<1>3. Rising(<<>>, 0, 0)
  <2> DEFINE L == [i \in 1 .. 1 |-> 0]
  <2>1. Reaches(L, L, <<>>) /\ L[Len(<<>>) + 1] = 0
    BY <1>1 DEF Reaches
  <2> HIDE DEF L
  <2> QED
    BY <2>1 DEF Rising
<1> QED
  BY <1>2, <1>3

\* What is below the top frame, and the top frame's own.
LEMMA RisingSplit ==
  ASSUME NEW frs, IsSeq(frs), frs # <<>>, NEW a, NEW b, Rising(frs, a, b)
  PROVE  \E d, h : Rising(Front(frs), d, h) /\ Levels(frs[Len(frs)].conts, d, h, a, b)
<1>1. PICK L, M : Reaches(L, M, frs) /\ L[Len(frs) + 1] = a /\ M[Len(frs) + 1] = b
  BY DEF Rising
<1>2. PICK n \in Nat \ {0} : n = Len(frs)
  BY SeqFacts
<1>3. /\ Len(Front(frs)) = n - 1 /\ \A j \in 1 .. n - 1 : Front(frs)[j] = frs[j]
  BY <1>2, SeqFront
<1> DEFINE L2 == [i \in 1 .. n |-> L[i]]
           M2 == [i \in 1 .. n |-> M[i]]
<1>4. \A i \in 1 .. n : L2[i] = L[i] /\ M2[i] = M[i]
  OBVIOUS
<1>5. L2 \in [1 .. n -> Nat] /\ M2 \in [1 .. n -> Nat]
  <2>1. 1 .. n \subseteq 1 .. n + 1
    BY <1>2
  <2> QED
    BY <1>1, <1>2, <2>1 DEF Reaches
<1> HIDE DEF L2, M2
<1>6. ASSUME NEW i \in 1 .. n - 1
      PROVE  Levels(Front(frs)[i].conts, L2[i], M2[i], L2[i + 1], M2[i + 1])
  <2>1. i \in 1 .. n /\ i + 1 \in 1 .. n
    BY <1>2
  <2> QED
    BY <1>1, <1>2, <1>3, <1>4, <2>1 DEF Reaches
<1>7. 1 \in 1 .. n /\ n \in 1 .. n /\ n - 1 + 1 = n
  BY <1>2
<1>8. Reaches(L2, M2, Front(frs))
  BY <1>1, <1>3, <1>4, <1>5, <1>6, <1>7 DEF Reaches
<1>9. Rising(Front(frs), L[n], M[n])
  BY <1>3, <1>4, <1>7, <1>8 DEF Rising
<1>10. Levels(frs[n].conts, L[n], M[n], a, b)
  BY <1>1, <1>2, <1>7 DEF Reaches
<1> QED
  BY <1>2, <1>9, <1>10

\* A frame upon a stack takes the counts on.
LEMMA RisingJoin ==
  ASSUME NEW low, NEW d, NEW h, Rising(low, d, h), NEW n \in Nat, n = Len(low) + 1,
         Len(low) \in Nat, NEW frs, Len(frs) = n,
         \A j \in 1 .. n - 1 : frs[j].conts = low[j].conts,
         NEW a \in Nat, NEW b \in Nat, Levels(frs[n].conts, d, h, a, b)
  PROVE  Rising(frs, a, b)
<1>1. PICK L, M : Reaches(L, M, low) /\ L[Len(low) + 1] = d /\ M[Len(low) + 1] = h
  BY DEF Rising
<1> DEFINE L2 == [i \in 1 .. n + 1 |-> IF i = n + 1 THEN a ELSE L[i]]
           M2 == [i \in 1 .. n + 1 |-> IF i = n + 1 THEN b ELSE M[i]]
<1>2. n \in Nat \ {0} /\ n - 1 = Len(low) /\ n + 1 \in 1 .. n + 1 /\ n + 1 # 1
  OBVIOUS
<1>3. /\ L2[n + 1] = a /\ M2[n + 1] = b
      /\ \A i \in 1 .. n : L2[i] = L[i] /\ M2[i] = M[i]
  BY <1>2
<1>4. L \in [1 .. n -> Nat] /\ M \in [1 .. n -> Nat] /\ L[n] = d /\ M[n] = h
  BY <1>1 DEF Reaches
<1>5. L2 \in [1 .. n + 1 -> Nat] /\ M2 \in [1 .. n + 1 -> Nat]
  BY <1>2, <1>4
<1> HIDE DEF L2, M2
<1>6. ASSUME NEW i \in 1 .. n
      PROVE  Levels(frs[i].conts, L2[i], M2[i], L2[i + 1], M2[i + 1])
  <2>1. CASE i = n
    BY <1>2, <1>3, <1>4, <2>1
  <2>2. CASE i # n
    <3>1. i \in 1 .. n - 1 /\ i \in 1 .. Len(low) /\ i \in 1 .. n /\ i + 1 \in 1 .. n
      BY <1>2, <2>2
    <3>2. Levels(low[i].conts, L[i], M[i], L[i + 1], M[i + 1])
      BY <1>1, <3>1 DEF Reaches
    <3>3. frs[i].conts = low[i].conts
      BY <3>1
    <3> QED
      BY <1>3, <3>1, <3>2, <3>3
  <2> QED
    BY <2>1, <2>2
<1>7. L2[1] = 0 /\ M2[1] = 0
  <2>1. 1 \in 1 .. n
    BY <1>2
  <2> QED
    BY <1>1, <1>3, <2>1 DEF Reaches
<1>8. Reaches(L2, M2, frs)
  BY <1>5, <1>6, <1>7 DEF Reaches
<1> QED
  BY <1>3, <1>8 DEF Rising

----------------------------------------------------------------------------
(* The bindings and the exceptions the machine keeps are those its          *)
(* continuations hold open.                                                 *)

\* The oldest binding to restore is the parameter's first value.
Bindings(d, p) ==
  /\ d \in Seq(0 .. Values - 1) /\ p \in 0 .. Values - 1
  /\ IF d = <<>> THEN p = 0 ELSE d[1] = 0
Number(r) == r.k = "Value" => r.v \in Nat
Numbers(u, r) ==
  Number(r) /\ (u.k \in {"BlockContinue", "BlockBreak", "Return"} => Number(u.v))
Ends(s, frs) == s \in {"Done", "Uncaught"} => frs = <<>>
\* The bindings to restore and the exceptions being handled are as many as the
\* stack holds open, and a run that ends has no frame left.
DataOK ==
  /\ Bindings(dyn, param) /\ IsSeq(handling) /\ Numbers(unwind, reg)
  /\ Rising(frames, Len(dyn), Len(handling))
  /\ Ends(status, frames)

\* The parts of the invariant after a step.
LEMMA DataNext ==
  ASSUME Bindings(dyn', param'), IsSeq(handling'), Numbers(unwind', reg'),
         Rising(frames', Len(dyn'), Len(handling')), Ends(status', frames')
  PROVE  DataOK'
  BY Zenon DEF DataOK

LEMMA Lengths ==
  ASSUME DataOK
  PROVE  Len(dyn) \in Nat /\ Len(handling) \in Nat
  BY SeqFacts DEF DataOK, Bindings

\* What is at the top of a stack that runs.
LEMMA StackTop ==
  ASSUME ControlOK, frames # <<>>
  PROVE  /\ IsSeq(frames) /\ Len(frames) \in Nat \ {0} /\ Top = frames[Len(frames)]
         /\ IsSeq(Top.conts) /\ Len(Top.conts) \in Nat /\ Barred(Top.conts, Len(frames))
         /\ DOMAIN Top = FrameFields
<1>1. PICK B, T : Control(B, T)
  BY DEF ControlOK
<1>2. StackOK(frames, B, T)
  BY <1>1 DEF Control
<1>3. Shaped(Top, Len(frames))
  BY <1>2, AtTop
<1> QED
  BY <1>2, <1>3, AtTop DEF Shaped, StackOK

LEMMA RunningTop ==
  ASSUME ControlOK, status = "Running"
  PROVE  frames # <<>>
<1>1. PICK B, T : Control(B, T)
  BY DEF ControlOK
<1> QED
  BY <1>1 DEF Control

\* What is open below the top frame, and in it.
Beneath(d, h) ==
  Rising(Front(frames), d, h) /\ Levels(Top.conts, d, h, Len(dyn), Len(handling))

\* The frames below the top one leave counts, its continuations take them on.
LEMMA DataTop ==
  ASSUME ControlOK, DataOK, frames # <<>>
  PROVE  \E d, h : Beneath(d, h) /\ d \in Nat /\ h \in Nat
<1>1. IsSeq(frames) /\ Top = frames[Len(frames)] /\ IsSeq(Top.conts)
  BY StackTop
<1>2. PICK d, h : /\ Rising(Front(frames), d, h)
                  /\ Levels(frames[Len(frames)].conts, d, h, Len(dyn), Len(handling))
  BY <1>1, RisingSplit DEF DataOK
<1>3. Beneath(d, h)
  BY <1>1, <1>2 DEF Beneath
<1>4. d \in Nat /\ h \in Nat
  BY <1>1, <1>3, LevelsFacts DEF Beneath
<1> QED
  BY <1>3, <1>4

\* The top frame goes on with other continuations.
LEMMA RisingConts ==
  ASSUME ControlOK, frames # <<>>, NEW d, NEW h, Rising(Front(frames), d, h),
         NEW ks, NEW a \in Nat, NEW b \in Nat, Levels(ks, d, h, a, b)
  PROVE  /\ Rising(WithConts(frames, ks), a, b)
         /\ IsSeq(WithConts(frames, ks)) /\ Len(WithConts(frames, ks)) = Len(frames)
<1> DEFINE frs == WithConts(frames, ks)
           g == [Top EXCEPT !.conts = ks]
<1>1. PICK n \in Nat \ {0} : n = Len(frames)
  BY StackTop
<1>2. /\ IsSeq(frames) /\ Top = frames[n] /\ DOMAIN Top = FrameFields
  BY <1>1, StackTop
<1>3. frs = [frames EXCEPT ![n] = g]
  BY <1>1, <1>2, Zenon DEF WithConts
<1>4. g.conts = ks
  BY <1>2 DEF FrameFields
<1> HIDE DEF g, frs
<1>5. /\ IsSeq(frs) /\ Len(frs) = n /\ frs[n] = g
      /\ \A j \in 1 .. n : j # n => frs[j] = frames[j]
  <2>1. PICK S : frames \in Seq(S) /\ g \in S
    BY <1>2, SeqWithin
  <2>2. n \in 1 .. Len(frames)
    BY <1>1
  <2>3. LET F == [frames EXCEPT ![n] = g]
        IN /\ F \in Seq(S) /\ Len(F) = Len(frames) /\ F[n] = g
           /\ \A j \in 1 .. Len(frames) : j # n => F[j] = frames[j]
    BY <2>1, <2>2, ExceptFacts
  <2>4. /\ frs \in Seq(S) /\ Len(frs) = n /\ frs[n] = g
        /\ \A j \in 1 .. n : j # n => frs[j] = frames[j]
    BY <1>1, <1>3, <2>3, Zenon
  <2> QED
    BY <2>4 DEF IsSeq
<1>6. Len(Front(frames)) = n - 1 /\ \A j \in 1 .. n - 1 : Front(frames)[j] = frames[j]
  <2>1. frames # <<>>
    OBVIOUS
  <2> QED
    BY <1>1, <1>2, <2>1, SeqFront
<1>7. \A j \in 1 .. n - 1 : frs[j].conts = Front(frames)[j].conts
  BY <1>5, <1>6
<1>8. Levels(frs[n].conts, d, h, a, b)
  BY <1>4, <1>5
<1>9. n = Len(Front(frames)) + 1 /\ Len(Front(frames)) \in Nat
  BY <1>6
<1>10. Rising(frs, a, b)
  BY <1>5, <1>7, <1>8, <1>9, RisingJoin
<1> QED
  BY <1>1, <1>5, <1>10 DEF frs

\* A step that opens nothing and closes nothing.
LEMMA ThenIs ==
  ASSUME NEW conts
  PROVE  Then(conts) = WithConts(frames, Front(Top.conts) \o conts)
  BY Zenon DEF Then, WithConts, Top

LEMMA PlainTuples ==
  ASSUME NEW a, NEW b, NEW c, PlainKind(a), PlainKind(b), PlainKind(c)
  PROVE  Plain(<<>>) /\ Plain(<<a>>) /\ Plain(<<a, b>>) /\ Plain(<<a, b, c>>)
<1> DEFINE R == {a, b, c}
<1>1. <<>> \in Seq(R) /\ <<a>> \in Seq(R) /\ <<a, b>> \in Seq(R) /\ <<a, b, c>> \in Seq(R)
  OBVIOUS
<1>2. Len(<<>>) = 0 /\ Len(<<a>>) = 1 /\ Len(<<a, b>>) = 2 /\ Len(<<a, b, c>>) = 3
  OBVIOUS
<1>3. Plain(<<>>) /\ Plain(<<a>>)
  <2>1. Plain(<<>>)
    BY <1>1, <1>2 DEF Plain, IsSeq
  <2>2. \A i \in 1 .. 1 : <<a>>[i] = a
    OBVIOUS
  <2>3. Plain(<<a>>)
    BY <1>1, <1>2, <2>2 DEF Plain, IsSeq
  <2> QED
    BY <2>1, <2>3
<1>4. Plain(<<a, b>>)
  <2>1. \A i \in 1 .. 2 : <<a, b>>[i] = a \/ <<a, b>>[i] = b
    OBVIOUS
  <2> QED
    BY <1>1, <1>2, <2>1 DEF Plain, IsSeq
<1>5. Plain(<<a, b, c>>)
  <2>1. \A i \in 1 .. 3 : <<a, b, c>>[i] = a \/ <<a, b, c>>[i] = b \/ <<a, b, c>>[i] = c
    OBVIOUS
  <2> QED
    BY <1>1, <1>2, <2>1 DEF Plain, IsSeq
<1> QED
  BY <1>3, <1>4, <1>5

\* What is left of the top frame when its continuation, which opens nothing,
\* goes.
LEMMA BelowPlain ==
  ASSUME ControlOK, frames # <<>>, Top.conts # <<>>, PlainKind(Cont),
         NEW d, NEW h, Beneath(d, h)
  PROVE  /\ IsSeq(Front(Top.conts))
         /\ Levels(Front(Top.conts), d, h, Len(dyn), Len(handling))
<1>1. IsSeq(Top.conts) /\ IsSeq(Front(Top.conts))
  BY StackTop, SeqFront
<1>2. PICK x, y : /\ Levels(Front(Top.conts), d, h, x, y)
                  /\ Opens(Cont, x, y, Len(dyn), Len(handling))
  BY <1>1, LevelsPop DEF Beneath, Cont
<1>3. x = Len(dyn) /\ y = Len(handling)
  BY <1>2 DEF Opens, PlainKind
<1> QED
  BY <1>1, <1>2, <1>3

\* Steps that open and close nothing.
LEMMA PlainThen ==
  ASSUME ControlOK, DataOK, frames # <<>>, Top.conts # <<>>, PlainKind(Cont),
         NEW conts, Plain(conts), frames' = Then(conts),
         UNCHANGED <<param, dyn, handling>>,
         Numbers(unwind', reg'), status' \notin {"Done", "Uncaught"}
  PROVE  DataOK'
<1>1. PICK d, h : Beneath(d, h)
  BY DataTop
<1>2. Levels(Front(Top.conts) \o conts, d, h, Len(dyn), Len(handling))
  BY <1>1, BelowPlain, LevelsJoin
<1>3. Rising(frames', Len(dyn'), Len(handling'))
  BY <1>1, <1>2, Lengths, RisingConts, ThenIs DEF Beneath
<1> QED
  BY <1>3, DataNext DEF DataOK, Ends

LEMMA Plains ==
  ASSUME NEW k, k.k \in ContKinds \ {"WithRestore", "PopHandler"}
  PROVE  PlainKind(k)
  BY DEF PlainKind

LEMMA RefuseData ==
  ASSUME ControlOK, DataOK, status = "Running", Top.conts # <<>>, PlainKind(Cont), Refuse
  PROVE  DataOK'
<1>1. /\ frames' = Then(<<>>) /\ UNCHANGED <<param, dyn, handling>> /\ reg' = reg
      /\ unwind' = RaiseOf(<<"NoValue">>) /\ status' = status
  BY DEF Refuse, Arm
<1>2. Plain(<<>>)
  BY PlainTuples
<1>3. Numbers(unwind', reg')
  BY <1>1 DEF DataOK, Numbers, Number, RaiseOf
<1> QED
  BY <1>1, <1>2, <1>3, RunningTop, PlainThen

\* Evaluation, choices, bindings of names, raises and exits open nothing.
LEMMA EvalData ==
  ASSUME ControlOK, DataOK, EvalVal \/ EvalIf \/ EvalTry \/ LeaveTry \/ LoopReloop
  PROVE  DataOK'
<1>1. /\ status = "Running" /\ Top.conts # <<>> /\ PlainKind(Cont)
      /\ UNCHANGED <<unwind, param, dyn, handling, status>>
  BY DEF EvalVal, EvalIf, EvalTry, LeaveTry, LoopReloop, At, PlainKind
<1>2. PlainKind(NodeCont("IfChoose", Cont.node)) /\ PlainKind(NodeCont("TryHandler", Cont.node))
      /\ PlainKind(SeqCont(Cont.node.body))
  BY DEF PlainKind, NodeCont, SeqCont
<1>3. \E conts : Plain(conts) /\ frames' = Then(conts)
  BY <1>1, <1>2, PlainTuples, Zenon DEF EvalVal, EvalIf, EvalTry, LeaveTry, LoopReloop
<1>4. param \in Nat
  <2>1. Values \in Nat /\ param \in 0 .. Values - 1
    BY CallsAssumption DEF DataOK, Bindings
  <2> QED
    BY <2>1
<1>5. Numbers(unwind', reg')
  <2>1. reg' = reg \/ reg' = Value(param)
    BY DEF EvalVal, EvalIf, EvalTry, LeaveTry, LoopReloop
  <2> QED
    BY <1>1, <1>4, <2>1 DEF DataOK, Numbers, Number, Value
<1> QED
  BY <1>1, <1>3, <1>5, RunningTop, PlainThen

LEMMA ChoiceData ==
  ASSUME ControlOK, DataOK, IfChoose \/ WhileCheck
  PROVE  DataOK'
<1>1. /\ status = "Running" /\ Top.conts # <<>> /\ PlainKind(Cont)
      /\ UNCHANGED <<unwind, param, dyn, handling, status>>
      /\ reg' = Nothing("Taken")
  BY DEF IfChoose, WhileCheck, At, PlainKind
<1>2. \A body : PlainKind(SeqCont(body))
  BY DEF PlainKind, SeqCont
<1>3. \E conts : Plain(conts) /\ frames' = Then(conts)
  <2>1. CASE IfChoose
    <3>1. \/ frames' = Then(<<SeqCont(Cont.node.then)>>)
          \/ frames' = Then(<<>>)
          \/ frames' = Then(<<SeqCont(Cont.node.else[1])>>)
      BY <2>1, Zenon DEF IfChoose
    <3> QED
      BY <1>2, <3>1, PlainTuples, Zenon
  <2>2. CASE WhileCheck
    <3>1. frames' = Then(<<Cont, SeqCont(Cont.node.body)>>) \/ frames' = Then(<<>>)
      BY <2>2, Zenon DEF WhileCheck
    <3> QED
      BY <1>1, <1>2, <3>1, PlainTuples, Zenon
  <2> QED
    BY <2>1, <2>2
<1>4. Numbers(unwind', reg')
  BY <1>1 DEF DataOK, Numbers, Number, Nothing
<1> QED
  BY <1>1, <1>3, <1>4, RunningTop, PlainThen

LEMMA BindData == ControlOK /\ DataOK /\ BindLet => DataOK'
<1> SUFFICES ASSUME ControlOK, DataOK, BindLet PROVE DataOK'
  OBVIOUS
<1>1. status = "Running" /\ Top.conts # <<>> /\ PlainKind(Cont)
  BY DEF BindLet, At, PlainKind
<1>2. CASE Refuse
  BY <1>1, <1>2, RefuseData
<1>3. CASE ~ Refuse
  <2>1. /\ frames' = Then(<<>>) /\ reg' = Nothing("Taken")
        /\ UNCHANGED <<unwind, param, dyn, handling, status>>
    BY <1>3 DEF BindLet
  <2>2. Numbers(unwind', reg')
    BY <2>1 DEF DataOK, Numbers, Number, Nothing
  <2>3. Plain(<<>>)
    BY <1>1, PlainTuples
  <2> QED
    BY <1>1, <2>1, <2>2, <2>3, RunningTop, PlainThen
<1> QED
  BY <1>2, <1>3

LEMMA RaiseData == ControlOK /\ DataOK /\ RaiseApply => DataOK'
<1> SUFFICES ASSUME ControlOK, DataOK, RaiseApply PROVE DataOK'
  OBVIOUS
<1>1. status = "Running" /\ Top.conts # <<>> /\ PlainKind(Cont)
  BY DEF RaiseApply, At, PlainKind
<1>2. CASE Refuse
  BY <1>1, <1>2, RefuseData
<1>3. CASE ~ Refuse
  <2>1. /\ frames' = Then(<<>>) /\ UNCHANGED <<param, dyn, handling>>
        /\ reg' \in {reg, Nothing("Taken")}
        /\ \/ unwind' = unwind
           \/ \E e : unwind' = RaiseOf(e)
        /\ status' \in {status, "Panic"}
    BY <1>3 DEF RaiseApply
  <2>2. Numbers(unwind', reg')
    BY <2>1 DEF DataOK, Numbers, Number, Nothing, RaiseOf
  <2>3. Plain(<<>>)
    BY <1>1, PlainTuples
  <2> QED
    BY <1>1, <2>1, <2>2, <2>3, RunningTop, PlainThen
<1> QED
  BY <1>2, <1>3

LEMMA ExitData == ControlOK /\ DataOK /\ ExitApply => DataOK'
<1> SUFFICES ASSUME ControlOK, DataOK, ExitApply PROVE DataOK'
  OBVIOUS
<1> DEFINE n == Cont.node
           valued == n.op # <<>>
           v == IF valued THEN reg ELSE Nothing("Exit")
<1>1. status = "Running" /\ unwind = NoUnwind /\ Top.conts # <<>> /\ PlainKind(Cont)
      /\ Cont.k = "ExitApply"
  BY DEF ExitApply, At, PlainKind
<1>2. CASE Refuse
  BY <1>1, <1>2, RefuseData
<1>3. CASE ~ Refuse
  <2>1. /\ frames' = Then(<<>>) /\ UNCHANGED <<param, dyn, handling>>
        /\ reg' \in {reg, Nothing("Taken")}
        /\ \/ unwind' = unwind \/ unwind' = RaiseOf(<<"NoDestination">>)
           \/ unwind' = ExitUnwind(n, v)
        /\ status' \in {status, "Panic"}
    BY <1>3, Zenon DEF ExitApply
  <2>2. PICK B, T, c : Here(B, T, c)
    BY <1>1, Dispatched
  <2>3. NodeAt(n, c) /\ n.k \in Exits
    BY <1>1, <2>2 DEF Here, ContPlaced, Does
  <2>4. ExitPlaced(n, c)
    BY <2>3, OfExit
  <2>5. Number(v)
    BY DEF DataOK, Numbers, Number, Nothing
  <2> HIDE DEF v
  <2>6. \/ ExitUnwind(n, v).k \in {"LoopBreak", "LoopContinue"}
        \/ ExitUnwind(n, v).v = v
    BY <2>3, <2>4 DEF ExitUnwind, ExitPlaced, Exits
  <2>7. Number(reg')
    BY <2>1 DEF DataOK, Numbers, Number, Nothing
  <2>8. Numbers(unwind', reg')
    BY <1>1, <2>1, <2>5, <2>6, <2>7 DEF Numbers, NoUnwind, RaiseOf
  <2>9. Plain(<<>>)
    BY <1>1, PlainTuples
  <2> QED
    BY <1>1, <2>1, <2>8, <2>9, RunningTop, PlainThen
<1> QED
  BY <1>2, <1>3

LEMMA PlainJoin ==
  ASSUME NEW a, Plain(a), NEW b, Plain(b)
  PROVE  Plain(a \o b)
<1>1. /\ IsSeq(a \o b) /\ Len(a \o b) = Len(a) + Len(b)
      /\ \A i \in 1 .. Len(a) : (a \o b)[i] = a[i]
      /\ \A i \in Len(a) + 1 .. Len(a) + Len(b) : (a \o b)[i] = b[i - Len(a)]
  BY SeqJoined DEF Plain
<1>2. Len(a) \in Nat /\ Len(b) \in Nat
  BY SeqFacts DEF Plain
<1>3. ASSUME NEW i \in 1 .. Len(a) + Len(b)
      PROVE  PlainKind((a \o b)[i])
  <2>1. CASE i \in 1 .. Len(a)
    BY <1>1, <2>1 DEF Plain
  <2>2. CASE i \notin 1 .. Len(a)
    <3>1. i \in Len(a) + 1 .. Len(a) + Len(b) /\ i - Len(a) \in 1 .. Len(b)
      BY <1>2, <2>2
    <3> QED
      BY <1>1, <3>1 DEF Plain
  <2> QED
    BY <2>1, <2>2
<1> QED
  BY <1>1, <1>3 DEF Plain

\* Neither does what a statement schedules.
LEMMA StmtPlain ==
  ASSUME NEW n, n.k \in Statements
  PROVE  Plain(StmtConts(n))
<1>1. \A e : PlainKind(EvalCont(e))
  BY DEF PlainKind, EvalCont
<1>2. \A k \in {"BindLet", "WithBind", "WhileCheck", "LoopReloop", "ExitApply", "RaiseApply"} :
        PlainKind(NodeCont(k, n))
  BY DEF PlainKind, NodeCont
<1>3. PlainKind(SeqCont(n.body))
  BY DEF PlainKind, SeqCont
<1>4. CASE n.k = "ExprStmt"
  <2>1. StmtConts(n) = <<EvalCont(n.e)>>
    BY <1>4 DEF StmtConts, Exits
  <2> QED
    BY <1>1, <2>1, PlainTuples
<1>5. CASE n.k \in {"Let", "With"}
  <2> DEFINE x == NodeCont(IF n.k = "Let" THEN "BindLet" ELSE "WithBind", n)
  <2>1. StmtConts(n) = <<x, EvalCont(n.e)>>
    BY <1>5 DEF StmtConts, Exits
  <2>2. PlainKind(x)
    BY <1>2
  <2> HIDE DEF x
  <2> QED
    BY <1>1, <2>1, <2>2, PlainTuples
<1>6. CASE n.k = "While"
  <2>1. StmtConts(n) = <<NodeCont("WhileCheck", n)>>
    BY <1>6 DEF StmtConts, Exits
  <2> QED
    BY <1>2, <2>1, PlainTuples
<1>7. CASE n.k = "Loop"
  <2>1. StmtConts(n) = <<NodeCont("LoopReloop", n), SeqCont(n.body)>>
    BY <1>7 DEF StmtConts, Exits
  <2> QED
    BY <1>2, <1>3, <2>1, PlainTuples
<1>8. CASE n.k \in Exits \cup {"Raise"}
  <2> DEFINE x == NodeCont(IF n.k = "Raise" THEN "RaiseApply" ELSE "ExitApply", n)
  <2>1. StmtConts(n) = <<x>> \o Evals(n.op)
    BY <1>8 DEF StmtConts, Exits
  <2>2. PlainKind(x)
    BY <1>2
  <2> HIDE DEF x
  <2>3. Plain(<<x>>) /\ Plain(Evals(n.op))
    BY <1>1, <2>2, PlainTuples DEF Evals
  <2> QED
    BY <2>1, <2>3, PlainJoin
<1> QED
  BY <1>4, <1>5, <1>6, <1>7, <1>8 DEF Statements

LEMMA SeqData == ControlOK /\ DataOK /\ SeqStep => DataOK'
<1> SUFFICES ASSUME ControlOK, DataOK, SeqStep PROVE DataOK'
  OBVIOUS
<1>1. /\ status = "Running" /\ unwind = NoUnwind /\ Top.conts # <<>> /\ Cont.k = "Seq"
      /\ PlainKind(Cont) /\ UNCHANGED <<unwind, param, dyn, handling, status>>
  BY DEF SeqStep, At, PlainKind
<1>2. PICK B, T, c : Here(B, T, c)
  BY <1>1, Dispatched
<1>3. /\ BodyAt(Cont.body, c) /\ Cont.next \in 1 .. Len(Cont.body) + 1
      /\ Cont = [k |-> "Seq", body |-> Cont.body, next |-> Cont.next]
  BY <1>1, <1>2 DEF Here, ContPlaced
<1>4. \E conts : Plain(conts) /\ frames' = Then(conts)
  <2>1. CASE Cont.next > Len(Cont.body)
    <3>1. frames' = Then(<<>>)
      BY <2>1 DEF SeqStep
    <3> QED
      BY <1>1, <3>1, PlainTuples
  <2>2. CASE ~ (Cont.next > Len(Cont.body))
    <3> DEFINE k == [Cont EXCEPT !.next = @ + 1]
               n == Cont.body[Cont.next]
    <3>1. frames' = Then(<<k>> \o StmtConts(n))
      BY <2>2 DEF SeqStep
    <3>2. Cont.next \in 1 .. Len(Cont.body)
      <4>1. Len(Cont.body) \in Nat
        BY <1>3, PlaceOfBody, SeqFacts
      <4> QED
        BY <1>3, <2>2, <4>1
    <3>3. n.k \in Statements
      BY <1>3, <3>2, PlaceOfBody
    <3>4. PlainKind(k)
      BY <1>1, <1>3 DEF PlainKind
    <3> HIDE DEF k, n
    <3> QED
      BY <3>1, <3>3, <3>4, PlainTuples, StmtPlain, PlainJoin
  <2> QED
    BY <2>1, <2>2
<1>5. Numbers(unwind', reg')
  <2>1. reg' = reg \/ reg' = Nothing("Stmt")
    BY DEF SeqStep
  <2> QED
    BY <1>1, <2>1 DEF DataOK, Numbers, Number, Nothing
<1> QED
  BY <1>1, <1>4, <1>5, RunningTop, PlainThen

----------------------------------------------------------------------------
(* Bindings made and undone, exceptions handled.                            *)

\* Restoring down to a mark leaves the bindings below it.
LEMMA UnboundFacts ==
  ASSUME NEW d, NEW p, Bindings(d, p), NEW x \in 0 .. Len(d)
  PROVE  Bindings(Unbound(d, p, x).dyn, Unbound(d, p, x).param) /\ Len(Unbound(d, p, x).dyn) = x
<1>1. d \in Seq(0 .. Values - 1) /\ Len(d) \in Nat /\ (d = <<>> <=> Len(d) = 0)
  BY LenProperties, EmptySeq DEF Bindings
<1>2. CASE x = Len(d)
  <2>1. Unbound(d, p, x) = [param |-> p, dyn |-> d]
    BY <1>1, <1>2 DEF Unbound
  <2> QED
    BY <1>2, <2>1
<1>3. CASE x # Len(d)
  <2> DEFINE e == SubSeq(d, 1, x)
  <2>1. x < Len(d) /\ x + 1 \in 1 .. Len(d) /\ x \in Nat /\ d # <<>>
    BY <1>1, <1>3
  <2>2. Unbound(d, p, x) = [param |-> d[x + 1], dyn |-> e]
    BY <1>1, <2>1 DEF Unbound
  <2>3. IsSeq(d)
    BY <1>1 DEF IsSeq
  <2>4. IsSeq(e) /\ Len(e) = x /\ \A i \in 1 .. x : e[i] = d[i]
    BY <2>3, SeqCut
  <2>5. e \in Seq(0 .. Values - 1)
    <3> DEFINE R == 0 .. Values - 1
    <3>1. \A i \in 1 .. x : i \in 1 .. Len(d)
      BY <1>1, <2>1
    <3>2. d \in Seq(R) /\ x \in Int /\ 1 \in Int
      BY <1>1, <2>1
    <3> HIDE DEF R
    <3>3. \A i \in 1 .. x : d[i] \in R
      BY <3>1, <3>2, ElementOfSeq
    <3> QED
      BY <3>2, <3>3, SubSeqProperties DEF R
  <2>6. d[x + 1] \in 0 .. Values - 1
    BY <1>1, <2>1, ElementOfSeq
  <2>7. d[1] = 0
    BY <2>1 DEF Bindings
  <2> HIDE DEF e
  <2>8. IF e = <<>> THEN d[x + 1] = 0 ELSE e[1] = 0
    <3>1. e = <<>> <=> x = 0
      BY <2>4, SeqFacts
    <3>2. CASE x = 0
      BY <2>7, <3>1, <3>2
    <3>3. CASE x # 0
      <4>1. 1 \in 1 .. x
        BY <2>1, <3>3
      <4> QED
        BY <2>4, <2>7, <3>1, <3>3, <4>1
    <3> QED
      BY <3>2, <3>3
  <2>9. Bindings(e, d[x + 1])
    BY <2>5, <2>6, <2>8 DEF Bindings
  <2> QED
    BY <2>2, <2>4, <2>9
<1> QED
  BY <1>2, <1>3

\* A `with` saves one binding, at the mark its continuation has.
LEMMA WithBindData == ControlOK /\ DataOK /\ WithBind => DataOK'
<1> SUFFICES ASSUME ControlOK, DataOK, WithBind PROVE DataOK'
  OBVIOUS
<1> DEFINE k == [k |-> "WithRestore", mark |-> Len(dyn)]
           l == SeqCont(Cont.node.body)
           cs == Front(Top.conts)
<1>1. status = "Running" /\ unwind = NoUnwind /\ Top.conts # <<>> /\ PlainKind(Cont)
  BY DEF WithBind, At, PlainKind
<1>2. CASE Refuse
  BY <1>1, <1>2, RefuseData
<1>3. CASE ~ Refuse
  <2>1. /\ reg.k = "Value" /\ param' = (reg.v + 1) % Values /\ dyn' = Append(dyn, param)
        /\ reg' = Nothing("Taken") /\ frames' = Then(<<k, l>>)
        /\ UNCHANGED <<unwind, handling, status>>
    BY <1>3 DEF WithBind, Takes
  <2>2. PICK d, h : Beneath(d, h)
    BY <1>1, RunningTop, DataTop
  <2>3. IsSeq(cs) /\ Levels(cs, d, h, Len(dyn), Len(handling))
    BY <1>1, <2>2, RunningTop, BelowPlain
  <2>4. Len(dyn) \in Nat /\ Len(handling) \in Nat /\ Len(dyn) + 1 \in Nat
    BY Lengths
  <2>5. Opens(k, Len(dyn), Len(handling), Len(dyn) + 1, Len(handling))
    BY DEF Opens
  <2>6. l.k \notin {"WithRestore", "PopHandler"}
    BY DEF SeqCont
  <2> HIDE DEF k, l, cs
  <2>7. /\ IsSeq(Append(cs, k))
        /\ Levels(Append(cs, k), d, h, Len(dyn) + 1, Len(handling))
    BY <2>3, <2>4, <2>5, LevelsPush, SeqAppend
  <2>8. Levels(Append(Append(cs, k), l), d, h, Len(dyn) + 1, Len(handling))
    BY <2>6, <2>7, LevelsPlainPush
  <2>9. Then(<<k, l>>) = WithConts(frames, Append(Append(cs, k), l))
    <3>1. Then(<<k, l>>) = WithConts(frames, cs \o <<k, l>>)
      BY ThenIs DEF cs
    <3>2. cs \o <<k, l>> = Append(Append(cs, k), l)
      BY <2>3, SeqConcat
    <3> QED
      BY <3>1, <3>2
  <2>10. Rising(frames', Len(dyn) + 1, Len(handling))
    BY <1>1, <2>1, <2>2, <2>4, <2>8, <2>9, RunningTop, RisingConts DEF Beneath
  <2>11. Bindings(dyn', param') /\ Len(dyn') = Len(dyn) + 1
    <3>1. Values \in Nat \ {0} /\ reg.v \in Nat
      BY <2>1, CallsAssumption DEF DataOK, Numbers, Number
    <3>2. (reg.v + 1) % Values \in 0 .. Values - 1
      BY <3>1
    <3>3. dyn \in Seq(0 .. Values - 1) /\ param \in 0 .. Values - 1
      BY DEF DataOK, Bindings
    <3>4. /\ Append(dyn, param) \in Seq(0 .. Values - 1) /\ Len(Append(dyn, param)) = Len(dyn) + 1
          /\ Append(dyn, param)[Len(dyn) + 1] = param
          /\ \A i \in 1 .. Len(dyn) : Append(dyn, param)[i] = dyn[i]
      BY <3>3, AppendFacts
    <3>5. Append(dyn, param)[1] = 0 /\ Append(dyn, param) # <<>>
      <4>1. Append(dyn, param) # <<>>
        BY <2>4, <3>4, EmptySeq, LenProperties
      <4>2. CASE dyn = <<>>
        <5>1. Len(dyn) + 1 = 1 /\ param = 0
          BY <4>2 DEF DataOK, Bindings
        <5> QED
          BY <3>4, <4>1, <5>1
      <4>3. CASE dyn # <<>>
        <5>1. dyn[1] = 0
          BY <4>3 DEF DataOK, Bindings
        <5>2. 1 \in 1 .. Len(dyn)
          BY <3>3, <4>3, SeqFacts DEF IsSeq
        <5> QED
          BY <3>4, <4>1, <5>1, <5>2
      <4> QED
        BY <4>2, <4>3
    <3> QED
      BY <2>1, <3>2, <3>4, <3>5 DEF Bindings
  <2>12. Numbers(unwind', reg') /\ IsSeq(handling') /\ Ends(status', frames')
    BY <1>1, <2>1 DEF DataOK, Numbers, Number, Nothing, Ends
  <2> QED
    BY <2>1, <2>10, <2>11, <2>12, DataNext
<1> QED
  BY <1>2, <1>3

\* Its end restores that one.
LEMMA WithRestoreData == ControlOK /\ DataOK /\ WithRestore => DataOK'
<1> SUFFICES ASSUME ControlOK, DataOK, WithRestore PROVE DataOK'
  OBVIOUS
<1> DEFINE u == Unbound(dyn, param, Cont.mark)
<1>1. /\ status = "Running" /\ Top.conts # <<>> /\ Cont.k = "WithRestore"
      /\ param' = u.param /\ dyn' = u.dyn /\ frames' = Then(<<>>)
      /\ UNCHANGED <<reg, unwind, handling, status>>
  BY DEF WithRestore, At
<1>2. frames # <<>>
  BY <1>1, RunningTop
<1>3. PICK d, h : Beneath(d, h)
  BY <1>2, DataTop
<1>4. IsSeq(Top.conts) /\ IsSeq(Front(Top.conts))
  BY <1>1, <1>2, StackTop, SeqFront
<1>5. PICK x, y : /\ Levels(Front(Top.conts), d, h, x, y) /\ x \in 0 .. Len(dyn)
                  /\ Opens(Cont, x, y, Len(dyn), Len(handling))
  BY <1>1, <1>3, <1>4, LevelsPop DEF Beneath, Cont
<1>6. Cont.mark = x /\ y = Len(handling)
  BY <1>1, <1>5 DEF Opens
<1>7. Bindings(dyn', param') /\ Len(dyn') = x
  BY <1>1, <1>5, <1>6, UnboundFacts DEF DataOK
<1>8. frames' = WithConts(frames, Front(Top.conts))
  BY <1>1, <1>4, ThenIs, SeqConcat
<1>9. Rising(frames', Len(dyn'), Len(handling'))
  <2>1. x \in Nat /\ y \in Nat
    BY <1>4, <1>5, LevelsFacts
  <2> QED
    BY <1>1, <1>2, <1>3, <1>5, <1>6, <1>7, <1>8, <2>1, RisingConts DEF Beneath
<1> QED
  BY <1>1, <1>7, <1>9, DataNext DEF DataOK, Ends

\* The end of a rescue body drops its exception.
LEMMA PopHandlerData == ControlOK /\ DataOK /\ PopHandler => DataOK'
<1> SUFFICES ASSUME ControlOK, DataOK, PopHandler PROVE DataOK'
  OBVIOUS
<1>1. /\ status = "Running" /\ Top.conts # <<>> /\ Cont.k = "PopHandler"
      /\ handling' = Front(handling) /\ frames' = Then(<<>>)
      /\ UNCHANGED <<reg, unwind, param, dyn, status>>
  BY DEF PopHandler, At
<1>2. frames # <<>>
  BY <1>1, RunningTop
<1>3. PICK d, h : Beneath(d, h)
  BY <1>2, DataTop
<1>4. IsSeq(Top.conts) /\ IsSeq(Front(Top.conts))
  BY <1>1, <1>2, StackTop, SeqFront
<1>5. PICK x, y : /\ Levels(Front(Top.conts), d, h, x, y)
                  /\ Opens(Cont, x, y, Len(dyn), Len(handling))
  BY <1>1, <1>3, <1>4, LevelsPop DEF Beneath, Cont
<1>6. x = Len(dyn) /\ Len(handling) = y + 1 /\ x \in Nat /\ y \in Nat
  BY <1>1, <1>4, <1>5, LevelsFacts DEF Opens
<1>7. IsSeq(handling') /\ Len(handling') = y
  <2>1. IsSeq(handling) /\ handling # <<>>
    BY <1>6, SeqFacts DEF DataOK
  <2>2. IsSeq(Front(handling)) /\ Len(Front(handling)) = Len(handling) - 1
    BY <2>1, SeqFront
  <2> QED
    BY <1>1, <1>6, <2>2
<1>8. frames' = WithConts(frames, Front(Top.conts))
  BY <1>1, <1>4, ThenIs, SeqConcat
<1>9. Rising(frames', Len(dyn'), Len(handling'))
  BY <1>1, <1>2, <1>3, <1>5, <1>6, <1>7, <1>8, RisingConts DEF Beneath
<1> QED
  BY <1>1, <1>7, <1>9, DataNext DEF DataOK, Ends

----------------------------------------------------------------------------
(* Frames pushed, replaced and left.                                        *)

\* A new frame holds nothing open.
LEMMA LevelsNew ==
  ASSUME NEW ks, Plain(ks), NEW d \in Nat, NEW h \in Nat
  PROVE  Levels(ks, d, h, d, h)
<1>1. IsSeq(<<>>) /\ Levels(<<>>, d, h, d, h)
  BY LevelsEmpty DEF IsSeq
<1>2. Levels(<<>> \o ks, d, h, d, h)
  BY <1>1, LevelsJoin
<1>3. <<>> \o ks = ks
  <2>1. PICK S : ks \in Seq(S)
    BY DEF Plain, IsSeq
  <2> QED
    BY <2>1, ConcatEmptySeq
<1> QED
  BY <1>2, <1>3

\* A new frame holds nothing open.
LEMMA BodyPlain ==
  ASSUME NEW body
  PROVE  Plain(BodyConts(body))
<1>1. PlainKind(Barrier) /\ PlainKind(SeqCont(body))
  BY DEF PlainKind, Barrier, SeqCont
<1> QED
  BY <1>1, PlainTuples DEF BodyConts

\* A frame pushed leaves what is open below it.
LEMMA PushData ==
  ASSUME ControlOK, DataOK, status = "Running", Top.conts # <<>>, PlainKind(Cont),
         NEW f, PushFrame(f), Plain(f.conts), UNCHANGED <<param, dyn, handling>>,
         Numbers(unwind', reg')
  PROVE  DataOK'
<1>1. frames # <<>>
  BY RunningTop
<1>2. CASE Len(frames) >= StackLimit
  <2>1. frames' = frames /\ status' = "StackFault"
    BY <1>2 DEF PushFrame
  <2> QED
    BY <2>1, DataNext DEF DataOK, Ends
<1>3. CASE ~ (Len(frames) >= StackLimit)
  <2> DEFINE low == Then(<<>>)
             a == Len(dyn)
             b == Len(handling)
  <2>1. frames' = Append(low, f) /\ status' = "Running"
    BY <1>3 DEF PushFrame
  <2>2. PICK d, h : Beneath(d, h)
    BY <1>1, DataTop
  <2>3. a \in Nat /\ b \in Nat
    BY Lengths
  <2>4. IsSeq(Front(Top.conts)) /\ Levels(Front(Top.conts), d, h, a, b)
    BY <1>1, <2>2, BelowPlain
  <2>5. low = WithConts(frames, Front(Top.conts))
    <3>1. Front(Top.conts) \o <<>> = Front(Top.conts)
      BY <2>4, SeqConcat
    <3> QED
      BY <3>1, ThenIs
  <2> HIDE DEF low, a, b
  <2>6. Rising(low, a, b) /\ IsSeq(low) /\ Len(low) \in Nat
    BY <1>1, <2>2, <2>3, <2>4, <2>5, RisingConts, SeqFacts DEF Beneath
  <2>7. PICK n \in Nat : n = Len(low) + 1
    BY <2>6
  <2>8. /\ Len(frames') = n /\ frames'[n] = f
        /\ \A j \in 1 .. n - 1 : frames'[j] = low[j]
    <3>1. n - 1 = Len(low)
      BY <2>6, <2>7
    <3> QED
      BY <2>1, <2>6, <2>7, <3>1, SeqAppend
  <2>9. Levels(frames'[n].conts, a, b, a, b)
    BY <2>3, <2>8, LevelsNew
  <2>10. \A j \in 1 .. n - 1 : frames'[j].conts = low[j].conts
    BY <2>8
  <2>11. Rising(frames', a, b)
    BY <2>3, <2>6, <2>7, <2>8, <2>9, <2>10, RisingJoin
  <2> QED
    BY <2>1, <2>11, DataNext DEF DataOK, Ends, a, b
<1> QED
  BY <1>2, <1>3

\* Where a handler or a binding is open is no tail position.
LEMMA OpenKept ==
  ASSUME NEW k, NEW c \in Place, ContPlaced(k, c), ~ c.tail, ~ c.ret
  PROVE  ~ AbovePlace(k, c).tail /\ ~ AbovePlace(k, c).ret
<1>1. CASE k.k \in {"WhileCheck", "LoopReloop"}
  <2>1. AbovePlace(k, c) = LoopPlace(k.node, c)
    BY <1>1 DEF AbovePlace
  <2>2. PICK l, e : LoopPlace(k.node, c) =
          [c EXCEPT !.loop = l, !.tail = FALSE, !.want = "Any", !.endless = e]
    BY Zenon DEF LoopPlace
  <2> QED
    BY <2>1, <2>2 DEF Place
<1>2. CASE k.k = "Seq"
  BY <1>2 DEF AbovePlace, StmtPlace, Place
<1>3. CASE k.k \in {"BindLet", "WithBind"}
  BY <1>3 DEF AbovePlace, OperandPlace, Place
<1>4. CASE k.k \in {"ExitApply", "RaiseApply"}
  BY <1>4 DEF AbovePlace, Place
<1>5. CASE k.k \in {"Eval", "IfChoose", "ReturnBarrier"}
  BY <1>5 DEF AbovePlace, Place
<1>6. CASE k.k = "WithRestore"
  BY <1>6 DEF AbovePlace, OpenPlace, Place
<1>7. CASE k.k \in {"TryHandler", "PopHandler"}
  BY <1>7 DEF AbovePlace, OpenPlace, Place
<1> QED
  BY ContKind, <1>1, <1>2, <1>3, <1>4, <1>5, <1>6, <1>7 DEF ContKinds

\* A frame that a tail call replaces holds nothing open.
LEMMA TailPlain ==
  ASSUME NEW cs, IsSeq(cs), NEW b, NEW t, Stands(cs, b, t), t.tail
  PROVE  Plain(cs)
<1>1. SUFFICES ASSUME NEW j \in 1 .. Len(cs), ~ PlainKind(cs[j]) PROVE FALSE
  BY DEF Plain
<1>2. PICK ps : Standing(ps, cs) /\ ps[1] = b /\ ps[Len(cs) + 1] = t
  BY DEF Stands
<1>3. Len(cs) \in Nat
  BY SeqFacts
<1>4. \A i \in 1 .. Len(cs) : /\ ps[i] \in Place /\ ContPlaced(cs[i], ps[i])
                              /\ ps[i + 1] = AbovePlace(cs[i], ps[i])
  BY <1>2, <1>3 DEF Standing
<1>5. ~ ps[j + 1].tail /\ ~ ps[j + 1].ret
  <2>1. ps[j] \in Place /\ ps[j + 1] = AbovePlace(cs[j], ps[j])
    BY <1>4
  <2>2. CASE cs[j].k = "WithRestore"
    BY <2>1, <2>2 DEF AbovePlace, OpenPlace, Place
  <2>3. CASE cs[j].k = "PopHandler"
    BY <2>1, <2>3 DEF AbovePlace, OpenPlace, Place
  <2> QED
    BY <1>1, <2>2, <2>3 DEF PlainKind
<1> DEFINE S == {i \in j + 1 .. Len(cs) + 1 : ps[i].tail \/ ps[i].ret}
<1>6. Len(cs) + 1 \in S /\ S \in SUBSET Nat
  BY <1>2, <1>3
<1>7. PICK i \in S : \A l \in S : i <= l
  BY <1>6, LeastElement
<1>8. i # j + 1 /\ i \in j + 1 .. Len(cs) + 1
  BY <1>5, <1>7
<1>9. /\ i - 1 \in j + 1 .. Len(cs) + 1 /\ i - 1 \in 1 .. Len(cs) /\ i - 1 + 1 = i
      /\ ~ (i <= i - 1)
  BY <1>3, <1>8
<1>10. ~ ps[i - 1].tail /\ ~ ps[i - 1].ret
  BY <1>7, <1>9
<1>11. /\ ps[i - 1] \in Place /\ ContPlaced(cs[i - 1], ps[i - 1])
       /\ ps[i] = AbovePlace(cs[i - 1], ps[i - 1])
  BY <1>4, <1>9
<1>12. ~ ps[i].tail /\ ~ ps[i].ret
  BY <1>10, <1>11, OpenKept
<1> QED
  BY <1>7, <1>12

\* So a tail call may forget its continuations.
LEMMA ReuseData ==
  ASSUME ControlOK, DataOK, status = "Running", frames # <<>>, Plain(Top.conts),
         NEW g, Plain(g.conts), frames' = [frames EXCEPT ![Len(frames)] = g],
         UNCHANGED <<param, dyn, handling, status>>, Numbers(unwind', reg')
  PROVE  DataOK'
<1>1. PICK d, h : Beneath(d, h)
  BY DataTop
<1>2. d = Len(dyn) /\ h = Len(handling)
  BY <1>1, LevelsPlain DEF Beneath
<1>3. PICK n \in Nat \ {0} : n = Len(frames)
  BY StackTop
<1>4. IsSeq(frames)
  BY StackTop
<1>5. /\ Len(frames') = n /\ frames'[n] = g
      /\ \A j \in 1 .. n : j # n => frames'[j] = frames[j]
  <2>1. PICK S : frames \in Seq(S) /\ g \in S
    BY <1>4, SeqWithin
  <2>2. n \in 1 .. Len(frames)
    BY <1>3
  <2>3. frames' = [frames EXCEPT ![n] = g]
    BY <1>3
  <2>4. LET F == [frames EXCEPT ![n] = g]
        IN /\ Len(F) = Len(frames) /\ F[n] = g
           /\ \A j \in 1 .. Len(frames) : j # n => F[j] = frames[j]
    BY <2>1, <2>2, ExceptFacts
  <2> QED
    BY <1>3, <2>3, <2>4, Zenon
<1>6. Len(Front(frames)) = n - 1 /\ \A j \in 1 .. n - 1 : Front(frames)[j] = frames[j]
  BY <1>3, <1>4, SeqFront
<1>7. \A j \in 1 .. n - 1 : frames'[j].conts = Front(frames)[j].conts
  BY <1>5, <1>6
<1>8. Levels(frames'[n].conts, d, h, Len(dyn), Len(handling))
  BY <1>2, <1>5, Lengths, LevelsNew
<1>9. n = Len(Front(frames)) + 1 /\ Len(Front(frames)) \in Nat
  BY <1>6
<1>10. Rising(frames', Len(dyn), Len(handling))
  <2>1. Rising(Front(frames), d, h) /\ Len(dyn) \in Nat /\ Len(handling) \in Nat
    BY <1>1, Lengths DEF Beneath
  <2>2. Len(frames') = n
    BY <1>5
  <2>3. PICK low, a, b : low = Front(frames) /\ a = Len(dyn) /\ b = Len(handling)
    OBVIOUS
  <2>4. /\ Rising(low, d, h) /\ a \in Nat /\ b \in Nat /\ Len(low) \in Nat
        /\ n = Len(low) + 1 /\ \A j \in 1 .. n - 1 : frames'[j].conts = low[j].conts
        /\ Levels(frames'[n].conts, d, h, a, b)
    BY <1>7, <1>8, <1>9, <2>1, <2>3, Zenon
  <2>5. Rising(frames', a, b)
    <3>1. PICK frs : frs = frames'
      OBVIOUS
    <3>2. /\ Len(frs) = n /\ \A j \in 1 .. n - 1 : frs[j].conts = low[j].conts
          /\ Levels(frs[n].conts, d, h, a, b)
      BY <2>2, <2>4, <3>1
    <3>3. Rising(frs, a, b)
      BY <2>4, <3>2, RisingJoin
    <3> QED
      BY <3>1, <3>3
  <2> QED
    BY <2>3, <2>5, Zenon
<1> QED
  BY <1>10, DataNext DEF DataOK, Ends

LEMMA CallData == ControlOK /\ DataOK /\ CallApply => DataOK'
<1> SUFFICES ASSUME ControlOK, DataOK, CallApply PROVE DataOK'
  OBVIOUS
<1> DEFINE n == Cont.node
           cal == Cal(n.to)
           f == [Frame("Callable", n.to, cal.mod, cal.body, FreshAct) EXCEPT
                   !.blk = BlockOf(n), !.known = n.known, !.plain = n.blk = <<>>]
           g == [f EXCEPT !.plain = Top.plain, !.known = Top.known]
<1>1. /\ status = "Running" /\ unwind = NoUnwind /\ Top.conts # <<>> /\ Cont.k = "Eval"
      /\ PlainKind(Cont) /\ n.k = "Call"
      /\ UNCHANGED <<param, dyn, handling>> /\ reg' = Nothing("Taken")
      /\ IF cal.takes # (n.blk # <<>>)
         THEN Arm(<<"Arguments">>) /\ frames' = Then(<<>>) /\ status' = status
         ELSE IF Reuses(n)
         THEN /\ frames' = [frames EXCEPT ![Len(frames)] = g]
              /\ unwind' = unwind /\ status' = status
         ELSE PushFrame(f) /\ unwind' = unwind
  BY DEF CallApply, At, PlainKind
<1>2. f.conts = BodyConts(cal.body) /\ g.conts = BodyConts(cal.body)
  BY DEF Frame
<1> HIDE DEF f, g
<1>3. Plain(f.conts) /\ Plain(g.conts)
  BY <1>2, BodyPlain
<1>4. Numbers(unwind', reg')
  <2>1. unwind' = unwind \/ unwind' = RaiseOf(<<"Arguments">>)
    BY <1>1 DEF Arm
  <2> QED
    BY <1>1, <2>1 DEF Numbers, Number, Nothing, NoUnwind, RaiseOf
<1>5. CASE cal.takes # (n.blk # <<>>)
  <2>1. frames' = Then(<<>>) /\ status' = "Running" /\ Plain(<<>>)
    BY <1>1, <1>5, PlainTuples
  <2> QED
    BY <1>1, <1>4, <2>1, RunningTop, PlainThen
<1>6. CASE cal.takes = (n.blk # <<>>) /\ Reuses(n)
  <2>1. frames' = [frames EXCEPT ![Len(frames)] = g] /\ status' = status
    BY <1>1, <1>6
  <2>2. PICK B, T, c : Here(B, T, c)
    BY <1>1, Dispatched
  <2>3. NodeAt(n, c)
    BY <1>1, <2>2 DEF Here, ContPlaced, Does
  <2>4. c.tail
    BY <1>1, <1>6, <2>3, OfCall DEF Reuses
  <2>5. frames # <<>> /\ IsSeq(Top.conts) /\ IsSeq(Front(Top.conts))
    BY <1>1, RunningTop, StackTop, SeqFront
  <2>6. Plain(Front(Top.conts))
    BY <2>2, <2>4, <2>5, TailPlain DEF Here
  <2>7. Plain(Top.conts)
    <3>1. PICK m \in Nat \ {0} : m = Len(Top.conts)
      BY <1>1, <2>5, SeqFacts
    <3>2. /\ Len(Front(Top.conts)) = m - 1 /\ Top.conts[m] = Cont
          /\ \A j \in 1 .. m - 1 : Front(Top.conts)[j] = Top.conts[j]
      BY <1>1, <2>5, <3>1, SeqFront DEF Cont
    <3>3. ASSUME NEW j \in 1 .. m PROVE PlainKind(Top.conts[j])
      <4>1. CASE j = m
        BY <1>1, <3>2, <4>1
      <4>2. CASE j # m
        <5>1. j \in 1 .. m - 1
          BY <4>2
        <5> QED
          BY <2>6, <3>2, <5>1 DEF Plain
      <4> QED
        BY <4>1, <4>2
    <3> QED
      BY <2>5, <3>1, <3>3 DEF Plain
  <2> QED
    BY <1>1, <1>3, <1>4, <2>1, <2>5, <2>7, ReuseData
<1>7. CASE cal.takes = (n.blk # <<>>) /\ ~ Reuses(n)
  <2>1. PushFrame(f)
    BY <1>1, <1>7
  <2> QED
    BY <1>1, <1>3, <1>4, <2>1, PushData
<1> QED
  BY <1>5, <1>6, <1>7

LEMMA BlockData == ControlOK /\ DataOK /\ BlockApply => DataOK'
<1> SUFFICES ASSUME ControlOK, DataOK, BlockApply PROVE DataOK'
  OBVIOUS
<1> DEFINE owner == Outer(Cont.node.hops)
           desc == frames[owner].blk
           f == [Frame("Block", "None", frames[desc.def].mod, desc.body, FreshAct)
                  EXCEPT !.def = desc.def, !.defact = desc.act,
                         !.consumer = owner, !.consact = frames[owner].act]
<1>1. /\ status = "Running" /\ unwind = NoUnwind /\ Top.conts # <<>> /\ PlainKind(Cont)
      /\ UNCHANGED <<reg, param, dyn, handling>>
      /\ IF desc = NoBlock
         THEN Arm(<<"NoBlock">>) /\ frames' = Then(<<>>) /\ status' = status
         ELSE PushFrame(f) /\ unwind' = unwind
  BY DEF BlockApply, At, PlainKind
<1>2. f.conts = BodyConts(desc.body)
  BY DEF Frame
<1> HIDE DEF f
<1>3. Plain(f.conts)
  BY <1>2, BodyPlain
<1>4. Numbers(unwind', reg')
  <2>1. unwind' = unwind \/ unwind' = RaiseOf(<<"NoBlock">>)
    BY <1>1 DEF Arm
  <2> QED
    BY <1>1, <2>1 DEF DataOK, Numbers, Number, RaiseOf
<1>5. CASE desc = NoBlock
  <2>1. frames' = Then(<<>>) /\ status' = "Running" /\ Plain(<<>>)
    BY <1>1, <1>5, PlainTuples
  <2> QED
    BY <1>1, <1>4, <2>1, RunningTop, PlainThen
<1>6. CASE desc # NoBlock
  <2>1. PushFrame(f)
    BY <1>1, <1>6
  <2> QED
    BY <1>1, <1>3, <1>4, <2>1, PushData
<1> QED
  BY <1>5, <1>6

\* A frame is left whose continuations open nothing.
LEMMA LeftData ==
  ASSUME ControlOK, DataOK, frames # <<>>, Plain(Top.conts), frames' = Front(frames),
         UNCHANGED <<param, dyn, handling>>, Numbers(unwind', reg'), Ends(status', frames')
  PROVE  DataOK'
<1>1. PICK d, h : Beneath(d, h)
  BY DataTop
<1>2. d = Len(dyn) /\ h = Len(handling)
  BY <1>1, LevelsPlain DEF Beneath
<1>3. Rising(frames', Len(dyn), Len(handling))
  BY <1>1, <1>2 DEF Beneath
<1> QED
  BY <1>3, DataNext DEF DataOK

\* A frame that ends holds nothing open but its barrier.
LEMMA ReturnBarrierData == ControlOK /\ DataOK /\ ReturnBarrier => DataOK'
<1> SUFFICES ASSUME ControlOK, DataOK, ReturnBarrier PROVE DataOK'
  OBVIOUS
<1> DEFINE kind == IF Top.kind = "Block" THEN "Block" ELSE Cal(Top.cal).kind
<1>1. /\ status = "Running" /\ unwind = NoUnwind /\ Top.conts # <<>> /\ Cont.k = "ReturnBarrier"
      /\ frames' = Front(frames) /\ UNCHANGED <<param, dyn, handling, status>>
      /\ unwind' = (IF kind = "Func" /\ ~Takes THEN RaiseOf(<<"FellOff">>) ELSE unwind)
      /\ reg' = BodyResult(kind)
  BY DEF ReturnBarrier, At, Popped
<1>2. PICK B, T, c : Here(B, T, c)
  BY <1>1, Dispatched
<1>3. Len(Top.conts) = 1
  BY <1>1, <1>2, AtBarrier
<1>4. Plain(Top.conts)
  <2>1. IsSeq(Top.conts) /\ Top.conts[1] = Cont
    BY <1>1, <1>3, RunningTop, StackTop DEF Cont
  <2> QED
    BY <1>1, <1>3, <2>1 DEF Plain, PlainKind
<1>5. Numbers(unwind', reg')
  <2> HIDE DEF kind
  <2>1. unwind' = NoUnwind \/ unwind' = RaiseOf(<<"FellOff">>)
    BY <1>1
  <2>2. reg' = reg \/ \E why : reg' = Nothing(why)
    BY <1>1 DEF BodyResult
  <2> QED
    BY <2>1, <2>2 DEF DataOK, Numbers, Number, NoUnwind, RaiseOf, Nothing
<1> QED
  BY <1>1, <1>4, <1>5, RunningTop, LeftData DEF Ends

LEMMA FinishData == ControlOK /\ DataOK /\ Finish => DataOK'
<1> SUFFICES ASSUME ControlOK, DataOK, Finish PROVE DataOK'
  OBVIOUS
<1>1. /\ status = "Running" /\ unwind = NoUnwind /\ Top.conts = <<>>
      /\ frames' = Front(frames) /\ reg' = Nothing("Taken") /\ UNCHANGED <<unwind, param, dyn, handling>>
  BY DEF Finish, Popped
<1>2. frames # <<>>
  BY <1>1, RunningTop
<1>3. Plain(Top.conts)
  BY <1>1 DEF Plain, IsSeq
<1>4. frames' = <<>>
  <2>1. IsSeq(frames) /\ Barred(Top.conts, Len(frames))
    BY <1>2, StackTop
  <2>2. Len(frames) = 1
    BY <1>1, <2>1 DEF Barred
  <2>3. IsSeq(Front(frames)) /\ Len(Front(frames)) = 0
    <3>1. PICK n, low : n = Len(frames) /\ low = Front(frames)
      OBVIOUS
    <3>2. IsSeq(low) /\ Len(low) = n - 1
      BY <1>2, <2>1, <3>1, SeqFront, Zenon
    <3>3. n = 1
      BY <2>2, <3>1
    <3>4. Len(low) = 0
      BY <3>2, <3>3
    <3> QED
      BY <3>1, <3>2, <3>4, Zenon
  <2> QED
    BY <1>1, <2>3, SeqFacts
<1>5. Numbers(unwind', reg')
  BY <1>1 DEF Numbers, Number, NoUnwind, Nothing
<1> QED
  BY <1>1, <1>2, <1>3, <1>4, <1>5, LeftData DEF Ends

----------------------------------------------------------------------------
(* What is discarded is undone.                                             *)

\* Discarding restores the bindings and exceptions open below what is kept.
LEMMA Discarded ==
  ASSUME DataOK, IsSeq(Top.conts), NEW d, NEW h,
         Levels(Top.conts, d, h, Len(dyn), Len(handling)),
         NEW i \in 0 .. Len(Top.conts), Restore(i),
         NEW ks, IsSeq(ks), Len(ks) = i, \A j \in 1 .. i : ks[j] = Top.conts[j]
  PROVE  \E x, y \in Nat : /\ Levels(ks, d, h, x, y)
                           /\ Bindings(dyn', param') /\ Len(dyn') = x
                           /\ IsSeq(HandlingBelow(i)) /\ Len(HandlingBelow(i)) = y
<1>0. PICK e, g, cs : e = Len(dyn) /\ g = Len(handling) /\ cs = Top.conts
  OBVIOUS
<1>1. PICK x, y :
        /\ Levels(ks, d, h, x, y) /\ x \in 0 .. e /\ y \in 0 .. g
        /\ MarksFrom(Top.conts, i) = x .. e - 1
        /\ Cardinality(HandlersFrom(Top.conts, i)) = g - y
  <2>1. /\ IsSeq(cs) /\ Levels(cs, d, h, e, g) /\ i \in 0 .. Len(cs)
        /\ \A j \in 1 .. i : ks[j] = cs[j]
    BY <1>0, Zenon
  <2>2. \E x, y :
           /\ Levels(ks, d, h, x, y) /\ x \in 0 .. e /\ y \in 0 .. g
           /\ MarksFrom(cs, i) = x .. e - 1
           /\ IsFiniteSet(HandlersFrom(cs, i)) /\ Cardinality(HandlersFrom(cs, i)) = g - y
           /\ i = Len(cs) - 1 => Opens(cs[Len(cs)], x, y, e, g)
    BY <2>1, LevelsCut
  <2> QED
    BY <1>0, <2>2, Zenon
<1>2. e \in Nat /\ g \in Nat /\ x \in Nat /\ y \in Nat
  BY <1>0, <1>1, Lengths
<1>3. MarksAbove(i) = x .. e - 1
  BY <1>1 DEF MarksAbove, MarksFrom, Above
<1>4. Cardinality(HandlersAbove(i)) = g - y
  BY <1>1 DEF HandlersAbove, HandlersFrom, Above
<1>5. Bindings(dyn', param') /\ Len(dyn') = x
  <2>1. CASE MarksAbove(i) = {}
    <3>1. x = e
      <4>1. x .. e - 1 = {}
        BY <1>3, <2>1
      <4>2. x < e => x \in x .. e - 1
        BY <1>2
      <4>3. x <= e
        BY <1>1, <1>2
      <4> QED
        BY <1>2, <4>1, <4>2, <4>3
    <3>2. param' = param /\ dyn' = dyn
      BY <2>1 DEF Restore
    <3> QED
      BY <1>0, <3>1, <3>2 DEF DataOK
  <2>2. CASE MarksAbove(i) # {}
    <3>1. x \in MarksAbove(i) /\ \A z \in MarksAbove(i) : x <= z
      <4> QED
        BY <1>2, <1>3, <2>2
    <3>2. Least(MarksAbove(i)) = x
      <4>1. /\ Least(MarksAbove(i)) \in MarksAbove(i)
            /\ \A z \in MarksAbove(i) : Least(MarksAbove(i)) <= z
        BY <3>1, Zenon DEF Least
      <4>2. PICK l : l = Least(MarksAbove(i))
        OBVIOUS
      <4>3. l <= x /\ x <= l /\ l \in x .. e - 1
        BY <1>3, <3>1, <4>1, <4>2
      <4>4. l = x
        BY <1>2, <4>3
      <4> QED
        BY <4>2, <4>4
    <3>3. param' = Unbound(dyn, param, x).param /\ dyn' = Unbound(dyn, param, x).dyn
      BY <2>2, <3>2 DEF Restore
    <3>4. Bindings(dyn, param) /\ x \in 0 .. Len(dyn)
      BY <1>0, <1>1 DEF DataOK
    <3> QED
      BY <3>3, <3>4, UnboundFacts
  <2> QED
    BY <2>1, <2>2
<1>6. IsSeq(HandlingBelow(i)) /\ Len(HandlingBelow(i)) = y
  <2>1. g - (g - y) = y
    BY <1>2
  <2>2. HandlingBelow(i) = SubSeq(handling, 1, y)
    BY <1>0, <1>4, <2>1 DEF HandlingBelow
  <2>3. IsSeq(handling) /\ y \in 0 .. Len(handling)
    BY <1>0, <1>1 DEF DataOK
  <2> QED
    BY <2>2, <2>3, SeqCut
<1> QED
  BY <1>1, <1>2, <1>5, <1>6

\* So does discarding the whole frame,
LEMMA PoppedData ==
  ASSUME ControlOK, DataOK, frames # <<>>, Discard(0), frames' = Popped,
         Numbers(unwind', reg'), Ends(status', frames')
  PROVE  DataOK'
<1>1. PICK d, h : Beneath(d, h)
  BY DataTop
<1>2. IsSeq(Top.conts) /\ 0 \in 0 .. Len(Top.conts)
  BY StackTop
<1>3. IsSeq(<<>>) /\ Len(<<>>) = 0
  BY DEF IsSeq
<1>4. Restore(0) /\ handling' = HandlingBelow(0)
  BY DEF Discard
<1>5. PICK x, y \in Nat : /\ Levels(<<>>, d, h, x, y)
                          /\ Bindings(dyn', param') /\ Len(dyn') = x
                          /\ IsSeq(HandlingBelow(0)) /\ Len(HandlingBelow(0)) = y
  BY <1>1, <1>2, <1>3, <1>4, Discarded DEF Beneath
<1>6. d = x /\ h = y
  BY <1>5, LevelsNone
<1>7. Rising(frames', Len(dyn'), Len(handling'))
  BY <1>1, <1>4, <1>5, <1>6 DEF Beneath, Popped
<1> QED
  BY <1>4, <1>5, <1>7, DataNext

\* or its last continuation.
LEMMA DiscardTopData ==
  ASSUME ControlOK, DataOK, status = "Running", Top.conts # <<>>, DiscardTop,
         frames' = Then(<<>>), Numbers(unwind', reg'), status' = status
  PROVE  DataOK'
<1> DEFINE i == Len(Top.conts) - 1
           ks == Front(Top.conts)
<1>1. frames # <<>>
  BY RunningTop
<1>2. PICK d, h : Beneath(d, h)
  BY <1>1, DataTop
<1>3. IsSeq(Top.conts) /\ i \in 0 .. Len(Top.conts)
  BY <1>1, StackTop, SeqFacts
<1>4. IsSeq(ks) /\ Len(ks) = i /\ \A j \in 1 .. i : ks[j] = Top.conts[j]
  BY <1>3, SeqFront
<1>5. Restore(i) /\ handling' = HandlingBelow(i)
  BY DEF DiscardTop, Discard
<1> HIDE DEF i, ks
<1>6. PICK x, y \in Nat : /\ Levels(ks, d, h, x, y)
                          /\ Bindings(dyn', param') /\ Len(dyn') = x
                          /\ IsSeq(HandlingBelow(i)) /\ Len(HandlingBelow(i)) = y
  BY <1>2, <1>3, <1>4, <1>5, Discarded DEF Beneath
<1>7. frames' = WithConts(frames, ks)
  <2>1. ks \o <<>> = ks
    BY <1>4, SeqConcat
  <2> QED
    BY <2>1, ThenIs DEF ks
<1>8. Rising(frames', x, y)
  BY <1>1, <1>2, <1>6, <1>7, RisingConts DEF Beneath
<1>9. Ends(status', frames')
  BY DEF Ends
<1> QED
  BY <1>5, <1>6, <1>8, <1>9, DataNext

\* Every exit undoes what it leaves, continuation by continuation or frame by frame.
LEMMA LoopsData == ControlOK /\ DataOK /\ (LoopBreak \/ LoopContinue) => DataOK'
<1> SUFFICES ASSUME ControlOK, DataOK, LoopBreak \/ LoopContinue PROVE DataOK'
  OBVIOUS
<1>1. status = "Running" /\ unwind.k \in {"LoopBreak", "LoopContinue"} /\ status' = status
  BY DEF LoopBreak, LoopContinue, Unwinding
<1>2. Top.conts # <<>>
  BY <1>1, InLoop
<1>3. Numbers(unwind', reg')
  <2>1. /\ unwind' = unwind \/ unwind' = NoUnwind
        /\ reg' = reg \/ reg' = Nothing("Loop")
    BY DEF LoopBreak, LoopContinue
  <2> QED
    BY <2>1 DEF DataOK, Numbers, Number, NoUnwind, Nothing
<1>4. CASE DiscardTop /\ frames' = Then(<<>>)
  BY <1>1, <1>2, <1>3, <1>4, DiscardTopData
<1>5. CASE UNCHANGED <<frames, param, dyn, handling>>
  BY <1>1, <1>3, <1>5, DataNext DEF DataOK
<1> QED
  BY <1>4, <1>5 DEF LoopBreak, LoopContinue

LEMMA BlockContinueData == ControlOK /\ DataOK /\ BlockContinue => DataOK'
<1> SUFFICES ASSUME ControlOK, DataOK, BlockContinue PROVE DataOK'
  OBVIOUS
<1>1. status = "Running" /\ unwind.k = "BlockContinue" /\ status' = status
  BY DEF BlockContinue, Unwinding
<1>2. PICK B, T : Control(B, T)
  BY DEF ControlOK
<1>3. StackOK(frames, B, T) /\ frames # <<>> /\ frames[Len(frames)].kind = "Block"
  BY <1>1, <1>2 DEF Control, Going
<1>4. Top.conts # <<>>
  <2>1. Shaped(Top, Len(frames)) /\ Top.kind = "Block"
    BY <1>3, AtTop
  <2> QED
    BY <2>1 DEF Shaped, Barred
<1>5. Numbers(unwind', reg')
  <2>1. \/ unwind' = unwind /\ reg' = reg
        \/ unwind' = NoUnwind /\ reg' = unwind.v
    BY DEF BlockContinue
  <2> QED
    BY <1>1, <2>1 DEF DataOK, Numbers, NoUnwind
<1>6. CASE DiscardTop /\ frames' = Then(<<>>)
  BY <1>1, <1>4, <1>5, <1>6, DiscardTopData
<1>7. CASE UNCHANGED <<frames, param, dyn, handling>>
  BY <1>1, <1>5, <1>7, DataNext DEF DataOK
<1> QED
  BY <1>6, <1>7 DEF BlockContinue

LEMMA LeavesData ==
  ASSUME ControlOK, DataOK, BlockBreak \/ Return \/ Abandon
  PROVE  DataOK'
<1>1. /\ status = "Running" /\ unwind.k \in {"BlockBreak", "Return", "Raise"}
      /\ Discard(0) /\ frames' = Popped
  BY DEF BlockBreak, Return, Abandon, Unwinding
<1>2. frames # <<>>
  BY <1>1, RunningTop
<1>3. Numbers(unwind', reg')
  <2>1. CASE BlockBreak
    <3>1. /\ unwind.k = "BlockBreak"
          /\ \/ unwind' = unwind /\ reg' = reg
             \/ unwind' = NoUnwind /\ reg' = unwind.v
      BY <2>1 DEF BlockBreak, Unwinding
    <3> QED
      BY <3>1 DEF DataOK, Numbers, NoUnwind
  <2>2. CASE Return
    <3>1. /\ unwind.k = "Return"
          /\ \/ unwind' = unwind /\ reg' = reg
             \/ /\ unwind' \in {NoUnwind, RaiseOf(<<"FellOff">>)}
                /\ \/ reg' = reg \/ reg' = unwind.v
                   \/ \E why : reg' = Nothing(why)
      BY <2>2 DEF Return, Unwinding
    <3> QED
      BY <3>1 DEF DataOK, Numbers, Number, NoUnwind, RaiseOf, Nothing
  <2>3. CASE Abandon
    BY <2>3 DEF Abandon, DataOK
  <2> QED
    BY <2>1, <2>2, <2>3
<1>4. Ends(status', frames')
  <2>1. CASE BlockBreak \/ Return
    BY <1>1, <2>1 DEF BlockBreak, Return, Ends
  <2>2. CASE Abandon /\ Len(frames) # 1
    BY <1>1, <2>2 DEF Abandon, Ends
  <2>3. CASE Len(frames) = 1
    <3>1. IsSeq(frames)
      BY <1>2, StackTop
    <3>2. IsSeq(Front(frames)) /\ Len(Front(frames)) = 0
      BY <1>2, <2>3, <3>1, SeqFront
    <3>3. frames' = <<>>
      BY <1>1, <3>2, SeqFacts DEF Popped
    <3> QED
      BY <3>3 DEF Ends
  <2> QED
    BY <2>1, <2>2, <2>3
<1> QED
  BY <1>1, <1>2, <1>3, <1>4, PoppedData

\* A caught exception is handled upon what its handler found open.
LEMMA CatchData == ControlOK /\ DataOK /\ Catch => DataOK'
<1> SUFFICES ASSUME ControlOK, DataOK, Catch PROVE DataOK'
  OBVIOUS
<1> DEFINE i == Innermost
           cs == Top.conts
           k == [k |-> "PopHandler"]
           l == SeqCont(cs[i].node.rescue)
           upto == SubSeq(cs, 1, i)
           below == SubSeq(cs, 1, i - 1)
           ks == Append(Append(below, k), l)
<1>1. /\ status = "Running" /\ UNCHANGED <<reg, status>>
      /\ unwind' = NoUnwind /\ Handlers # {}
      /\ frames' = WithConts(frames, below \o <<k, l>>)
      /\ Restore(i) /\ handling' = Append(HandlingBelow(i), unwind.e)
  BY Zenon DEF Catch, Unwinding, WithConts, Top
<1>2. frames # <<>>
  BY <1>1, RunningTop
<1>3. PICK d, h : Beneath(d, h)
  BY <1>2, DataTop
<1>4. IsSeq(cs) /\ Len(cs) \in Nat
  BY <1>2, StackTop
<1>5. i \in 1 .. Len(cs) /\ cs[i].k = "TryHandler"
  BY <1>1, <1>4, InnermostFacts
<1> HIDE DEF i
<1>6. i \in 0 .. Len(cs) /\ i - 1 \in 0 .. Len(cs) /\ i \in 1 .. i
  BY <1>4, <1>5
<1>7. /\ IsSeq(upto) /\ Len(upto) = i /\ \A j \in 1 .. i : upto[j] = cs[j]
      /\ IsSeq(below) /\ Len(below) = i - 1 /\ \A j \in 1 .. i - 1 : below[j] = cs[j]
  BY <1>4, <1>6, SeqCut
<1>8a. /\ IsSeq(Top.conts) /\ Levels(Top.conts, d, h, Len(dyn), Len(handling))
       /\ i \in 0 .. Len(Top.conts) /\ \A j \in 1 .. i : upto[j] = Top.conts[j]
  BY <1>3, <1>4, <1>6, <1>7 DEF Beneath
<1>8b. Restore(i)
  BY <1>1
<1> HIDE DEF upto, below, cs, k, l, ks
<1>8. PICK x, y \in Nat : /\ Levels(upto, d, h, x, y)
                          /\ Bindings(dyn', param') /\ Len(dyn') = x
                          /\ IsSeq(HandlingBelow(i)) /\ Len(HandlingBelow(i)) = y
  <2>1. PICK uu, ii : uu = upto /\ ii = i
    OBVIOUS
  <2>2. /\ Levels(Top.conts, d, h, Len(dyn), Len(handling)) /\ IsSeq(Top.conts) /\ Restore(ii)
        /\ ii \in 0 .. Len(Top.conts) /\ IsSeq(uu) /\ Len(uu) = ii
        /\ \A j \in 1 .. ii : uu[j] = Top.conts[j]
    BY <1>7, <1>8a, <1>8b, <2>1, Zenon
  <2>3. \E x, y \in Nat : /\ Levels(uu, d, h, x, y)
                           /\ Bindings(dyn', param') /\ Len(dyn') = x
                           /\ IsSeq(HandlingBelow(ii)) /\ Len(HandlingBelow(ii)) = y
    BY <2>2, Discarded, SMTT(30)
  <2> QED
    BY <2>1, <2>3, Zenon
<1>9. Levels(below, d, h, x, y)
  <2>1. upto # <<>> /\ upto[i] = cs[i]
    BY <1>5, <1>6, <1>7, SeqFacts
  <2>2. PICK a, b : Levels(Front(upto), d, h, a, b) /\ Opens(upto[i], a, b, x, y)
    BY <1>7, <1>8, <2>1, LevelsPop
  <2>3. a = x /\ b = y
    BY <1>5, <2>1, <2>2 DEF Opens
  <2>4. Front(upto) = below
    <3>1. /\ IsSeq(Front(upto)) /\ Len(Front(upto)) = i - 1
          /\ \A j \in 1 .. i - 1 : Front(upto)[j] = upto[j]
      BY <1>7, <2>1, SeqFront
    <3>2. \A j \in 1 .. i - 1 : j \in 1 .. i
      BY <1>5
    <3> QED
      BY <1>7, <3>1, <3>2, SeqSame
  <2> QED
    BY <2>2, <2>3, <2>4
<1>10. Opens(k, x, y, x, y + 1) /\ y + 1 \in Nat
  BY <1>8 DEF Opens, k
<1>11. l.k \notin {"WithRestore", "PopHandler"}
  BY DEF SeqCont, l
<1>12. IsSeq(Append(below, k)) /\ Levels(Append(below, k), d, h, x, y + 1)
  BY <1>7, <1>8, <1>9, <1>10, LevelsPush, SeqAppend
<1>13. Levels(ks, d, h, x, y + 1)
  BY <1>11, <1>12, LevelsPlainPush DEF ks
<1>14. frames' = WithConts(frames, ks)
  <2>1. below \o <<k, l>> = Append(Append(below, k), l)
    BY <1>7, SeqConcat
  <2> QED
    BY <1>1, <2>1, Zenon DEF ks
<1>15. Rising(frames', x, y + 1)
  BY <1>2, <1>3, <1>8, <1>10, <1>13, <1>14, RisingConts DEF Beneath
<1>16. IsSeq(handling') /\ Len(handling') = y + 1
  BY <1>1, <1>8, SeqAppend
<1>17. Numbers(unwind', reg') /\ Ends(status', frames')
  BY <1>1 DEF DataOK, Numbers, NoUnwind, Ends
<1> QED
  BY <1>8, <1>15, <1>16, <1>17, DataNext

----------------------------------------------------------------------------
(* The invariant of the bindings, and what follows from it.                 *)

\* The module starts with nothing open,
LEMMA DataInit == Init => DataOK
<1> SUFFICES ASSUME Init PROVE DataOK
  OBVIOUS
<1> DEFINE f == TopFrame(Start)
<1>1. /\ frames = <<f>> /\ dyn = <<>> /\ handling = <<>> /\ param = 0
      /\ unwind = NoUnwind /\ reg = Nothing("Stmt") /\ status = "Running"
  BY DEF Init
<1>2. f.conts = <<SeqCont(Start)>>
  BY DEF TopFrame, Frame
<1> HIDE DEF f
<1>3. Len(dyn) = 0 /\ Len(handling) = 0
  BY <1>1
<1>4. Levels(f.conts, 0, 0, 0, 0)
  <2>1. PlainKind(SeqCont(Start))
    BY DEF PlainKind, SeqCont
  <2> QED
    BY <1>2, <2>1, PlainTuples, LevelsNew
<1>5. Len(frames) = 1 /\ frames[1] = f
  BY <1>1
<1>6. Rising(frames, 0, 0)
  <2>1. Rising(<<>>, 0, 0) /\ Len(<<>>) \in Nat /\ 1 = Len(<<>>) + 1
    BY RisingNone
  <2> QED
    <3>1. PICK low, n : low = <<>> /\ n = 1
      OBVIOUS
    <3>2. /\ Rising(low, 0, 0) /\ Len(low) \in Nat /\ n \in Nat /\ n = Len(low) + 1
          /\ Len(frames) = n
      BY <1>5, <2>1, <3>1
    <3>3. Levels(frames[n].conts, 0, 0, 0, 0)
      BY <1>4, <1>5, <3>1
    <3>4. \A j \in 1 .. n - 1 : frames[j].conts = low[j].conts
      BY <3>1
    <3> QED
      BY <3>2, <3>3, <3>4, RisingJoin
<1>7. Bindings(dyn, param)
  <2>1. 0 \in 0 .. Values - 1 /\ <<>> \in Seq(0 .. Values - 1)
    BY CallsAssumption
  <2> QED
    BY <1>1, <2>1 DEF Bindings
<1>8. Numbers(unwind, reg) /\ IsSeq(handling) /\ Ends(status, frames)
  BY <1>1 DEF Numbers, Number, NoUnwind, Nothing, IsSeq, Ends
<1> QED
  BY <1>3, <1>6, <1>7, <1>8 DEF DataOK

\* and every step keeps the counts.
LEMMA DataStep == ControlOK /\ DataOK /\ [Next]_vars => DataOK'
<1> SUFFICES ASSUME ControlOK, DataOK, [Next]_vars PROVE DataOK'
  OBVIOUS
<1>1. CASE Dispatch
  BY <1>1, SeqData, EvalData, CallData, BlockData, ChoiceData, BindData, WithBindData,
     WithRestoreData, PopHandlerData, RaiseData, ReturnBarrierData, ExitData, FinishData,
     Zenon DEF Dispatch
<1>2. CASE UnwindStep
  BY <1>2, LoopsData, BlockContinueData, LeavesData, CatchData, Zenon DEF UnwindStep
<1>3. CASE UNCHANGED vars
  BY <1>3, DataNext DEF vars, DataOK
<1> QED
  BY <1>1, <1>2, <1>3 DEF Next

\* However its bodies are left, the machine keeps exactly the bindings to
\* restore and the exceptions being handled that its continuations hold open.
THEOREM DataInvariant == Spec => []DataOK
<1> QED
  BY ControlInvariant, DataInit, DataStep, PTL DEF Spec

\* Counted from an empty stack, nothing is open.
LEMMA LeavesNothing == DataOK => NothingLeft
<1> SUFFICES ASSUME DataOK, status \in {"Done", "Uncaught"}
             PROVE  param = 0 /\ dyn = <<>> /\ handling = <<>>
  BY DEF NothingLeft
<1>1. frames = <<>>
  BY DEF DataOK, Ends
<1>2. Len(dyn) = 0 /\ Len(handling) = 0
  BY <1>1, RisingNone DEF DataOK
<1>3. IsSeq(dyn) /\ IsSeq(handling)
  BY DEF DataOK, Bindings, IsSeq
<1>4. dyn = <<>> /\ handling = <<>>
  BY <1>2, <1>3, SeqFacts
<1> QED
  BY <1>4 DEF DataOK, Bindings

\* The stack is what the machine trusts it to be: every link of a block's
\* frame and of a passed block names the activation it was made to, a reused
\* frame's included, and the stack and the parameter stay within their bounds;
\* and, whichever way its bodies are left, a run that ends leaves the parameter
\* its first value and no exception being handled.
THEOREM FramesAreSound == Spec => []FramesSound
<1>1. ControlOK /\ DataOK => FramesSound
  <2> SUFFICES ASSUME ControlOK, DataOK PROVE FramesSound
    OBVIOUS
  <2>1. PICK B, T : Control(B, T)
    BY DEF ControlOK
  <2>2. \A i \in DOMAIN frames : frames[i].kind \in {"Top", "Callable", "Block"}
    <3>1. StackOK(frames, B, T) /\ DOMAIN frames = 1 .. Len(frames)
      BY <2>1, SeqFacts DEF Control, StackOK
    <3> QED
      BY <3>1 DEF StackOK, FrameOK, Shaped
  <2>3. TypeOK
    BY <2>2 DEF ControlOK, ControlTypes, DataOK, Bindings, TypeOK
  <2> QED
    BY <2>3, LinksAreLive, LeavesNothing DEF FramesSound
<1> QED
  BY <1>1, ControlInvariant, DataInvariant, PTL

=============================================================================
