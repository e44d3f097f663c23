-------------------------- MODULE EmbeddingProofs --------------------------
(* Proofs about Embedding, for every value of its constants.                *)
EXTENDS MCEmbedding, StackLemmas, FiniteSetTheorems, TLAPS

----------------------------------------------------------------------------
(* The acts of the native stack, and the records kept for the host.         *)

Drives == {"drive", "import"}
Callbacks == [kind : {"callback"}, previous : Nat, reply : Nat, raises : BOOLEAN]
Marks == [kind : Entries, was : BOOLEAN, frames : Nat]
Others == [kind : {"finalizer", "block", "alias"}]
Acts == Callbacks \cup Marks \cup Others
Counts == [refs : Nat, owed : Nat, leaked : Nat]
Pendings == [args : Seq(Nat), capability : BOOLEAN, import : BOOLEAN, raised : BOOLEAN]
Descs == [name : Foreigns \cup {""}, params : Seq(ParamKinds), callback : BOOLEAN]

\* What an act is made of, by its kind.
LEMMA ActFacts ==
  /\ \A a \in Acts :
       /\ a.kind \in Entries \cup {"callback", "finalizer", "block", "alias"}
       /\ a.kind = "callback" => a \in Callbacks
       /\ a.kind \in Entries => a \in Marks
  /\ \A a \in Callbacks : a.kind = "callback" /\ a.previous \in Nat /\ a.reply \in Nat
  /\ \A a \in Marks : a.kind \in Entries /\ a.was \in BOOLEAN /\ a.frames \in Nat
  BY DEF Acts, Callbacks, Marks, Others, Entries

\* The acts that the steps push.
LEMMA NewActs ==
  /\ \A e \in Entries, w \in BOOLEAN, f \in Nat :
       [kind |-> e, was |-> w, frames |-> f] \in Acts
  /\ \A k \in {"finalizer", "block", "alias"} : [kind |-> k] \in Acts
  /\ \A p \in Nat :
       [kind |-> "callback", previous |-> p, reply |-> NoReply, raises |-> FALSE] \in Acts
<1>1. Callbacks \subseteq Acts /\ Marks \subseteq Acts /\ Others \subseteq Acts
  BY DEF Acts
<1>2. \A e \in Entries, w \in BOOLEAN, f \in Nat :
        [kind |-> e, was |-> w, frames |-> f] \in Acts
  BY <1>1 DEF Marks
<1>3. \A k \in {"finalizer", "block", "alias"} : [kind |-> k] \in Acts
  BY <1>1 DEF Others
<1>4. \A p \in Nat :
        [kind |-> "callback", previous |-> p, reply |-> NoReply, raises |-> FALSE] \in Acts
  BY <1>1 DEF Callbacks, NoReply
<1> QED
  BY <1>2, <1>3, <1>4

\* The act that a reply leaves.
LEMMA ReplyFacts ==
  ASSUME NEW a \in Callbacks, NEW h \in Nat, NEW r \in BOOLEAN, NEW b,
         b = [a EXCEPT !.reply = h, !.raises = r]
  PROVE  /\ b \in Acts /\ b \in Callbacks
         /\ b.kind = "callback" /\ b.previous = a.previous /\ b.reply = h
  BY DEF Callbacks, Acts

----------------------------------------------------------------------------
(* The replies on the native stack, counted.                                *)

Hands(e, h) == e.kind = "callback" /\ e.reply = h
HandedBy(st, h) == {i \in 1 .. Len(st) : Hands(st[i], h)}
Handed(st, h) == Cardinality(HandedBy(st, h))

LEMMA HandedFacts ==
  ASSUME NEW st \in Seq(Acts), NEW h
  PROVE  IsFiniteSet(HandedBy(st, h)) /\ Handed(st, h) \in Nat
<1>1. Len(st) \in Nat
  OBVIOUS
<1>2. IsFiniteSet(1 .. Len(st))
  BY <1>1, FS_Interval
<1>3. HandedBy(st, h) \subseteq 1 .. Len(st)
  BY DEF HandedBy
<1>4. IsFiniteSet(HandedBy(st, h))
  BY <1>2, <1>3, FS_Subset
<1> QED
  BY <1>4, FS_CardinalityType DEF Handed

LEMMA RepliesAreHanded ==
  ASSUME acts \in Seq(Acts), NEW h
  PROVE  Replies(h) = Handed(acts, h)
<1>1. DOMAIN acts = 1 .. Len(acts)
  OBVIOUS
<1> QED
  BY <1>1 DEF Replies, Handed, HandedBy, Hands

LEMMA HandedPush ==
  ASSUME NEW st \in Seq(Acts), NEW e \in Acts, NEW h
  PROVE  Handed(Append(st, e), h) = Handed(st, h) + (IF Hands(e, h) THEN 1 ELSE 0)
<1> DEFINE n == Len(st)
           S == HandedBy(st, h)
           T == HandedBy(Append(st, e), h)
<1>1. /\ n \in Nat /\ Len(Append(st, e)) = n + 1 /\ Append(st, e)[n + 1] = e
      /\ \A i \in 1 .. n : Append(st, e)[i] = st[i]
  BY AppendFacts
<1>2. IsFiniteSet(S) /\ Handed(st, h) \in Nat
  BY HandedFacts
<1>3. S \subseteq 1 .. n
  BY DEF HandedBy
<1>4. CASE Hands(e, h)
  <2>1. T = S \cup {n + 1}
    BY <1>1, <1>4 DEF HandedBy
  <2>2. n + 1 \notin S
    BY <1>1, <1>3
  <2>3. Cardinality(S \cup {n + 1}) = Cardinality(S) + 1
    BY <1>2, <2>2, FS_AddElement
  <2> QED
    BY <1>4, <2>1, <2>3 DEF Handed
<1>5. CASE ~Hands(e, h)
  <2>1. T = S
    BY <1>1, <1>5 DEF HandedBy
  <2> QED
    BY <1>2, <1>5, <2>1 DEF Handed
<1> QED
  BY <1>4, <1>5

LEMMA HandedPop ==
  ASSUME NEW st \in Seq(Acts), st # <<>>, NEW h
  PROVE  Handed(st, h) = Handed(Front(st), h) + (IF Hands(Last(st), h) THEN 1 ELSE 0)
<1>1. Front(st) \in Seq(Acts) /\ Last(st) \in Acts
  BY FrontFacts, LastFacts
<1>2. Append(Front(st), Last(st)) = st
  <2>1. /\ Len(st) \in Nat \ {0} /\ Last(st) = st[Len(st)] /\ Len(Front(st)) = Len(st) - 1
        /\ \A i \in 1 .. Len(st) - 1 : Front(st)[i] = st[i]
    BY FrontFacts, LastFacts
  <2> DEFINE s == Append(Front(st), Last(st))
  <2>2. /\ s \in Seq(Acts) /\ Len(s) = Len(Front(st)) + 1 /\ s[Len(Front(st)) + 1] = Last(st)
        /\ \A i \in 1 .. Len(Front(st)) : s[i] = Front(st)[i]
    BY <1>1, AppendFacts
  <2>3. Len(s) = Len(st) /\ \A i \in 1 .. Len(st) : s[i] = st[i]
    BY <2>1, <2>2
  <2> HIDE DEF s
  <2>4. s = st
    BY <2>2, <2>3, SeqEqual
  <2> QED
    BY <2>4 DEF s
<1> QED
  BY <1>1, <1>2, HandedPush

\* A handle that is not minted yet is handed over by nobody.
LEMMA HandedNone ==
  ASSUME NEW st \in Seq(Acts), NEW h,
         \A i \in 1 .. Len(st) : ~Hands(st[i], h)
  PROVE  Handed(st, h) = 0
<1>1. HandedBy(st, h) = {}
  BY DEF HandedBy
<1> QED
  BY <1>1, FS_EmptySet DEF Handed

----------------------------------------------------------------------------
(* The discipline of the native stack.                                      *)

\* One drive, or resolve of an import, at a time, and exactly while it runs.
Driven(st, ph) ==
  /\ ph = "Running" <=> \E i \in 1 .. Len(st) : st[i].kind \in Drives
  /\ \A i, j \in 1 .. Len(st) : st[i].kind \in Drives /\ st[j].kind \in Drives => i = j
  /\ \A i \in 1 .. Len(st) : st[i].kind = "free" => i = 1

\* c is the place of the innermost callback below n.
Innermost(st, c, n) ==
  /\ c \in 0 .. n
  /\ c # 0 => st[c].kind = "callback"
  /\ \A i \in c + 1 .. n : st[i].kind # "callback"

\* Each callback keeps the context that was current when it was called.
Linked(st, c) ==
  /\ Innermost(st, c, Len(st))
  /\ \A i \in 1 .. Len(st) : st[i].kind = "callback" => Innermost(st, st[i].previous, i - 1)

\* The host enters the engine from outside only.
Alone(st, drives) ==
  /\ \A i \in 1 .. Len(st) : st[i].kind \in Entries <=> i = 1
  /\ st # <<>> => ~st[1].was
  /\ drives <=> st # <<>> /\ st[1].kind = "drive"

LEMMA DrivenPush ==
  ASSUME NEW st \in Seq(Acts), NEW e \in Acts, NEW ph, NEW qh, Driven(st, ph),
         e.kind = "free" => st = <<>>,
         e.kind \in Drives => ph # "Running" /\ qh = "Running",
         e.kind \notin Drives => (qh = "Running" <=> ph = "Running")
  PROVE  Driven(Append(st, e), qh)
<1> DEFINE n == Len(st)
           tt == Append(st, e)
<1>1. /\ n \in Nat /\ Len(tt) = n + 1 /\ tt[n + 1] = e
      /\ \A i \in 1 .. n : tt[i] = st[i]
  BY AppendFacts
<1>2. st = <<>> => n = 0
  BY EmptySeq
<1> HIDE DEF n, tt
<1>3. \A i \in 1 .. Len(tt) : i \in 1 .. n \/ i = n + 1
  BY <1>1
<1>4. \A i \in 1 .. n : i \in 1 .. Len(tt) /\ i # n + 1
  BY <1>1
<1>5. n + 1 \in 1 .. Len(tt)
  BY <1>1
<1>6. qh = "Running" <=> \E i \in 1 .. Len(tt) : tt[i].kind \in Drives
  BY <1>1, <1>3, <1>4, <1>5 DEF Driven, n
<1>7. \A i, j \in 1 .. Len(tt) : tt[i].kind \in Drives /\ tt[j].kind \in Drives => i = j
  BY <1>1, <1>3 DEF Driven, n
<1>8. \A i \in 1 .. Len(tt) : tt[i].kind = "free" => i = 1
  BY <1>1, <1>2, <1>3 DEF Driven, n
<1> QED
  BY <1>6, <1>7, <1>8 DEF Driven, tt

LEMMA DrivenPop ==
  ASSUME NEW st \in Seq(Acts), st # <<>>, NEW ph, NEW qh, Driven(st, ph),
         Last(st).kind \in Drives => qh # "Running",
         Last(st).kind \notin Drives => (qh = "Running" <=> ph = "Running")
  PROVE  Driven(Front(st), qh)
<1> DEFINE n == Len(st)
           tt == Front(st)
<1>1. /\ n \in Nat \ {0} /\ Len(tt) = n - 1 /\ Last(st) = st[n]
      /\ \A i \in 1 .. n - 1 : tt[i] = st[i]
  BY FrontFacts, LastFacts
<1> HIDE DEF n, tt
<1>2. \A i \in 1 .. Len(tt) : i \in 1 .. n /\ i # n /\ tt[i] = st[i]
  BY <1>1
<1>3. \A i \in 1 .. n : i = n \/ i \in 1 .. Len(tt)
  BY <1>1
<1>4. n \in 1 .. n
  BY <1>1
<1>5. qh = "Running" <=> \E i \in 1 .. Len(tt) : tt[i].kind \in Drives
  BY <1>1, <1>2, <1>3, <1>4 DEF Driven, n
<1> QED
  BY <1>2, <1>5 DEF Driven, n, tt

LEMMA DrivenSet ==
  ASSUME NEW st \in Seq(Acts), st # <<>>, NEW ph, NEW e \in Acts, Driven(st, ph),
         Last(st).kind = "callback", e.kind = "callback"
  PROVE  Driven(Append(Front(st), e), ph)
<1>1. Front(st) \in Seq(Acts)
  BY FrontFacts
<1>2. Driven(Front(st), ph)
  BY DrivenPop DEF Drives
<1> QED
  BY <1>1, <1>2, DrivenPush DEF Drives

LEMMA LinkedPush ==
  ASSUME NEW st \in Seq(Acts), NEW e \in Acts, NEW c, NEW d, Linked(st, c),
         e.kind = "callback" => e.previous = c /\ d = Len(st) + 1,
         e.kind # "callback" => d = c
  PROVE  Linked(Append(st, e), d)
<1> DEFINE n == Len(st)
           tt == Append(st, e)
<1>1. /\ n \in Nat /\ Len(tt) = n + 1 /\ tt[n + 1] = e
      /\ \A i \in 1 .. n : tt[i] = st[i]
  BY AppendFacts
<1> HIDE DEF n, tt
<1>2. ASSUME NEW m \in 0 .. n, NEW k, Innermost(st, k, m) PROVE Innermost(tt, k, m)
  BY <1>1, <1>2 DEF Innermost
<1>3. Innermost(st, c, n)
  BY DEF Linked, n
<1>4. Innermost(tt, c, n)
  BY <1>1, <1>2, <1>3
<1>5. Innermost(tt, d, n + 1)
  <2>1. CASE e.kind = "callback"
    BY <1>1, <2>1 DEF Innermost, n
  <2>2. CASE e.kind # "callback"
    BY <1>1, <1>4, <2>2 DEF Innermost
  <2> QED
    BY <2>1, <2>2
<1>6. ASSUME NEW i \in 1 .. Len(tt), tt[i].kind = "callback"
      PROVE  Innermost(tt, tt[i].previous, i - 1)
  <2>1. CASE i = n + 1
    <3>1. tt[i].previous = c /\ i - 1 = n
      BY <1>1, <1>6, <2>1
    <3> QED
      BY <1>4, <3>1
  <2>2. CASE i # n + 1
    <3>1. i \in 1 .. n /\ tt[i] = st[i] /\ i - 1 \in 0 .. n
      BY <1>1, <2>2
    <3>2. Innermost(st, st[i].previous, i - 1)
      BY <1>6, <3>1 DEF Linked, n
    <3> QED
      BY <1>2, <3>1, <3>2
  <2> QED
    BY <2>1, <2>2
<1> QED
  BY <1>1, <1>5, <1>6 DEF Linked, tt

LEMMA LinkedPop ==
  ASSUME NEW st \in Seq(Acts), st # <<>>, NEW c, NEW d, Linked(st, c),
         Last(st).kind = "callback" => d = Last(st).previous,
         Last(st).kind # "callback" => d = c
  PROVE  Linked(Front(st), d)
<1> DEFINE n == Len(st)
           tt == Front(st)
<1>1. /\ n \in Nat \ {0} /\ Len(tt) = n - 1 /\ Last(st) = st[n]
      /\ \A i \in 1 .. n - 1 : tt[i] = st[i]
  BY FrontFacts, LastFacts
<1> HIDE DEF n, tt
<1>2. ASSUME NEW m \in 0 .. n - 1, NEW k, Innermost(st, k, m) PROVE Innermost(tt, k, m)
  BY <1>1, <1>2 DEF Innermost
<1>3. Innermost(st, c, n)
  BY DEF Linked, n
<1>4. Innermost(tt, d, n - 1)
  <2>1. CASE Last(st).kind = "callback"
    <3>1. Innermost(st, d, n - 1)
      BY <1>1, <2>1 DEF Linked, n
    <3> QED
      BY <1>1, <1>2, <3>1
  <2>2. CASE Last(st).kind # "callback"
    BY <1>1, <1>3, <2>2 DEF Innermost
  <2> QED
    BY <2>1, <2>2
<1>5. ASSUME NEW i \in 1 .. Len(tt), tt[i].kind = "callback"
      PROVE  Innermost(tt, tt[i].previous, i - 1)
  <2>1. i \in 1 .. n /\ tt[i] = st[i] /\ i - 1 \in 0 .. n - 1
    BY <1>1
  <2>2. Innermost(st, st[i].previous, i - 1)
    BY <1>5, <2>1 DEF Linked, n
  <2> QED
    BY <1>2, <2>1, <2>2
<1> QED
  BY <1>1, <1>4, <1>5 DEF Linked, tt

LEMMA LinkedSet ==
  ASSUME NEW st \in Seq(Acts), st # <<>>, NEW c, NEW e \in Acts, Linked(st, c),
         Last(st).kind = "callback", e.kind = "callback", e.previous = Last(st).previous
  PROVE  Linked(Append(Front(st), e), c)
<1>1. Front(st) \in Seq(Acts) /\ Len(Front(st)) = Len(st) - 1 /\ Len(st) \in Nat \ {0}
  BY FrontFacts, LastFacts
<1>2. Linked(Front(st), Last(st).previous)
  BY LinkedPop
<1>3. c = Len(Front(st)) + 1
  <2>1. Innermost(st, c, Len(st)) /\ Last(st) = st[Len(st)]
    BY LastFacts DEF Linked
  <2> QED
    BY <1>1, <2>1 DEF Innermost
<1> QED
  BY <1>1, <1>2, <1>3, LinkedPush

LEMMA AlonePush ==
  ASSUME NEW st \in Seq(Acts), NEW e \in Acts, NEW d \in BOOLEAN, NEW f \in BOOLEAN,
         Alone(st, d),
         st = <<>> => e.kind \in Entries /\ ~e.was /\ (f <=> e.kind = "drive"),
         st # <<>> => e.kind \notin Entries /\ f = d
  PROVE  Alone(Append(st, e), f)
<1> DEFINE n == Len(st)
           tt == Append(st, e)
<1>1. /\ n \in Nat /\ Len(tt) = n + 1 /\ tt[n + 1] = e
      /\ \A i \in 1 .. n : tt[i] = st[i]
  BY AppendFacts
<1>2. st = <<>> <=> n = 0
  BY EmptySeq
<1>3. tt # <<>>
  BY <1>1, EmptySeq
<1> HIDE DEF n, tt
<1>5. CASE st = <<>>
  <2>1. tt[1] = e /\ Len(tt) = 1
    BY <1>1, <1>2, <1>5
  <2>2. \A i \in 1 .. 1 : i = 1
    OBVIOUS
  <2> QED
    BY <1>3, <1>5, <2>1, <2>2 DEF Alone, tt
<1>6. CASE st # <<>>
  <2>1. n \in Nat \ {0} /\ tt[1] = st[1] /\ 1 \in 1 .. n
    BY <1>1, <1>2, <1>6
  <2>2. \A i \in 1 .. Len(tt) : tt[i].kind \in Entries <=> i = 1
    BY <1>1, <1>6, <2>1 DEF Alone, n
  <2> QED
    BY <1>3, <1>6, <2>1, <2>2 DEF Alone, tt
<1> QED
  BY <1>5, <1>6

LEMMA AlonePop ==
  ASSUME NEW st \in Seq(Acts), st # <<>>, NEW d \in BOOLEAN, NEW f \in BOOLEAN,
         Alone(st, d),
         Last(st).kind \in Entries => f = FALSE,
         Last(st).kind \notin Entries => f = d
  PROVE  /\ Alone(Front(st), f)
         /\ Last(st).kind \in Entries <=> Front(st) = <<>>
         /\ Front(st) # <<>> => Front(st)[1] = st[1]
         /\ Last(st).kind \in Entries => Last(st) = st[1]
<1> DEFINE n == Len(st)
           tt == Front(st)
<1>1. /\ n \in Nat \ {0} /\ Len(tt) = n - 1 /\ Last(st) = st[n]
      /\ \A i \in 1 .. n - 1 : tt[i] = st[i]
  BY FrontFacts, LastFacts
<1>2. tt = <<>> <=> n = 1
  <2>1. tt \in Seq(Acts)
    BY FrontFacts
  <2> QED
    BY <1>1, <2>1, EmptySeq
<1> HIDE DEF n, tt
<1>3. Last(st).kind \in Entries <=> n = 1
  BY <1>1 DEF Alone, n
<1>4. CASE n = 1
  <2>1. Len(tt) = 0 /\ f = FALSE /\ tt = <<>>
    BY <1>1, <1>2, <1>3, <1>4
  <2>2. \A i \in 1 .. 0 : FALSE
    OBVIOUS
  <2>4. Alone(tt, f)
    BY <2>1, <2>2 DEF Alone
  <2> QED
    BY <1>1, <1>2, <1>3, <1>4, <2>4 DEF tt
<1>5. CASE n # 1
  <2>1. tt # <<>> /\ tt[1] = st[1] /\ f = d
    BY <1>1, <1>2, <1>3, <1>5
  <2>2. \A i \in 1 .. Len(tt) : i \in 1 .. Len(st) /\ tt[i] = st[i]
    BY <1>1 DEF n
  <2>4. Alone(tt, f)
    BY <2>1, <2>2 DEF Alone
  <2> QED
    BY <1>3, <1>5, <2>1, <2>4 DEF tt
<1> QED
  BY <1>4, <1>5

LEMMA AloneSet ==
  ASSUME NEW st \in Seq(Acts), st # <<>>, NEW d \in BOOLEAN, NEW e \in Acts, Alone(st, d),
         Last(st).kind = "callback", e.kind = "callback"
  PROVE  /\ Alone(Append(Front(st), e), d)
         /\ Append(Front(st), e)[1] = st[1] /\ Append(Front(st), e) # <<>>
<1>1. Front(st) \in Seq(Acts) /\ "callback" \notin Entries
  BY FrontFacts DEF Entries
<1>2. Alone(Front(st), d) /\ Front(st) # <<>> /\ Front(st)[1] = st[1]
  BY <1>1, AlonePop
<1>4. Alone(Append(Front(st), e), d)
  BY <1>1, <1>2, AlonePush
<1>5. /\ Append(Front(st), e) \in Seq(Acts) /\ Len(Append(Front(st), e)) = Len(Front(st)) + 1
      /\ \A i \in 1 .. Len(Front(st)) : Append(Front(st), e)[i] = Front(st)[i]
  BY <1>1, AppendFacts
<1>6. Len(Front(st)) \in Nat \ {0}
  BY <1>1, <1>2, LastFacts
<1> QED
  BY <1>2, <1>4, <1>5, <1>6, EmptySeq

----------------------------------------------------------------------------
(* The counts of the handles.                                               *)

\* Each reference in the table is one that is owed, leaked or handed over.
Fits(c, r) ==
  \/ c.refs = c.owed + c.leaked + r
  \/ c.refs = 0 /\ c.owed = 0 /\ c.leaked = 0
Balanced(hs, st) == \A h \in 1 .. Len(hs) : Fits(hs[h], Handed(st, h))

\* The acts that run hand over handles of the table.
Within(st, n) == \A i \in 1 .. Len(st) : st[i].kind = "callback" => st[i].reply \in 0 .. n

LEMMA WithinPush ==
  ASSUME NEW st \in Seq(Acts), NEW e \in Acts, NEW n, Within(st, n),
         e.kind = "callback" => e.reply \in 0 .. n
  PROVE  Within(Append(st, e), n)
<1> DEFINE m == Len(st)
           tt == Append(st, e)
<1>1. /\ m \in Nat /\ Len(tt) = m + 1 /\ tt[m + 1] = e
      /\ \A i \in 1 .. m : tt[i] = st[i]
  BY AppendFacts
<1> HIDE DEF m, tt
<1>2. \A i \in 1 .. Len(tt) : i \in 1 .. m \/ i = m + 1
  BY <1>1
<1>3. Within(tt, n)
  BY <1>1, <1>2 DEF Within, m
<1> QED
  BY <1>3 DEF tt

LEMMA WithinPop ==
  ASSUME NEW st \in Seq(Acts), st # <<>>, NEW n, Within(st, n)
  PROVE  /\ Within(Front(st), n)
         /\ Last(st).kind = "callback" => Last(st).reply \in 0 .. n
<1> DEFINE m == Len(st)
           tt == Front(st)
<1>1. /\ m \in Nat \ {0} /\ Len(tt) = m - 1 /\ Last(st) = st[m]
      /\ \A i \in 1 .. m - 1 : tt[i] = st[i]
  BY FrontFacts, LastFacts
<1> HIDE DEF m, tt
<1>2. \A i \in 1 .. Len(tt) : i \in 1 .. m /\ tt[i] = st[i]
  BY <1>1
<1>3. Within(tt, n)
  BY <1>2 DEF Within, m
<1> QED
  BY <1>1, <1>3 DEF Within, tt, m

LEMMA WithinMore ==
  ASSUME NEW st, NEW n \in Nat, NEW m \in Nat, Within(st, n)
  PROVE  Within(st, n + m)
  BY DEF Within

LEMMA MintedFacts ==
  ASSUME NEW hs \in Seq(Counts), NEW n \in Nat, NEW G,
         G = hs \o [i \in 1 .. n |-> Fresh]
  PROVE  /\ G \in Seq(Counts) /\ Len(G) = Len(hs) + n
         /\ \A i \in 1 .. Len(hs) : G[i] = hs[i]
         /\ \A i \in Len(hs) + 1 .. Len(hs) + n : G[i] = Fresh
<1> DEFINE f == [i \in 1 .. n |-> Fresh]
<1>1. Fresh \in Counts
  BY DEF Fresh, Counts
<1>2. f \in Seq(Counts) /\ Len(f) = n /\ \A i \in 1 .. n : f[i] = Fresh
  BY <1>1
<1>3. Len(hs) \in Nat
  OBVIOUS
<1> HIDE DEF f
<1>4. /\ hs \o f \in Seq(Counts)
      /\ Len(hs \o f) = Len(hs) + Len(f)
      /\ \A i \in 1 .. Len(hs) + Len(f) :
           (hs \o f)[i] = IF i <= Len(hs) THEN hs[i] ELSE f[i - Len(hs)]
  BY <1>2, ConcatProperties
<1>5. G = hs \o f
  BY DEF f
<1>6. \A i \in 1 .. Len(hs) : i \in 1 .. Len(hs) + Len(f) /\ i <= Len(hs)
  BY <1>2, <1>3
<1>7. \A i \in Len(hs) + 1 .. Len(hs) + n :
        i \in 1 .. Len(hs) + Len(f) /\ ~(i <= Len(hs)) /\ i - Len(hs) \in 1 .. n
  BY <1>2, <1>3
<1> QED
  BY <1>2, <1>4, <1>5, <1>6, <1>7

\* A handle that is minted is owed, and no reply names it yet.
LEMMA BalancedMint ==
  ASSUME NEW hs \in Seq(Counts), NEW n \in Nat, NEW G, NEW st \in Seq(Acts),
         G = hs \o [i \in 1 .. n |-> Fresh],
         Balanced(hs, st), Within(st, Len(hs))
  PROVE  Balanced(G, st)
<1>1. /\ Len(G) = Len(hs) + n /\ Len(hs) \in Nat
      /\ \A i \in 1 .. Len(hs) : G[i] = hs[i]
      /\ \A i \in Len(hs) + 1 .. Len(hs) + n : G[i] = Fresh
  BY MintedFacts
<1>2. ASSUME NEW h \in Len(hs) + 1 .. Len(hs) + n PROVE Fits(G[h], Handed(st, h))
  <2>1. \A i \in 1 .. Len(st) : ~Hands(st[i], h)
    BY <1>1 DEF Within, Hands
  <2>2. Handed(st, h) = 0
    BY <2>1, HandedNone
  <2> QED
    BY <1>1, <2>2 DEF Fits, Fresh
<1>3. ASSUME NEW h \in 1 .. Len(hs) PROVE Fits(G[h], Handed(st, h))
  BY <1>1 DEF Balanced
<1>4. \A h \in 1 .. Len(G) : h \in 1 .. Len(hs) \/ h \in Len(hs) + 1 .. Len(hs) + n
  BY <1>1
<1> QED
  BY <1>2, <1>3, <1>4 DEF Balanced

\* One count changed.
LEMMA BalancedOne ==
  ASSUME NEW hs \in Seq(Counts), NEW g \in 1 .. Len(hs), NEW c \in Counts, NEW G,
         NEW st \in Seq(Acts), NEW tt \in Seq(Acts),
         G = [hs EXCEPT ![g] = c], Balanced(hs, st),
         \A h \in 1 .. Len(hs) : h # g => Handed(tt, h) = Handed(st, h),
         Fits(c, Handed(tt, g))
  PROVE  G \in Seq(Counts) /\ Len(G) = Len(hs) /\ Balanced(G, tt)
<1>1. /\ G \in Seq(Counts) /\ Len(G) = Len(hs) /\ G[g] = c
      /\ \A j \in 1 .. Len(hs) : j # g => G[j] = hs[j]
  BY ExceptFacts
<1>2. ASSUME NEW h \in 1 .. Len(G) PROVE Fits(G[h], Handed(tt, h))
  <2>1. CASE h = g
    BY <1>1, <2>1
  <2>2. CASE h # g
    BY <1>1, <2>2 DEF Balanced
  <2> QED
    BY <2>1, <2>2
<1> QED
  BY <1>1, <1>2 DEF Balanced

\* A stack whose replies are the same.
LEMMA BalancedSame ==
  ASSUME NEW hs \in Seq(Counts), NEW st, NEW tt, Balanced(hs, st),
         \A h \in 1 .. Len(hs) : Handed(tt, h) = Handed(st, h)
  PROVE  Balanced(hs, tt)
  BY DEF Balanced

\* A count, edited.
LEMMA CountFields ==
  ASSUME NEW c \in Counts
  PROVE  c.refs \in Nat /\ c.owed \in Nat /\ c.leaked \in Nat
  BY DEF Counts

LEMMA OwedLess ==
  ASSUME NEW c \in Counts, c.owed > 0, NEW d, d = [c EXCEPT !.owed = c.owed - 1]
  PROVE  d \in Counts /\ d.refs = c.refs /\ d.owed = c.owed - 1 /\ d.leaked = c.leaked
  BY DEF Counts

LEMMA RefsLess ==
  ASSUME NEW c \in Counts, c.refs > 0, NEW d, d = [c EXCEPT !.refs = c.refs - 1]
  PROVE  d \in Counts /\ d.refs = c.refs - 1 /\ d.owed = c.owed /\ d.leaked = c.leaked
  BY DEF Counts

LEMMA LeakedMore ==
  ASSUME NEW c \in Counts, NEW d, d = [c EXCEPT !.leaked = c.leaked + 1]
  PROVE  d \in Counts /\ d.refs = c.refs /\ d.owed = c.owed /\ d.leaked = c.leaked + 1
  BY DEF Counts

LEMMA FitsGiven ==
  ASSUME NEW c \in Counts, NEW d \in Counts, NEW r \in Nat, Fits(c, r), c.owed > 0,
         d.leaked = c.leaked,
         \/ d.refs = c.refs - 1 /\ d.owed = c.owed - 1
         \/ d.refs = c.refs + 1 /\ d.owed = c.owed + 1
  PROVE  Fits(d, r)
  BY CountFields DEF Fits

LEMMA FitsZero ==
  ASSUME NEW c \in Counts, NEW r \in Nat, Fits(c, r), c.refs = 0
  PROVE  c.owed = 0 /\ c.leaked = 0
  BY CountFields DEF Fits

LEMMA FitsSome ==
  ASSUME NEW c \in Counts, NEW r \in Nat, Fits(c, r), c.refs # 0
  PROVE  c.refs = c.owed + c.leaked + r
  BY CountFields DEF Fits

LEMMA FitsDrop ==
  ASSUME NEW c \in Counts, NEW d \in Counts, NEW r \in Nat, Fits(c, r + 1),
         \/ c.refs = 0 /\ d = c
         \/ c.refs # 0 /\ d.refs = c.refs /\ d.owed = c.owed /\ d.leaked = c.leaked + 1
         \/ c.refs # 0 /\ d.refs = c.refs - 1 /\ d.owed = c.owed /\ d.leaked = c.leaked
  PROVE  Fits(d, r)
<1>1. r + 1 \in Nat /\ c.refs \in Nat /\ c.owed \in Nat /\ c.leaked \in Nat
  BY CountFields
<1>2. CASE c.refs = 0
  <2>1. c.owed = 0 /\ c.leaked = 0
    BY <1>1, <1>2, FitsZero
  <2> QED
    BY <1>2, <2>1 DEF Fits
<1>3. CASE c.refs # 0
  <2>1. c.refs = c.owed + c.leaked + (r + 1)
    BY <1>1, <1>3, FitsSome
  <2>2. d.refs = d.owed + d.leaked + r
    BY <1>1, <1>3, <2>1
  <2> QED
    BY <2>2 DEF Fits
<1> QED
  BY <1>2, <1>3

LEMMA FitsReply ==
  ASSUME NEW c \in Counts, NEW d \in Counts, NEW r \in Nat, Fits(c, r),
         \/ c.refs = 0 /\ d = c
         \/ c.owed > 0 /\ d.refs = c.refs /\ d.owed = c.owed - 1 /\ d.leaked = c.leaked
  PROVE  Fits(d, r + 1)
<1>1. c.refs \in Nat /\ c.owed \in Nat /\ c.leaked \in Nat
  BY CountFields
<1>2. c.refs = 0 => c.owed = 0 /\ c.leaked = 0
  BY FitsZero
<1>3. CASE c.refs = 0
  BY <1>1, <1>2, <1>3 DEF Fits
<1>4. CASE c.refs # 0
  <2>1. c.refs = c.owed + c.leaked + r
    BY <1>4, FitsSome
  <2>2. d.refs = d.owed + d.leaked + (r + 1)
    BY <1>1, <1>4, <2>1
  <2> QED
    BY <2>2 DEF Fits
<1> QED
  BY <1>3, <1>4

----------------------------------------------------------------------------
(* What the steps do to the handles.                                        *)

\* Release and retain: the host gives back a reference, or takes one more.
LEMMA GivenCount ==
  ASSUME NEW h, NEW c \in Counts, c = handles[h], c.refs > 0, c.owed > 0,
         NEW G, G = Release(h) \/ G = Retain(h)
  PROVE  \E d \in Counts :
           /\ G = [handles EXCEPT ![h] = d] /\ d.leaked = c.leaked
           /\ \/ d.refs = c.refs - 1 /\ d.owed = c.owed - 1
              \/ d.refs = c.refs + 1 /\ d.owed = c.owed + 1
<1>1. /\ DOMAIN c = {"refs", "owed", "leaked"}
      /\ c.refs \in Nat /\ c.owed \in Nat /\ c.leaked \in Nat
  BY DEF Counts
<1>2. CASE G = Release(h)
  <2> PICK d : d = [c EXCEPT !.refs = c.refs - 1, !.owed = c.owed - 1]
    OBVIOUS
  <2>1. d.refs = c.refs - 1 /\ d.owed = c.owed - 1 /\ d.leaked = c.leaked
    BY <1>1
  <2>2. d = [refs |-> d.refs, owed |-> d.owed, leaked |-> d.leaked]
    BY <1>1
  <2>3. d.refs \in Nat /\ d.owed \in Nat /\ d.leaked \in Nat
    BY <1>1, <2>1
  <2>4. d \in Counts
    BY <2>2, <2>3 DEF Counts
  <2>5. G = [handles EXCEPT ![h] = d]
    BY <1>2 DEF Release
  <2> QED
    BY <2>1, <2>4, <2>5
<1>3. CASE G = Retain(h)
  <2> PICK d : d = [c EXCEPT !.refs = c.refs + 1, !.owed = c.owed + 1]
    OBVIOUS
  <2>1. d.refs = c.refs + 1 /\ d.owed = c.owed + 1 /\ d.leaked = c.leaked
    BY <1>1
  <2>2. d = [refs |-> d.refs, owed |-> d.owed, leaked |-> d.leaked]
    BY <1>1
  <2>3. d.refs \in Nat /\ d.owed \in Nat /\ d.leaked \in Nat
    BY <1>1, <2>1
  <2>4. d \in Counts
    BY <2>2, <2>3 DEF Counts
  <2>5. G = [handles EXCEPT ![h] = d]
    BY <1>3 DEF Retain
  <2> QED
    BY <2>1, <2>4, <2>5
<1> QED
  BY <1>2, <1>3

LEMMA GivenFacts ==
  ASSUME handles \in Seq(Counts), acts \in Seq(Acts), Balanced(handles, acts),
         NEW h \in Ids, Given(h), NEW G, G = Release(h) \/ G = Retain(h)
  PROVE  G \in Seq(Counts) /\ Len(G) = Len(handles) /\ Balanced(G, acts)
<1>1. PICK c : c = handles[h]
  OBVIOUS
<1>2. h \in 1 .. Len(handles) /\ c \in Counts
  BY <1>1 DEF Ids
<1>3. Handed(acts, h) \in Nat
  BY HandedFacts
<1>4. Fits(c, Handed(acts, h)) /\ c.owed > 0
  BY <1>1, <1>2 DEF Balanced, Given
<1>5. c.refs > 0
  <2>1. c.refs \in Nat /\ c.owed \in Nat /\ c.leaked \in Nat
    BY <1>2, CountFields
  <2> QED
    BY <1>3, <1>4, <2>1 DEF Fits
<1>6. PICK d \in Counts :
        /\ G = [handles EXCEPT ![h] = d] /\ d.leaked = c.leaked
        /\ \/ d.refs = c.refs - 1 /\ d.owed = c.owed - 1
           \/ d.refs = c.refs + 1 /\ d.owed = c.owed + 1
  BY <1>1, <1>2, <1>4, <1>5, GivenCount, SMTT(30)
<1>7. Fits(d, Handed(acts, h))
  BY <1>2, <1>3, <1>4, <1>6, FitsGiven
<1> QED
  BY <1>2, <1>6, <1>7, BalancedOne

\* A reply that is forgotten, or consumed, leaves with its callback.
LEMMA DropCount ==
  ASSUME NEW h, h # NoReply, NEW c \in Counts, c = handles[h], NEW G,
         \/ G = Leak(handles, h)
         \/ G = handles /\ Stale(h)
         \/ G = Consume(h) /\ ~Stale(h)
  PROVE  \/ c.refs = 0 /\ G = handles
         \/ c.refs # 0 /\ \E d \in Counts :
              /\ G = [handles EXCEPT ![h] = d] /\ d.owed = c.owed
              /\ \/ d.refs = c.refs /\ d.leaked = c.leaked + 1
                 \/ d.refs = c.refs - 1 /\ d.leaked = c.leaked
<1>1. c.refs \in Nat
  BY CountFields
<1>2. CASE c.refs = 0
  BY <1>2 DEF Leak, Stale
<1>3. CASE c.refs # 0 /\ G = Leak(handles, h)
  <2> PICK d : d = [c EXCEPT !.leaked = c.leaked + 1]
    OBVIOUS
  <2>1. d \in Counts /\ d.refs = c.refs /\ d.owed = c.owed /\ d.leaked = c.leaked + 1
    BY LeakedMore
  <2>2. G = [handles EXCEPT ![h] = d]
    BY <1>3 DEF Leak
  <2> QED
    BY <1>3, <2>1, <2>2
<1>4. CASE c.refs # 0 /\ G = Consume(h)
  <2> PICK d : d = [c EXCEPT !.refs = c.refs - 1]
    OBVIOUS
  <2>1. d \in Counts /\ d.refs = c.refs - 1 /\ d.owed = c.owed /\ d.leaked = c.leaked
    BY <1>1, <1>4, RefsLess
  <2>2. G = [handles EXCEPT ![h] = d]
    BY <1>4 DEF Consume
  <2> QED
    BY <1>4, <2>1, <2>2
<1> QED
  BY <1>2, <1>3, <1>4 DEF Stale

LEMMA DropFacts ==
  ASSUME handles \in Seq(Counts), acts \in Seq(Acts), Balanced(handles, acts),
         Within(acts, Len(handles)),
         acts # <<>>, Last(acts).kind = "callback", NEW h, h = Last(acts).reply, NEW G,
         \/ G = Leak(handles, h)
         \/ G = handles /\ (h = NoReply \/ Stale(h))
         \/ G = Consume(h) /\ h # NoReply /\ ~Stale(h)
  PROVE  G \in Seq(Counts) /\ Len(G) = Len(handles) /\ Balanced(G, Front(acts))
<1>1. PICK st : st = Front(acts)
  OBVIOUS
<1>2. st \in Seq(Acts)
  BY <1>1, FrontFacts
<1>3. h \in 0 .. Len(handles) /\ Len(handles) \in Nat
  BY WithinPop
<1>4. /\ \A g \in 1 .. Len(handles) : g # h => Handed(st, g) = Handed(acts, g)
      /\ Handed(acts, h) = Handed(st, h) + 1 /\ Handed(st, h) \in Nat
  <2>1. ASSUME NEW g PROVE Handed(acts, g) = Handed(st, g) + (IF h = g THEN 1 ELSE 0)
    BY <1>1, HandedPop DEF Hands
  <2>2. ASSUME NEW g PROVE Handed(acts, g) \in Nat /\ Handed(st, g) \in Nat
    BY <1>2, HandedFacts
  <2> QED
    BY <2>1, <2>2
<1>5. CASE h = NoReply
  <2>1. G = handles
    BY <1>5 DEF Leak
  <2>2. \A g \in 1 .. Len(handles) : Handed(st, g) = Handed(acts, g)
    BY <1>3, <1>4, <1>5 DEF NoReply
  <2>3. Balanced(handles, st)
    BY <2>2, BalancedSame
  <2> QED
    BY <1>1, <2>1, <2>3
<1>6. CASE h # NoReply
  <2>1. h \in 1 .. Len(handles)
    BY <1>3, <1>6 DEF NoReply
  <2>2. PICK c \in Counts : c = handles[h]
    BY <2>1
  <2>3. Fits(c, Handed(st, h) + 1)
    BY <1>4, <2>1, <2>2 DEF Balanced
  <2>4. PICK d \in Counts :
          /\ G = [handles EXCEPT ![h] = d]
          /\ \/ c.refs = 0 /\ d = c
             \/ c.refs # 0 /\ d.refs = c.refs /\ d.owed = c.owed /\ d.leaked = c.leaked + 1
             \/ c.refs # 0 /\ d.refs = c.refs - 1 /\ d.owed = c.owed /\ d.leaked = c.leaked
    <3>1. CASE c.refs = 0 /\ G = handles
      <4>1. G = [handles EXCEPT ![h] = c]
        BY <2>1, <2>2, <3>1
      <4> QED
        BY <3>1, <4>1
    <3>2. CASE c.refs # 0 /\ \E d \in Counts :
              /\ G = [handles EXCEPT ![h] = d] /\ d.owed = c.owed
              /\ \/ d.refs = c.refs /\ d.leaked = c.leaked + 1
                 \/ d.refs = c.refs - 1 /\ d.leaked = c.leaked
      BY <3>2
    <3> QED
      BY <1>6, <2>2, <3>1, <3>2, DropCount
  <2>5. Fits(d, Handed(st, h))
    BY <1>4, <2>3, <2>4, FitsDrop
  <2>6. G = [handles EXCEPT ![h] = d]
    BY <2>4
  <2>7. \A g \in 1 .. Len(handles) : g # h => Handed(st, g) = Handed(acts, g)
    BY <1>4
  <2>8. G \in Seq(Counts) /\ Len(G) = Len(handles) /\ Balanced(G, st)
    BY <1>2, <2>1, <2>5, <2>6, <2>7, BalancedOne, ZenonT(30)
  <2> QED
    BY <1>1, <2>8
<1> QED
  BY <1>5, <1>6

\* What a reply that is forgotten leaves of a handle.
LEMMA LeakKeeps ==
  ASSUME NEW hs \in Seq(Counts), NEW g \in 0 .. Len(hs), NEW h \in 1 .. Len(hs), NEW ls,
         ls = Leak(hs, g)
  PROVE  ls[h].refs = hs[h].refs /\ ls[h].owed = hs[h].owed
<1>1. CASE ls = hs
  BY <1>1
<1>2. CASE ls # hs
  <2> PICK k : k = hs[g]
    OBVIOUS
  <2> PICK d : d = [k EXCEPT !.leaked = k.leaked + 1]
    OBVIOUS
  <2>1. g \in 1 .. Len(hs) /\ k \in Counts
    BY <1>2 DEF Leak, NoReply
  <2>2. d \in Counts /\ d.refs = k.refs /\ d.owed = k.owed
    BY <2>1, LeakedMore
  <2>3. ls = [hs EXCEPT ![g] = d]
    BY <1>2 DEF Leak
  <2>4. ls[g] = d /\ \A j \in 1 .. Len(hs) : j # g => ls[j] = hs[j]
    BY <2>1, <2>2, <2>3, ExceptFacts
  <2> QED
    BY <2>2, <2>4
<1> QED
  BY <1>1, <1>2

\* A second reply takes the place of the first.
LEMMA ReplyCount ==
  ASSUME NEW ls \in Seq(Counts), NEW h \in 1 .. Len(ls), NEW c \in Counts, c = ls[h],
         c.refs = 0 \/ c.owed > 0, NEW r \in Nat, Fits(c, r),
         NEW G, G = HandOver(ls, h)
  PROVE  \E d \in Counts : G = [ls EXCEPT ![h] = d] /\ Fits(d, r + 1)
<1>1. CASE c.owed > 0
  <2> PICK d : d = [c EXCEPT !.owed = c.owed - 1]
    OBVIOUS
  <2>1. d \in Counts /\ d.refs = c.refs /\ d.owed = c.owed - 1 /\ d.leaked = c.leaked
    BY <1>1, OwedLess
  <2>2. Fits(d, r + 1)
    BY <1>1, <2>1, FitsReply
  <2>3. G = [ls EXCEPT ![h] = d]
    BY <1>1 DEF HandOver
  <2> QED
    BY <2>1, <2>2, <2>3
<1>2. CASE ~(c.owed > 0)
  <2>1. c.refs = 0 /\ Fits(c, r + 1)
    BY <1>2, FitsReply
  <2>2. G = ls
    BY <1>2 DEF HandOver
  <2>3. G = [ls EXCEPT ![h] = c]
    BY <2>2
  <2> QED
    BY <2>1, <2>3
<1> QED
  BY <1>1, <1>2

LEMMA ReplaceFacts ==
  ASSUME handles \in Seq(Counts), acts \in Seq(Acts), Balanced(handles, acts),
         Within(acts, Len(handles)),
         acts # <<>>, Last(acts).kind = "callback",
         NEW h \in 1 .. Len(handles), Given(h) \/ Stale(h), NEW e \in Acts, Hands(e, h), NEW G,
         G = HandOver(Leak(handles, Last(acts).reply), h)
  PROVE  G \in Seq(Counts) /\ Len(G) = Len(handles) /\ Balanced(G, Append(Front(acts), e))
<1>1. PICK ls : ls = Leak(handles, Last(acts).reply)
  OBVIOUS
<1>2. PICK ft : ft = Front(acts)
  OBVIOUS
<1>3. PICK st : st = Append(ft, e)
  OBVIOUS
<1>4. ls \in Seq(Counts) /\ Len(ls) = Len(handles) /\ Balanced(ls, ft)
  BY <1>1, <1>2, DropFacts
<1>5. ft \in Seq(Acts)
  BY <1>2, FrontFacts
<1>6. st \in Seq(Acts)
  BY <1>3, <1>5, AppendFacts
<1>7. /\ \A g \in 1 .. Len(handles) : g # h => Handed(st, g) = Handed(ft, g)
      /\ Handed(st, h) = Handed(ft, h) + 1 /\ Handed(ft, h) \in Nat
  <2>1. ASSUME NEW g PROVE Handed(st, g) = Handed(ft, g) + (IF h = g THEN 1 ELSE 0)
    BY <1>3, <1>5, HandedPush DEF Hands
  <2>2. ASSUME NEW g PROVE Handed(ft, g) \in Nat
    BY <1>5, HandedFacts
  <2> QED
    BY <2>1, <2>2
<1>8. PICK c \in Counts : c = ls[h]
  BY <1>4
<1>9. Fits(c, Handed(ft, h)) /\ h \in 1 .. Len(ls)
  BY <1>4, <1>8 DEF Balanced
<1>10. c.refs = 0 \/ c.owed > 0
  <2>1. c.owed = handles[h].owed /\ c.refs = handles[h].refs
    BY <1>1, <1>8, WithinPop, LeakKeeps
  <2> QED
    BY <2>1 DEF Given, Stale
<1>11. PICK d \in Counts : G = [ls EXCEPT ![h] = d] /\ Fits(d, Handed(ft, h) + 1)
  <2>1. G = HandOver(ls, h) /\ Handed(ft, h) \in Nat
    BY <1>1, <1>7
  <2>2. ls \in Seq(Counts)
    BY <1>4
  <2> QED
    BY <1>8, <1>9, <1>10, <2>1, <2>2, ReplyCount
<1>12. Fits(d, Handed(st, h))
  BY <1>7, <1>11
<1>13. \A g \in 1 .. Len(ls) : g # h => Handed(st, g) = Handed(ft, g)
  BY <1>4, <1>7
<1>14. G \in Seq(Counts) /\ Len(G) = Len(ls) /\ Balanced(G, st)
  BY <1>4, <1>5, <1>6, <1>9, <1>11, <1>12, <1>13, BalancedOne
<1> QED
  BY <1>2, <1>3, <1>4, <1>14

----------------------------------------------------------------------------
(* The contexts the host was given.                                         *)

\* The places of the callbacks that run are contexts the host was given.
Placed(st, s) == \A i \in 1 .. Len(st) : st[i].kind = "callback" => i \in s

LEMMA PlacedPush ==
  ASSUME NEW st \in Seq(Acts), NEW e \in Acts, NEW s, NEW t, Placed(st, s), s \subseteq t,
         e.kind = "callback" => Len(st) + 1 \in t
  PROVE  Placed(Append(st, e), t)
<1> DEFINE m == Len(st)
           tt == Append(st, e)
<1>1. /\ m \in Nat /\ Len(tt) = m + 1 /\ tt[m + 1] = e
      /\ \A i \in 1 .. m : tt[i] = st[i]
  BY AppendFacts
<1>2. e.kind = "callback" => m + 1 \in t
  OBVIOUS
<1> HIDE DEF m, tt
<1>3. \A i \in 1 .. Len(tt) : i \in 1 .. m \/ i = m + 1
  BY <1>1
<1>4. Placed(tt, t)
  BY <1>1, <1>2, <1>3 DEF Placed, m
<1> QED
  BY <1>4 DEF tt

LEMMA PlacedPop ==
  ASSUME NEW st \in Seq(Acts), st # <<>>, NEW s, Placed(st, s)
  PROVE  Placed(Front(st), s)
<1> DEFINE m == Len(st)
           tt == Front(st)
<1>1. /\ m \in Nat \ {0} /\ Len(tt) = m - 1
      /\ \A i \in 1 .. m - 1 : tt[i] = st[i]
  BY FrontFacts, LastFacts
<1> HIDE DEF m, tt
<1>2. \A i \in 1 .. Len(tt) : i \in 1 .. m /\ tt[i] = st[i]
  BY <1>1
<1>3. Placed(tt, s)
  BY <1>2 DEF Placed, m
<1> QED
  BY <1>3 DEF tt

LEMMA PlacedSet ==
  ASSUME NEW st \in Seq(Acts), st # <<>>, NEW s, NEW e \in Acts, Placed(st, s),
         Last(st).kind = "callback"
  PROVE  Placed(Append(Front(st), e), s)
<1>1. Front(st) \in Seq(Acts) /\ Len(Front(st)) = Len(st) - 1 /\ Len(st) \in Nat \ {0}
  BY FrontFacts, LastFacts
<1>2. Len(st) \in s
  BY <1>1, LastFacts DEF Placed
<1>3. Placed(Front(st), s) /\ Len(Front(st)) + 1 \in s
  BY <1>1, <1>2, PlacedPop
<1> QED
  BY <1>1, <1>3, PlacedPush

----------------------------------------------------------------------------
(* The inductive invariant.                                                 *)

Phases == {"None", "Ready", "Running", "Capability", "Import", "Paused",
           "Completed", "Raised", "Faulted", "Freed"}

\* What the host builds before it loads; a builder is the host's as long as it
\* is allocated.
Drafted ==
  /\ boxes \subseteq Builders /\ owns = boxes /\ names \subseteq Names
  /\ desc \in Descs
  /\ "desc" \in boxes => desc.name \in Foreigns

Instance ==
  /\ phase \in Phases /\ frames \in Nat /\ generation \in 0 .. Generations - 1
  /\ tokens \subseteq [generation : 0 .. Generations - 1, of : Nat]

Natives ==
  /\ acts \in Seq(Acts) /\ inDrive \in BOOLEAN /\ parked \in {"None", "Exit", "Fault"}
  /\ stash \subseteq Nat \ {NoCtx} /\ Placed(acts, stash)
  /\ Driven(acts, phase) /\ Linked(acts, currentCtx)

Table ==
  /\ handles \in Seq(Counts) /\ Balanced(handles, acts) /\ Within(acts, Len(handles))

\* The request that the last outcome left.
Asked ==
  /\ pending \in Pendings
  /\ \A i \in DOMAIN pending.args : pending.args[i] \in 1 .. Len(handles)
  /\ phase # "Running" =>
       /\ pending.capability <=> phase = "Capability"
       /\ pending.import <=> phase = "Import"
       /\ pending.raised <=> phase = "Raised"

Inv == Drafted /\ Instance /\ Natives /\ Table /\ Asked

----------------------------------------------------------------------------
(* The steps, by what they touch.                                           *)

\* The host builds; a call on the table of handles; a stack walk.
Builds == UNCHANGED <<instance, tokens, handles, natives>>

Books ==
  \/ handles' = handles
  \/ handles' = Minted(1)
  \/ \E h \in Ids : Given(h) /\ (handles' = Release(h) \/ handles' = Retain(h))

Walks ==
  /\ LetIn
  /\ tokens' = tokens \cup {[generation |-> generation, of |-> frames]}

Quiet == UNCHANGED <<builders, instance, natives>> /\ Books /\ (UNCHANGED tokens \/ Walks)

BuildSteps ==
  RegistryNew \/ RegistryFree \/ AddBuiltin \/ DescNew \/ DescParam \/ SetCallback
  \/ DescFree \/ AddForeign

QuietSteps ==
  CtxMake \/ CtxInspect \/ CtxRelease \/ MakeValue \/ Inspect \/ ReleaseValue
  \/ RetainValue \/ PauseValue \/ TraceAccess \/ StackWalk \/ FrameAccess

LEMMA EmitBooks ==
  ASSUME NEW stored, Emit(stored)
  PROVE  Books
  BY DEF Emit, Books

LEMMA QuietCase ==
  ASSUME QuietSteps
  PROVE  Quiet
<1>1. CASE CtxMake
  BY <1>1, EmitBooks DEF CtxMake, InCallback, Quiet, natives
<1>2. CASE CtxInspect
  BY <1>2, EmitBooks DEF CtxInspect, InCallback, Quiet, natives
<1>3. CASE CtxRelease
  BY <1>3 DEF CtxRelease, InCallback, Quiet, natives, Books
<1>4. CASE MakeValue
  BY <1>4, EmitBooks DEF MakeValue, ByPointer, Quiet
<1>5. CASE Inspect
  BY <1>5, EmitBooks DEF Inspect, ByPointer, Quiet
<1>6. CASE ReleaseValue
  BY <1>6 DEF ReleaseValue, ByPointer, Quiet, Books
<1>7. CASE RetainValue
  BY <1>7 DEF RetainValue, ByPointer, Quiet, Books
<1>8. CASE PauseValue
  BY <1>8, EmitBooks DEF PauseValue, ByPointer, Quiet
<1>9. CASE TraceAccess
  BY <1>9, EmitBooks DEF TraceAccess, ByPointer, Quiet
<1>10. CASE StackWalk
  BY <1>10 DEF StackWalk, ByPointer, Quiet, Books, Walks
<1>11. CASE FrameAccess
  BY <1>11, EmitBooks DEF FrameAccess, ByPointer, Quiet
<1> QED
  BY <1>1, <1>2, <1>3, <1>4, <1>5, <1>6, <1>7, <1>8, <1>9, <1>10, <1>11 DEF QuietSteps

LEMMA BuildCase ==
  ASSUME BuildSteps
  PROVE  Builds
  BY DEF BuildSteps, Builds, Building, RegistryNew, RegistryFree, AddBuiltin, DescNew,
         DescParam, SetCallback, DescFree, AddForeign

----------------------------------------------------------------------------
(* What the host builds.                                                    *)

LEMMA DescFacts ==
  /\ NoDesc \in Descs
  /\ \A n \in Foreigns : LET d == [NoDesc EXCEPT !.name = n] IN d \in Descs /\ d.name = n
  /\ \A d \in Descs, k \in ParamKinds :
       LET f == [d EXCEPT !.params = Append(d.params, k)] IN f \in Descs /\ f.name = d.name
  /\ \A d \in Descs :
       LET f == [d EXCEPT !.callback = TRUE] IN f \in Descs /\ f.name = d.name
<1>1. NoDesc \in Descs
  BY DEF NoDesc, Descs, ParamKinds
<1>2. ASSUME NEW n \in Foreigns
      PROVE  LET d == [NoDesc EXCEPT !.name = n] IN d \in Descs /\ d.name = n
  <2>1. \A d \in Descs : LET f == [d EXCEPT !.name = n] IN f \in Descs /\ f.name = n
    BY DEF Descs
  <2> QED
    BY <1>1, <2>1
<1>3. ASSUME NEW d \in Descs, NEW k \in ParamKinds
      PROVE  LET f == [d EXCEPT !.params = Append(d.params, k)] IN f \in Descs /\ f.name = d.name
  <2>1. Append(d.params, k) \in Seq(ParamKinds)
    BY AppendFacts DEF Descs
  <2> QED
    BY <2>1 DEF Descs
<1>4. ASSUME NEW d \in Descs
      PROVE  LET f == [d EXCEPT !.callback = TRUE] IN f \in Descs /\ f.name = d.name
  BY DEF Descs
<1> QED
  BY <1>1, <1>2, <1>3, <1>4

LEMMA BuildingStep ==
  ASSUME Drafted, [Next]_vars
  PROVE  Drafted'
<1>1. CASE UNCHANGED builders
  BY <1>1 DEF builders, Drafted
<1>2. CASE RegistryNew
  BY <1>2 DEF RegistryNew, Drafted, Builders
<1>3. CASE RegistryFree
  BY <1>3 DEF RegistryFree, Drafted
<1>4. CASE AddBuiltin
  BY <1>4 DEF AddBuiltin, Drafted, Names
<1>5. CASE DescNew
  <2>1. desc' \in Descs /\ desc'.name \in Foreigns
    BY <1>5, DescFacts DEF DescNew
  <2> QED
    BY <1>5, <2>1 DEF DescNew, Drafted, Builders
<1>6. CASE DescParam
  <2>1. desc' \in Descs /\ desc'.name = desc.name
    BY <1>6, DescFacts DEF DescParam, Drafted
  <2> QED
    BY <1>6, <2>1 DEF DescParam, Drafted
<1>7. CASE SetCallback
  <2>1. desc' \in Descs /\ desc'.name = desc.name
    BY <1>7, DescFacts DEF SetCallback, Drafted
  <2> QED
    BY <1>7, <2>1 DEF SetCallback, Drafted
<1>8. CASE DescFree
  BY <1>8, DescFacts DEF DescFree, Drafted
<1>9. CASE AddForeign
  <2>1. boxes' = boxes \ {"desc"} /\ owns' = owns \ {"desc"} /\ desc' = NoDesc
    BY <1>9 DEF AddForeign, Freed
  <2>2. names' \subseteq Names
    BY <1>9 DEF AddForeign, Registered, Drafted, Names
  <2> QED
    BY <2>1, <2>2, DescFacts DEF Drafted
<1>10. CASE Load
  BY <1>10 DEF Load, Drafted
<1>11. QuietSteps => UNCHANGED builders
  BY QuietCase DEF Quiet
<1>12. ASSUME Next
       PROVE  \/ BuildSteps \/ Load \/ UNCHANGED builders
  BY <1>11, <1>12
  DEF Next, BuildSteps, QuietSteps, Drive, Resolve, ResolveImport, Eval, Free, Begin, ZeroFuel,
      EndDrive, EndEval, EndFree, CallForeign, FireFinalizer, ReturnFinalizer, ReturnCallback,
      SetReply, CallBlock, InCallback, EndBlock, Alias
<1>13. UNCHANGED vars => UNCHANGED builders
  BY DEF vars, builders
<1> QED
  BY <1>1, <1>2, <1>3, <1>4, <1>5, <1>6, <1>7, <1>8, <1>9, <1>10, <1>12, <1>13 DEF BuildSteps

----------------------------------------------------------------------------
(* The instance.                                                            *)

LEMMA ModFacts ==
  ASSUME generation \in 0 .. Generations - 1
  PROVE  (generation + 1) % Generations \in 0 .. Generations - 1
<1> PICK g : g = generation + 1
  OBVIOUS
<1>1. g \in Nat /\ Generations \in Nat \ {0}
  BY EmbeddingAssumption
<1>2. g % Generations \in 0 .. Generations - 1
  BY <1>1
<1> QED
  BY <1>2

LEMMA InstanceStep ==
  ASSUME Instance, Natives, [Next]_vars
  PROVE  Instance'
<1> USE DEF Instance, Phases
<1>1. CASE UNCHANGED <<phase, frames, generation, tokens>>
  BY <1>1
<1>2. CASE BuildSteps
  BY <1>1, <1>2, BuildCase DEF Builds, instance
<1>3. CASE Load
  BY <1>3 DEF Load, Programs
<1>4. CASE Drive \/ Resolve \/ ResolveImport
  BY <1>4 DEF Drive, Resolve, ResolveImport, Begin, Moves
<1>5. CASE Eval \/ Free
  BY <1>5 DEF Eval, Free, Begin
<1>6. CASE ZeroFuel
  BY <1>6 DEF ZeroFuel
<1>7. CASE EndDrive
  <2>1. /\ phase' \in {"Completed", "Capability", "Import", "Paused", "Raised", "Faulted"}
        /\ frames' = frames /\ tokens' = tokens
    BY <1>7 DEF EndDrive, Outcome
  <2>2. generation' \in 0 .. Generations - 1
    BY <1>7, ModFacts DEF EndDrive, Bump
  <2> QED
    BY <2>1, <2>2
<1>8. CASE EndEval
  <2>1. acts # <<>> /\ Last(acts).kind = "aux"
    BY <1>8 DEF EndEval, Top, Host
  <2>2. Last(acts).frames \in Nat
    BY <2>1, LastFacts, ActFacts DEF Natives, Entries
  <2> QED
    BY <1>8, <2>2 DEF EndEval
<1>9. CASE EndFree
  BY <1>9 DEF EndFree
<1>10. CASE Quiet
  <2>1. ASSUME Walks PROVE tokens' \subseteq [generation : 0 .. Generations - 1, of : Nat]
    BY <2>1 DEF Walks
  <2> QED
    BY <1>10, <2>1 DEF Quiet, instance
<1>11. CASE \/ CallForeign \/ FireFinalizer \/ ReturnFinalizer \/ ReturnCallback
            \/ SetReply \/ CallBlock \/ EndBlock \/ Alias
  BY <1>1, <1>11
  DEF CallForeign, FireFinalizer, ReturnFinalizer, ReturnCallback, SetReply, CallBlock,
      InCallback, EndBlock, Alias, instance
<1>12. UNCHANGED vars => UNCHANGED <<phase, frames, generation, tokens>>
  BY DEF vars
<1> QED
  BY <1>1, <1>2, <1>3, <1>4, <1>5, <1>6, <1>7, <1>8, <1>9, <1>10, <1>11, <1>12, QuietCase
  DEF Next, BuildSteps, QuietSteps

----------------------------------------------------------------------------
(* The native stack.                                                        *)

LEMMA TopFacts ==
  ASSUME acts \in Seq(Acts), Top # Host
  PROVE  /\ acts # <<>> /\ Last(acts).kind = Top /\ Last(acts) \in Acts
         /\ Front(acts) \in Seq(Acts)
  BY LastFacts, FrontFacts DEF Top

\* A mark is pushed.
LEMMA BeginNatives ==
  ASSUME Natives, Instance, NEW entry \in Entries, Begin(entry),
         entry = "free" => acts = <<>>,
         entry \in Drives => phase # "Running" /\ phase' = "Running",
         entry \notin Drives => phase' = phase
  PROVE  Natives'
<1> PICK e : e = [kind |-> entry, was |-> inDrive, frames |-> frames]
  OBVIOUS
<1>1. e \in Acts /\ e.kind = entry /\ e.kind # "callback"
  BY NewActs DEF Natives, Instance, Entries
<1>2. acts \in Seq(Acts) /\ acts' = Append(acts, e)
  BY DEF Natives, Begin, Enter
<1>3. /\ stash' = stash /\ currentCtx' = currentCtx /\ parked' = parked
      /\ inDrive' \in BOOLEAN
  BY DEF Natives, Begin, Scope
<1>4. acts' \in Seq(Acts)
  BY <1>1, <1>2, AppendFacts
<1>5. Driven(acts', phase')
  BY <1>1, <1>2, DrivenPush DEF Natives
<1>6. Linked(acts', currentCtx')
  BY <1>1, <1>2, <1>3, LinkedPush DEF Natives
<1>7. Placed(acts', stash')
  BY <1>1, <1>2, <1>3, PlacedPush DEF Natives
<1> QED
  BY <1>3, <1>4, <1>5, <1>6, <1>7 DEF Natives

\* What runs between two callbacks is pushed or popped.
LEMMA PushNatives ==
  ASSUME Natives, NEW kind \in {"finalizer", "block", "alias"}, Enter([kind |-> kind]),
         UNCHANGED <<phase, inDrive, currentCtx, stash, parked>>
  PROVE  Natives'
<1> PICK e : e = [kind |-> kind]
  OBVIOUS
<1>1. e \in Acts /\ e.kind \notin {"callback", "free"} /\ e.kind \notin Drives
  BY NewActs DEF Drives
<1>2. acts \in Seq(Acts) /\ acts' = Append(acts, e)
  BY DEF Natives, Enter
<1>4. acts' \in Seq(Acts)
  BY <1>1, <1>2, AppendFacts
<1>5. Driven(acts', phase')
  BY <1>1, <1>2, DrivenPush DEF Natives
<1>6. Linked(acts', currentCtx')
  BY <1>1, <1>2, LinkedPush DEF Natives
<1>7. Placed(acts', stash')
  BY <1>1, <1>2, PlacedPush DEF Natives
<1> QED
  BY <1>4, <1>5, <1>6, <1>7 DEF Natives

LEMMA PopNatives ==
  ASSUME Natives, Top # Host, Leave,
         Top = "callback" => currentCtx' = Last(acts).previous,
         Top # "callback" => currentCtx' = currentCtx,
         Top \in Drives => phase' # "Running",
         Top \notin Drives => (phase' = "Running" <=> phase = "Running"),
         stash' = stash, inDrive' \in BOOLEAN, parked' \in {"None", "Exit", "Fault"}
  PROVE  Natives'
<1>1. acts # <<>> /\ Last(acts).kind = Top /\ Front(acts) \in Seq(Acts) /\ acts' = Front(acts)
  BY TopFacts DEF Natives, Leave
<1>2. acts \in Seq(Acts)
  BY DEF Natives
<1>3. Driven(acts', phase')
  BY <1>1, <1>2, DrivenPop DEF Natives
<1>4. Linked(acts', currentCtx')
  BY <1>1, <1>2, LinkedPop DEF Natives
<1>5. Placed(acts', stash')
  BY <1>1, <1>2, PlacedPop DEF Natives
<1> QED
  BY <1>1, <1>3, <1>4, <1>5 DEF Natives

LEMMA CallNatives ==
  ASSUME Natives, CallForeign
  PROVE  Natives'
<1> PICK e : e = [kind |-> "callback", previous |-> currentCtx, reply |-> NoReply,
                  raises |-> FALSE]
  OBVIOUS
<1>1. acts \in Seq(Acts) /\ acts' = Append(acts, e) /\ Len(acts) \in Nat
  BY DEF Natives, CallForeign, Enter
<1>2. currentCtx \in Nat
  BY <1>1 DEF Natives, Linked, Innermost
<1>3. /\ e \in Acts /\ e.kind = "callback" /\ e.previous = currentCtx
      /\ e.kind \notin Drives /\ e.kind # "free"
  BY <1>2, NewActs DEF Drives
<1>4. /\ phase' = phase /\ inDrive' = inDrive /\ parked' = parked
      /\ currentCtx' = Len(acts) + 1 /\ stash' = stash \cup {Len(acts) + 1}
  BY DEF CallForeign, instance
<1>5. acts' \in Seq(Acts)
  BY <1>1, <1>3, AppendFacts
<1>6. Driven(acts', phase')
  BY <1>1, <1>3, <1>4, DrivenPush DEF Natives
<1>7. Linked(acts', currentCtx')
  BY <1>1, <1>3, <1>4, LinkedPush DEF Natives
<1>8. Placed(acts', stash')
  BY <1>1, <1>3, <1>4, PlacedPush DEF Natives
<1>9. stash' \subseteq Nat \ {NoCtx}
  <2>1. Len(acts) + 1 \in Nat \ {0}
    BY <1>1
  <2>2. stash \subseteq Nat \ {0}
    BY DEF Natives, NoCtx
  <2> QED
    BY <1>4, <2>1, <2>2 DEF NoCtx
<1> QED
  BY <1>4, <1>5, <1>6, <1>7, <1>8, <1>9 DEF Natives

\* The act that a reply leaves.
LEMMA ReplyAct ==
  ASSUME Natives, Table, SetReply
  PROVE  \E e \in Acts, h \in 1 .. Len(handles) :
           /\ Given(h) \/ Stale(h)
           /\ acts # <<>> /\ Last(acts).kind = "callback"
           /\ e.kind = "callback" /\ e.previous = Last(acts).previous /\ e.reply = h
           /\ handles' = HandOver(Leak(handles, Last(acts).reply), h)
           /\ acts' = Append(Front(acts), e)
<1>1. acts # <<>> /\ Last(acts).kind = "callback" /\ Last(acts) \in Callbacks
      /\ Front(acts) \in Seq(Acts)
  <2>1. Top = "callback" /\ Top # Host
    BY DEF SetReply, InCallback, Host
  <2> QED
    BY <2>1, TopFacts, ActFacts DEF Natives
<1>2. PICK h \in Ids, raises \in BOOLEAN :
        /\ Given(h) \/ Stale(h)
        /\ handles' = HandOver(Leak(handles, Last(acts).reply), h)
        /\ acts' = Front(acts) \o <<[Last(acts) EXCEPT !.reply = h, !.raises = raises]>>
  BY DEF SetReply
<1>3. PICK a \in Callbacks : a = Last(acts)
  BY <1>1
<1>4. PICK e : e = [a EXCEPT !.reply = h, !.raises = raises]
  OBVIOUS
<1>5. h \in 1 .. Len(handles) /\ h \in Nat
  BY <1>2 DEF Ids, Table
<1>6. e \in Acts /\ e.kind = "callback" /\ e.previous = a.previous /\ e.reply = h
  BY <1>4, <1>5 DEF Callbacks, Acts
<1>7. acts' = Front(acts) \o <<e>>
  BY <1>2, <1>3, <1>4
<1>8. Front(acts) \o <<e>> = Append(Front(acts), e)
  BY <1>1, <1>6
<1> QED
  BY <1>1, <1>2, <1>3, <1>5, <1>6, <1>7, <1>8

LEMMA ReplyNatives ==
  ASSUME Natives, Table, SetReply
  PROVE  Natives'
<1> PICK e \in Acts : /\ acts # <<>> /\ Last(acts).kind = "callback"
                      /\ e.kind = "callback" /\ e.previous = Last(acts).previous
                      /\ acts' = Append(Front(acts), e)
  BY ReplyAct
<1>1. acts \in Seq(Acts)
  BY DEF Natives
<1>2. /\ phase' = phase /\ inDrive' = inDrive /\ parked' = parked
      /\ currentCtx' = currentCtx /\ stash' = stash
  BY DEF SetReply, InCallback, instance
<1>3. acts' \in Seq(Acts)
  BY <1>1, ReplaceLastFacts
<1>4. Driven(acts', phase')
  BY <1>1, <1>2, DrivenSet DEF Natives
<1>5. Linked(acts', currentCtx')
  BY <1>1, <1>2, LinkedSet DEF Natives
<1>6. Placed(acts', stash')
  BY <1>1, <1>2, PlacedSet DEF Natives
<1> QED
  BY <1>2, <1>3, <1>4, <1>5, <1>6 DEF Natives

LEMMA SameNatives ==
  ASSUME Natives, UNCHANGED natives, phase' = "Running" <=> phase = "Running"
  PROVE  Natives'
  BY DEF natives, Natives, Driven

LEMMA NativesStep ==
  ASSUME Natives, Instance, Table, [Next]_vars
  PROVE  Natives'
<1>1. CASE UNCHANGED vars
  BY <1>1, SameNatives DEF vars, natives
<1>2. CASE BuildSteps
  BY <1>2, BuildCase, SameNatives DEF Builds, instance
<1>3. CASE Load
  BY <1>3, SameNatives DEF Load, Programs
<1>4. CASE Drive \/ Resolve \/ ResolveImport
  <2>1. \E entry \in Drives : Begin(entry) /\ phase # "Running" /\ phase' = "Running"
    BY <1>4 DEF Drive, Resolve, ResolveImport, Drives
  <2> QED
    BY <2>1, BeginNatives DEF Drives, Entries
<1>5. CASE Eval
  <2>1. Begin("aux") /\ phase' = phase
    BY <1>5 DEF Eval
  <2> QED
    BY <2>1, BeginNatives DEF Drives, Entries
<1>6. CASE Free
  <2>1. Begin("free") /\ phase' = phase /\ acts = <<>>
    BY <1>6 DEF Free, Begin, LetIn
  <2> QED
    BY <2>1, BeginNatives DEF Drives, Entries
<1>7. CASE ZeroFuel
  BY <1>7, SameNatives DEF ZeroFuel
<1>8. CASE EndDrive
  <2>1. /\ acts \in Seq(Acts) /\ Top # Host /\ Top # "callback" /\ Top \in Drives /\ Leave
        /\ currentCtx' = currentCtx /\ stash' = stash /\ inDrive' = Last(acts).was
        /\ phase' # "Running" /\ parked' = "None"
    BY <1>8 DEF EndDrive, Outcome, Host, Drives, Natives
  <2>2. Last(acts).was \in BOOLEAN
    BY <2>1, TopFacts, ActFacts DEF Drives, Entries
  <2> QED
    BY <2>1, <2>2, PopNatives
<1>9. CASE EndEval \/ EndFree
  <2>1. /\ Top # Host /\ Top # "callback" /\ Top \notin Drives /\ Leave
        /\ currentCtx' = currentCtx /\ stash' = stash /\ inDrive' = inDrive
        /\ parked' \in {"None", parked}
    BY <1>9 DEF EndEval, EndFree, Host, Drives
  <2>2. phase' = "Running" <=> phase = "Running"
    <3>1. CASE EndEval
      BY <3>1 DEF EndEval
    <3>2. CASE EndFree
      <4>1. Top = "free" /\ phase' = "Freed"
        BY <3>2 DEF EndFree
      <4>2. acts # <<>> /\ Last(acts).kind = "free" /\ acts \in Seq(Acts)
        BY <2>1, <4>1, TopFacts DEF Natives
      <4>3. Last(acts) = acts[Len(acts)] /\ Len(acts) \in Nat \ {0}
        BY <4>2, LastFacts
      <4>4. Len(acts) = 1
        <5>1. Len(acts) \in 1 .. Len(acts)
          BY <4>3
        <5>2. \A i \in 1 .. Len(acts) : acts[i].kind = "free" => i = 1
          BY DEF Natives, Driven
        <5> QED
          BY <4>2, <4>3, <5>1, <5>2
      <4>5. \A i \in 1 .. Len(acts) : acts[i].kind = "free"
        BY <4>2, <4>3, <4>4
      <4>6. phase # "Running"
        BY <4>5 DEF Natives, Driven, Drives
      <4> QED
        BY <4>1, <4>6
    <3> QED
      BY <1>9, <3>1, <3>2
  <2>3. inDrive' \in BOOLEAN /\ parked' \in {"None", "Exit", "Fault"}
    BY <2>1 DEF Natives
  <2> QED
    BY <2>1, <2>2, <2>3, PopNatives
<1>10. CASE CallForeign
  BY <1>10, CallNatives
<1>11. CASE FireFinalizer \/ Alias
  BY <1>11, PushNatives DEF FireFinalizer, Alias, instance
<1>12. CASE ReturnFinalizer
  <2>1. /\ Top # Host /\ Top # "callback" /\ Top \notin Drives /\ Leave
        /\ currentCtx' = currentCtx /\ stash' = stash /\ inDrive' = inDrive
        /\ parked' = parked /\ phase' = phase
    BY <1>12 DEF ReturnFinalizer, Host, Drives, instance
  <2> QED
    BY <2>1, PopNatives DEF Natives
<1>13. CASE ReturnCallback
  <2>1. /\ Top # Host /\ Top = "callback" /\ Top \notin Drives /\ Leave
        /\ currentCtx' = Last(acts).previous /\ stash' = stash /\ inDrive' = inDrive
        /\ phase' = phase
    BY <1>13 DEF ReturnCallback, Previous, Host, Drives, instance
  <2>2. parked' \in {"None", "Exit", "Fault"}
    BY <1>13 DEF ReturnCallback, Reply, Natives
  <2> QED
    BY <2>1, <2>2, PopNatives DEF Natives
<1>14. CASE SetReply
  BY <1>14, ReplyNatives
<1>15. CASE CallBlock
  <2>1. /\ currentCtx' = currentCtx /\ stash' = stash /\ inDrive' = inDrive /\ phase' = phase
    BY <1>15 DEF CallBlock, InCallback, instance
  <2>2. CASE Enter([kind |-> "block"]) /\ UNCHANGED parked
    BY <2>1, <2>2, PushNatives
  <2>3. CASE parked' = "Fault" /\ UNCHANGED acts
    BY <2>1, <2>3 DEF Natives
  <2> QED
    BY <1>15, <2>2, <2>3 DEF CallBlock, InvokeBlock
<1>16. CASE EndBlock
  <2>1. /\ Top # Host /\ Top # "callback" /\ Top \notin Drives /\ Leave
        /\ currentCtx' = currentCtx /\ stash' = stash /\ inDrive' = inDrive
        /\ parked' \in {"None", "Exit", "Fault"} /\ phase' = phase
    BY <1>16 DEF EndBlock, Host, Drives, instance
  <2> QED
    BY <2>1, PopNatives DEF Natives
<1>17. CASE Quiet
  BY <1>17, SameNatives DEF Quiet, instance
<1> QED
  BY <1>1, <1>2, <1>3, <1>4, <1>5, <1>6, <1>7, <1>8, <1>9, <1>10, <1>11, <1>12, <1>13, <1>14,
     <1>15, <1>16, <1>17, QuietCase
  DEF Next, BuildSteps, QuietSteps

----------------------------------------------------------------------------
(* The table of handles.                                                    *)

LEMMA SameTable ==
  ASSUME Table, UNCHANGED handles, UNCHANGED acts
  PROVE  Table'
  BY DEF Table, Balanced, Within

\* Handles are minted while no callback comes or goes.
LEMMA BooksTable ==
  ASSUME Table, Natives, Books, UNCHANGED acts
  PROVE  Table' /\ Len(handles') >= Len(handles)
<1>1. handles \in Seq(Counts) /\ acts \in Seq(Acts) /\ Len(handles) \in Nat
  BY DEF Table, Natives
<1>2. CASE handles' = handles
  BY <1>1, <1>2, SameTable
<1>3. CASE handles' = Minted(1)
  <2> PICK n \in Nat : n = 1
    OBVIOUS
  <2>1. handles' = handles \o [i \in 1 .. n |-> Fresh]
    BY <1>3 DEF Minted
  <2>2. handles' \in Seq(Counts) /\ Len(handles') = Len(handles) + n
    BY <1>1, <2>1, MintedFacts
  <2>3. Balanced(handles', acts)
    BY <1>1, <2>1, BalancedMint DEF Table
  <2>4. Within(acts, Len(handles'))
    BY <1>1, <2>2, WithinMore DEF Table
  <2> QED
    BY <1>1, <2>2, <2>3, <2>4 DEF Table
<1>4. CASE \E h \in Ids : Given(h) /\ (handles' = Release(h) \/ handles' = Retain(h))
  <2>1. handles' \in Seq(Counts) /\ Len(handles') = Len(handles) /\ Balanced(handles', acts)
    BY <1>1, <1>4, GivenFacts DEF Table
  <2> QED
    BY <1>1, <2>1 DEF Table
<1> QED
  BY <1>2, <1>3, <1>4 DEF Books

\* An act that hands nothing over is pushed or popped.
LEMMA PushTable ==
  ASSUME Table, Natives, NEW e \in Acts, Enter(e), UNCHANGED handles,
         e.kind = "callback" => e.reply = NoReply
  PROVE  Table'
<1>1. /\ handles \in Seq(Counts) /\ acts \in Seq(Acts) /\ Len(handles) \in Nat
      /\ acts' = Append(acts, e) /\ handles' = handles
  BY DEF Table, Natives, Enter
<1>2. \A h \in 1 .. Len(handles) : Handed(acts', h) = Handed(acts, h)
  <2> SUFFICES ASSUME NEW h \in 1 .. Len(handles) PROVE Handed(acts', h) = Handed(acts, h)
    OBVIOUS
  <2>1. ~Hands(e, h)
    BY <1>1 DEF Hands, NoReply
  <2>2. Handed(acts, h) \in Nat
    BY <1>1, HandedFacts
  <2> QED
    BY <1>1, <2>1, <2>2, HandedPush
<1>3. Balanced(handles, acts')
  BY <1>2, BalancedSame DEF Table
<1>4. Within(acts', Len(handles))
  BY <1>1, WithinPush DEF Table, NoReply
<1> QED
  BY <1>1, <1>3, <1>4 DEF Table

LEMMA PopTable ==
  ASSUME Table, Natives, Top # Host, Top # "callback", Leave, NEW n \in {0, 1},
         handles' = Minted(n)
  PROVE  Table' /\ Len(handles') = Len(handles) + n
<1>1. /\ handles \in Seq(Counts) /\ acts \in Seq(Acts) /\ Len(handles) \in Nat
      /\ handles' = handles \o [i \in 1 .. n |-> Fresh] /\ n \in Nat
  BY DEF Table, Natives, Minted
<1>2. acts # <<>> /\ Last(acts).kind = Top /\ Front(acts) \in Seq(Acts) /\ acts' = Front(acts)
  BY <1>1, TopFacts DEF Leave
<1>3. \A h \in 1 .. Len(handles) : Handed(acts', h) = Handed(acts, h)
  <2> SUFFICES ASSUME NEW h \in 1 .. Len(handles) PROVE Handed(acts', h) = Handed(acts, h)
    OBVIOUS
  <2>1. ~Hands(Last(acts), h)
    BY <1>2 DEF Hands
  <2>2. Handed(acts', h) \in Nat
    BY <1>2, HandedFacts
  <2> QED
    BY <1>1, <1>2, <2>1, <2>2, HandedPop
<1>4. Balanced(handles, acts')
  BY <1>3, BalancedSame DEF Table
<1>5. Within(acts', Len(handles))
  BY <1>1, <1>2, WithinPop DEF Table
<1>6. handles' \in Seq(Counts) /\ Len(handles') = Len(handles) + n
  BY <1>1, MintedFacts, SMTT(30)
<1>7. Balanced(handles', acts')
  BY <1>1, <1>2, <1>4, <1>5, BalancedMint
<1>8. Within(acts', Len(handles'))
  BY <1>1, <1>5, <1>6, WithinMore
<1> QED
  BY <1>6, <1>7, <1>8 DEF Table

LEMMA ReturnTable ==
  ASSUME Table, Natives, ReturnCallback
  PROVE  Table' /\ Len(handles') = Len(handles)
<1>1. /\ handles \in Seq(Counts) /\ acts \in Seq(Acts) /\ Len(handles) \in Nat
      /\ Top = "callback" /\ Top # Host
  BY DEF Table, Natives, ReturnCallback, Host
<1>2. /\ acts # <<>> /\ Last(acts).kind = "callback" /\ Front(acts) \in Seq(Acts)
      /\ acts' = Front(acts)
  BY <1>1, TopFacts DEF ReturnCallback, Leave
<1>3. PICK h : h = Last(acts).reply
  OBVIOUS
<1>4. \/ handles' = Leak(handles, h)
      \/ handles' = handles /\ (h = NoReply \/ Stale(h))
      \/ handles' = Consume(h) /\ h # NoReply /\ ~Stale(h)
  BY <1>3 DEF ReturnCallback, Reply
<1>5. PICK G : G = handles'
  OBVIOUS
<1>6. G \in Seq(Counts) /\ Len(G) = Len(handles) /\ Balanced(G, Front(acts))
  <2>1. \/ G = Leak(handles, h)
        \/ G = handles /\ (h = NoReply \/ Stale(h))
        \/ G = Consume(h) /\ h # NoReply /\ ~Stale(h)
    BY <1>4, <1>5
  <2>2. Balanced(handles, acts) /\ Within(acts, Len(handles))
    BY DEF Table
  <2> QED
    BY <1>1, <1>2, <1>3, <2>1, <2>2, DropFacts
<1>7. Within(acts', Len(handles))
  BY <1>1, <1>2, WithinPop DEF Table
<1> QED
  BY <1>2, <1>5, <1>6, <1>7 DEF Table

LEMMA ReplyTable ==
  ASSUME Table, Natives, SetReply
  PROVE  Table' /\ Len(handles') = Len(handles)
<1>1. PICK e \in Acts, h \in 1 .. Len(handles) :
           /\ Given(h) \/ Stale(h)
           /\ acts # <<>> /\ Last(acts).kind = "callback"
           /\ e.kind = "callback" /\ e.previous = Last(acts).previous /\ e.reply = h
           /\ handles' = HandOver(Leak(handles, Last(acts).reply), h)
           /\ acts' = Append(Front(acts), e)
  BY ReplyAct
<1>2. /\ handles \in Seq(Counts) /\ acts \in Seq(Acts) /\ Len(handles) \in Nat
      /\ Balanced(handles, acts) /\ Within(acts, Len(handles)) /\ Hands(e, h)
  BY <1>1 DEF Table, Natives, Hands
<1>3. /\ handles' \in Seq(Counts) /\ Len(handles') = Len(handles)
      /\ Balanced(handles', Append(Front(acts), e))
  BY <1>1, <1>2, ReplaceFacts
<1>4. Front(acts) \in Seq(Acts) /\ Within(Front(acts), Len(handles))
  BY <1>1, <1>2, FrontFacts, WithinPop
<1>5. Within(Append(Front(acts), e), Len(handles))
  BY <1>1, <1>2, <1>4, WithinPush
<1> QED
  BY <1>1, <1>3, <1>5 DEF Table

LEMMA TableStep ==
  ASSUME Table, Natives, Instance, [Next]_vars
  PROVE  Table' /\ (EndFree \/ Len(handles') >= Len(handles))
<1>0. /\ handles \in Seq(Counts) /\ acts \in Seq(Acts) /\ Len(handles) \in Nat
      /\ Len(handles) >= Len(handles)
  BY DEF Table, Natives
<1>1. CASE UNCHANGED handles /\ UNCHANGED acts
  BY <1>0, <1>1, SameTable
<1>2. CASE UNCHANGED vars \/ BuildSteps \/ Load \/ ZeroFuel
  BY <1>1, <1>2, BuildCase DEF vars, Builds, Load, ZeroFuel, natives
<1>3. ASSUME NEW e \in Acts, Enter(e), UNCHANGED handles,
             e.kind = "callback" => e.reply = NoReply
      PROVE  Table' /\ Len(handles') >= Len(handles)
  BY <1>0, <1>3, PushTable
<1>4. ASSUME NEW entry \in Entries, Begin(entry)
      PROVE  Table' /\ Len(handles') >= Len(handles)
  <2> PICK e : e = [kind |-> entry, was |-> inDrive, frames |-> frames]
    OBVIOUS
  <2>1. e \in Acts /\ e.kind # "callback"
    BY <1>4, NewActs DEF Natives, Instance, Entries
  <2>2. Enter(e) /\ handles' = handles
    BY <1>4 DEF Begin
  <2> QED
    BY <1>3, <2>1, <2>2
<1>5. CASE Drive \/ Resolve \/ ResolveImport \/ Eval \/ Free
  <2>1. Begin("drive") \/ Begin("import") \/ Begin("aux") \/ Begin("free")
    BY <1>5 DEF Drive, Resolve, ResolveImport, Eval, Free
  <2> QED
    BY <1>4, <2>1 DEF Entries
<1>6. ASSUME Top # Host, Top # "callback", Leave, UNCHANGED handles \/ handles' = Minted(1)
                                                   \/ handles' = Minted(0)
      PROVE  Table' /\ Len(handles') >= Len(handles)
  <2>1. Minted(0) = handles
    <3> PICK n \in Nat : n = 0
      OBVIOUS
    <3> PICK G : G = handles \o [i \in 1 .. n |-> Fresh]
      OBVIOUS
    <3>1. /\ G \in Seq(Counts) /\ Len(G) = Len(handles) + n
          /\ \A i \in 1 .. Len(handles) : G[i] = handles[i]
      BY <1>0, MintedFacts
    <3>2. Len(G) = Len(handles)
      BY <1>0, <3>1
    <3>3. G = handles
      BY <1>0, <3>1, <3>2, SeqEqual
    <3> QED
      BY <3>3 DEF Minted
  <2>2. \E n \in {0, 1} : handles' = Minted(n)
    BY <1>6, <2>1
  <2>3. PICK n \in {0, 1} : handles' = Minted(n)
    BY <2>2
  <2>4. Table' /\ Len(handles') = Len(handles) + n
    BY <1>6, <2>3, PopTable
  <2> QED
    BY <1>0, <2>4
<1>7. CASE EndDrive
  <2>1. /\ Top # Host /\ Top # "callback" /\ Leave
        /\ \E n \in {0, 1} : handles' = Minted(n)
    BY <1>7 DEF EndDrive, Outcome, Host
  <2> QED
    BY <1>6, <2>1
<1>8. CASE EndEval
  <2>1. /\ Top # Host /\ Top # "callback" /\ Leave
        /\ UNCHANGED handles \/ handles' = Minted(1)
    BY <1>8 DEF EndEval, Emit, Host
  <2> QED
    BY <1>6, <2>1
<1>9. CASE EndFree
  <2>1. acts' = <<>>
    <3>1. Top = "free" /\ Top # Host /\ acts' = Front(acts)
      BY <1>9 DEF EndFree, Host, Leave
    <3>2. acts # <<>> /\ Last(acts).kind = "free"
      BY <1>0, <3>1, TopFacts
    <3>3. /\ Last(acts) = acts[Len(acts)] /\ Len(acts) \in Nat \ {0}
          /\ Front(acts) \in Seq(Acts) /\ Len(Front(acts)) = Len(acts) - 1
      BY <1>0, <3>2, LastFacts, FrontFacts
    <3>4. Len(acts) \in 1 .. Len(acts)
      BY <3>3
    <3>5. \A i \in 1 .. Len(acts) : acts[i].kind = "free" => i = 1
      BY DEF Natives, Driven
    <3>6. Len(acts) = 1
      BY <3>2, <3>3, <3>4, <3>5
    <3> QED
      BY <3>1, <3>3, <3>6, EmptySeq
  <2>2. handles' = <<>>
    BY <1>9 DEF EndFree
  <2>3. handles' \in Seq(Counts) /\ Len(handles') = 0 /\ Len(acts') = 0
    BY <2>1, <2>2, EmptySeq
  <2>4. Balanced(handles', acts') /\ Within(acts', Len(handles'))
    BY <2>3 DEF Balanced, Within
  <2> QED
    BY <1>9, <2>3, <2>4 DEF Table
<1>10. CASE CallForeign
  <2> PICK e : e = [kind |-> "callback", previous |-> currentCtx, reply |-> NoReply,
                    raises |-> FALSE]
    OBVIOUS
  <2>1. currentCtx \in Nat
    BY <1>0 DEF Natives, Linked, Innermost
  <2>2. e \in Acts /\ e.reply = NoReply /\ Enter(e) /\ handles' = handles
    BY <1>10, <2>1, NewActs DEF CallForeign
  <2> QED
    BY <1>3, <2>2
<1>11. CASE FireFinalizer \/ Alias
  <2> PICK kind \in {"finalizer", "alias"} : Enter([kind |-> kind]) /\ handles' = handles
    BY <1>11 DEF FireFinalizer, Alias
  <2> PICK e : e = [kind |-> kind]
    OBVIOUS
  <2>1. e \in Acts /\ e.kind # "callback" /\ Enter(e)
    BY NewActs
  <2> QED
    BY <1>3, <2>1
<1>12. CASE ReturnFinalizer \/ EndBlock
  <2>1. Top # Host /\ Top # "callback" /\ Leave /\ UNCHANGED handles
    BY <1>12 DEF ReturnFinalizer, EndBlock, Host
  <2> QED
    BY <1>6, <2>1
<1>13. CASE ReturnCallback
  BY <1>0, <1>13, ReturnTable
<1>14. CASE SetReply
  BY <1>0, <1>14, ReplyTable
<1>15. CASE CallBlock
  <2> PICK e : e = [kind |-> "block"]
    OBVIOUS
  <2>1. e \in Acts /\ e.kind # "callback"
    BY NewActs
  <2>2. handles' = handles /\ (Enter(e) \/ UNCHANGED acts)
    BY <1>15 DEF CallBlock, InvokeBlock
  <2> QED
    BY <1>1, <1>3, <2>1, <2>2
<1>16. CASE Quiet
  BY <1>16, BooksTable DEF Quiet, natives
<1> QED
  BY <1>2, <1>5, <1>7, <1>8, <1>9, <1>10, <1>11, <1>12, <1>13, <1>14, <1>15, <1>16, QuietCase
  DEF Next, BuildSteps, QuietSteps

----------------------------------------------------------------------------
(* What the engine keeps for the host.                                      *)

LEMMA NothingFacts ==
  /\ NothingPending \in Pendings /\ NothingPending.args = <<>>
  /\ ~NothingPending.capability /\ ~NothingPending.import /\ ~NothingPending.raised
  /\ LET p == [NothingPending EXCEPT !.import = TRUE] IN
       p \in Pendings /\ p.args = <<>> /\ ~p.capability /\ p.import /\ ~p.raised
  /\ LET p == [NothingPending EXCEPT !.raised = TRUE] IN
       p \in Pendings /\ p.args = <<>> /\ ~p.capability /\ ~p.import /\ p.raised
<1>1. NothingPending \in Pendings
  <2>1. <<>> \in Seq(Nat)
    BY EmptySeq
  <2> QED
    BY <2>1 DEF NothingPending, Pendings
<1>2. /\ NothingPending.args = <<>> /\ ~NothingPending.capability
      /\ ~NothingPending.import /\ ~NothingPending.raised
  BY DEF NothingPending
<1>3. \A q \in Pendings :
        /\ LET p == [q EXCEPT !.import = TRUE] IN
             p \in Pendings /\ p.args = q.args /\ p.capability = q.capability
               /\ p.import /\ p.raised = q.raised
        /\ LET p == [q EXCEPT !.raised = TRUE] IN
             p \in Pendings /\ p.args = q.args /\ p.capability = q.capability
               /\ p.import = q.import /\ p.raised
  BY DEF Pendings
<1> QED
  BY <1>1, <1>2, <1>3

LEMMA RequestFacts ==
  ASSUME NEW n \in {0, 1}, Len(handles) \in Nat, NEW p, p = Requests(n)
  PROVE  /\ p \in Pendings /\ p.capability /\ ~p.import /\ ~p.raised
         /\ \A i \in DOMAIN p.args : p.args[i] \in 1 .. Len(handles) + n
<1> PICK f : f = [i \in 1 .. n |-> Len(handles) + i]
  OBVIOUS
<1>1. f \in Seq(Nat) /\ \A i \in DOMAIN f : f[i] \in 1 .. Len(handles) + n
  OBVIOUS
<1>2. p = [NothingPending EXCEPT !.capability = TRUE, !.args = f]
  BY DEF Requests
<1>3. /\ p.args = f /\ p.capability = TRUE /\ p.import = FALSE /\ p.raised = FALSE
      /\ p = [args |-> p.args, capability |-> p.capability, import |-> p.import,
              raised |-> p.raised]
  BY <1>2 DEF NothingPending
<1>4. p \in Pendings
  BY <1>1, <1>3 DEF Pendings
<1> QED
  BY <1>1, <1>3, <1>4

\* What was asked stays, while the phase keeps and no handle is lost.
LEMMA AskedKept ==
  ASSUME Asked, UNCHANGED pending, Len(handles) \in Nat, Len(handles') \in Nat,
         Len(handles') >= Len(handles),
         \/ phase' = phase \/ phase' = "Running"
         \/ phase # "Running" /\ phase' \notin {"Running", "Capability", "Import", "Raised"}
            /\ phase \notin {"Capability", "Import", "Raised"}
  PROVE  Asked'
<1>1. ASSUME NEW i \in DOMAIN pending.args PROVE pending.args[i] \in 1 .. Len(handles')
  BY <1>1 DEF Asked
<1>2. phase' # "Running" =>
       /\ pending.capability <=> phase' = "Capability"
       /\ pending.import <=> phase' = "Import"
       /\ pending.raised <=> phase' = "Raised"
  BY DEF Asked
<1> QED
  BY <1>1, <1>2 DEF Asked

\* A phase in which nothing is asked.
LEMMA NothingAsked ==
  ASSUME pending' = NothingPending, phase' \notin {"Capability", "Import", "Raised"}
  PROVE  Asked'
<1>1. pending'.args = <<>> /\ DOMAIN pending'.args = {}
  BY NothingFacts
<1> QED
  BY <1>1, NothingFacts DEF Asked

LEMMA AskedStep ==
  ASSUME Asked, Table, Natives, Instance, [Next]_vars
  PROVE  Asked'
<1>1. /\ Len(handles) \in Nat /\ Len(handles') \in Nat
      /\ EndFree \/ Len(handles') >= Len(handles)
  <2>1. handles \in Seq(Counts) /\ handles' \in Seq(Counts)
    BY TableStep DEF Table
  <2> QED
    BY <2>1, TableStep
<1>2. ASSUME UNCHANGED <<pending, phase>> PROVE Asked'
  <2>1. EndFree => phase' = "Freed" /\ pending' = NothingPending
    BY DEF EndFree
  <2> QED
    BY <1>1, <1>2, <2>1, AskedKept, NothingAsked
<1>3. CASE UNCHANGED vars \/ BuildSteps
  BY <1>2, <1>3, BuildCase DEF vars, Builds, instance
<1>4. CASE Load
  <2>1. /\ phase = "None" /\ phase' \in {"Ready", "None"} /\ pending' = pending
        /\ Len(handles') >= Len(handles)
    <3>1. handles' = handles
      BY <1>4 DEF Load
    <3> QED
      BY <1>1, <1>4, <3>1 DEF Load, Programs
  <2> QED
    BY <1>1, <2>1, AskedKept
<1>5. CASE Drive \/ Resolve \/ ResolveImport
  <2>1. pending' = pending /\ handles' = handles /\ phase' = "Running"
    BY <1>5 DEF Drive, Resolve, ResolveImport, Begin
  <2>2. Len(handles') >= Len(handles)
    BY <1>1, <2>1
  <2> QED
    BY <1>1, <2>1, <2>2, AskedKept
<1>6. CASE Eval \/ Free
  BY <1>2, <1>6 DEF Eval, Free, Begin
<1>7. CASE ZeroFuel
  BY <1>7, NothingAsked DEF ZeroFuel
<1>8. CASE EndDrive
  <2>1. Top # Host /\ Top # "callback" /\ Leave
    BY <1>8 DEF EndDrive, Host
  <2>2. CASE \E n \in {0, 1} : Outcome("Capability", n, Requests(n))
    <3>1. PICK n \in {0, 1} : Outcome("Capability", n, Requests(n))
      BY <2>2
    <3>2. phase' = "Capability" /\ handles' = Minted(n) /\ pending' = Requests(n)
      BY <3>1 DEF Outcome, Stored
    <3>3. Len(handles') = Len(handles) + n
      BY <2>1, <3>2, PopTable
    <3>4. PICK p : p = Requests(n)
      OBVIOUS
    <3>5. /\ p \in Pendings /\ p.capability /\ ~p.import /\ ~p.raised
          /\ \A i \in DOMAIN p.args : p.args[i] \in 1 .. Len(handles) + n
      BY <1>1, <3>4, RequestFacts
    <3>6. pending' = p
      BY <3>2, <3>4
    <3> QED
      BY <3>2, <3>3, <3>5, <3>6 DEF Asked
  <2>3. CASE Outcome("Import", 0, [NothingPending EXCEPT !.import = TRUE])
    <3>1. PICK p : p = [NothingPending EXCEPT !.import = TRUE]
      OBVIOUS
    <3>2. p \in Pendings /\ p.args = <<>> /\ ~p.capability /\ p.import /\ ~p.raised
      BY <3>1, NothingFacts
    <3>3. phase' = "Import" /\ pending' = p
      BY <2>3, <3>1 DEF Outcome, Stored
    <3>4. DOMAIN p.args = {}
      BY <3>2
    <3> QED
      BY <3>2, <3>3, <3>4 DEF Asked
  <2>4. CASE Outcome("Raised", 1, [NothingPending EXCEPT !.raised = TRUE])
    <3>1. PICK p : p = [NothingPending EXCEPT !.raised = TRUE]
      OBVIOUS
    <3>2. p \in Pendings /\ p.args = <<>> /\ ~p.capability /\ ~p.import /\ p.raised
      BY <3>1, NothingFacts
    <3>3. phase' = "Raised" /\ pending' = p
      BY <2>4, <3>1 DEF Outcome, Stored
    <3>4. DOMAIN p.args = {}
      BY <3>2
    <3> QED
      BY <3>2, <3>3, <3>4 DEF Asked
  <2>5. CASE \/ \E n \in {0, 1} : Outcome("Completed", n, NothingPending)
             \/ Outcome("Paused", 0, NothingPending)
             \/ Outcome("Faulted", 0, NothingPending)
    BY <2>5, NothingAsked DEF Outcome, Stored
  <2> QED
    BY <1>8, <2>2, <2>3, <2>4, <2>5 DEF EndDrive
<1>9. CASE EndEval
  BY <1>2, <1>9 DEF EndEval
<1>10. CASE EndFree
  BY <1>10, NothingAsked DEF EndFree
<1>11. CASE \/ CallForeign \/ FireFinalizer \/ ReturnFinalizer \/ ReturnCallback
            \/ SetReply \/ CallBlock \/ EndBlock \/ Alias
  BY <1>2, <1>11
  DEF CallForeign, FireFinalizer, ReturnFinalizer, ReturnCallback, SetReply, CallBlock,
      InCallback, EndBlock, Alias, instance
<1>12. CASE Quiet
  BY <1>2, <1>12 DEF Quiet, instance
<1> QED
  BY <1>3, <1>4, <1>5, <1>6, <1>7, <1>8, <1>9, <1>10, <1>11, <1>12, QuietCase
  DEF Next, BuildSteps, QuietSteps

----------------------------------------------------------------------------
(* The theorems about builders, handles and requests.                       *)

\* The invariant holds at first.
LEMMA InitInv ==
  ASSUME Init
  PROVE  Inv
<1>1. /\ Len(acts) = 0 /\ acts \in Seq(Acts) /\ Len(handles) = 0 /\ handles \in Seq(Counts)
  BY EmptySeq DEF Init
<1>2. Drafted
  BY DescFacts DEF Init, Drafted
<1>3. Instance
  BY EmbeddingAssumption DEF Init, Instance, Phases
<1>4. Natives
  <2>1. Driven(acts, phase) /\ Linked(acts, currentCtx) /\ Placed(acts, stash)
    BY <1>1 DEF Init, Driven, Linked, Innermost, Placed, NoCtx
  <2> QED
    BY <1>1, <2>1 DEF Init, Natives
<1>5. Table
  BY <1>1 DEF Table, Balanced, Within
<1>6. Asked
  <2>1. DOMAIN pending.args = {}
    BY NothingFacts DEF Init
  <2> QED
    BY <2>1, NothingFacts DEF Init, Asked
<1> QED
  BY <1>2, <1>3, <1>4, <1>5, <1>6 DEF Inv

LEMMA StepInv ==
  ASSUME Inv, [Next]_vars
  PROVE  Inv'
  BY BuildingStep, InstanceStep, NativesStep, TableStep, AskedStep DEF Inv

\* The invariant that the C ABI keeps: every entry point, callback and accessor
\* preserves it, wherever the host calls it from (capi/src).
THEOREM Invariance == Spec => []Inv
<1>1. Init => Inv
  BY InitInv
<1>2. Inv /\ [Next]_vars => Inv'
  BY StepInv
<1> QED
  BY <1>1, <1>2, PTL DEF Spec

\* Of every builder and every handle, what is allocated is what somebody has to
\* give back: the host, a callback that runs, or nobody since a call was seen to
\* forget it (value.rs emit, registry.rs doodle_registry_add_foreign, call.rs
\* trampoline).
THEOREM Owned == Spec => []OwnershipExact
<1>1. Inv => OwnershipExact
  <2> SUFFICES ASSUME Inv PROVE OwnershipExact
    OBVIOUS
  <2>1. handles \in Seq(Counts) /\ acts \in Seq(Acts) /\ boxes = owns
    BY DEF Inv, Table, Natives, Drafted
  <2>2. ASSUME NEW h \in Ids
        PROVE  \/ handles[h].refs = handles[h].owed + handles[h].leaked + Replies(h)
               \/ handles[h].refs = 0 /\ handles[h].owed = 0 /\ handles[h].leaked = 0
    <3>1. h \in 1 .. Len(handles)
      BY <2>1 DEF Ids
    <3>2. Fits(handles[h], Handed(acts, h))
      BY <3>1 DEF Inv, Table, Balanced
    <3>3. Replies(h) = Handed(acts, h)
      BY <2>1, RepliesAreHanded
    <3> QED
      BY <3>2, <3>3 DEF Fits
  <2> QED
    BY <2>1, <2>2 DEF OwnershipExact
<1> QED
  BY <1>1, Invariance, PTL

\* The types.
LEMMA InvTypes ==
  ASSUME Inv
  PROVE  TypeOK
<1>1. acts \in Seq(Acts) /\ Len(acts) \in Nat
  BY DEF Inv, Natives
<1>2. currentCtx \in {NoCtx} \cup stash
  <2>1. /\ currentCtx \in 0 .. Len(acts)
        /\ currentCtx # 0 => acts[currentCtx].kind = "callback"
    BY DEF Inv, Natives, Linked, Innermost
  <2>2. currentCtx # 0 => currentCtx \in 1 .. Len(acts)
    BY <1>1, <2>1
  <2> QED
    BY <2>1, <2>2 DEF Inv, Natives, Placed, NoCtx
<1> QED
  BY <1>2 DEF Inv, Drafted, Instance, Natives, TypeOK, Phases

\* Between two calls of the host, what the instance keeps pending is what the
\* phase it reports asks for, and every handle it names was minted (instance.rs
\* fill_outcome).
THEOREM Requested == Spec => []RequestsMatchPhase
<1>1. Inv => RequestsMatchPhase
  <2> SUFFICES ASSUME Inv PROVE RequestsMatchPhase
    OBVIOUS
  <2>1. handles \in Seq(Counts) /\ Ids = 1 .. Len(handles)
    BY DEF Inv, Table, Ids
  <2>2. ASSUME acts = <<>> PROVE phase # "Running"
    <3>1. Len(acts) = 0
      BY <2>2, EmptySeq
    <3> QED
      BY <3>1 DEF Inv, Natives, Driven
  <2>3. ASSUME acts = <<>> PROVE CapabilityArg(1) # "Contract" <=> phase = "Capability"
    BY <2>2, <2>3 DEF Inv, Asked, CapabilityArg
  <2>4. ASSUME NEW i, CapabilityArg(i) = "Ok" PROVE pending.args[i] \in Ids
    BY <2>1, <2>4 DEF Inv, Asked, CapabilityArg
  <2>5. ASSUME acts = <<>>
        PROVE  /\ ImportSegment = "Ok" <=> phase = "Import"
               /\ Described = "Ok" <=> phase = "Raised"
    BY <2>2, <2>5 DEF Inv, Asked, ImportSegment, Described
  <2> QED
    BY <2>3, <2>4, <2>5, InvTypes DEF RequestsMatchPhase
<1> QED
  BY <1>1, Invariance, PTL

----------------------------------------------------------------------------
(* The stack that the engine holds, and which calls it lets in.             *)

\* The stack the engine holds, between the calls of the host and under each.
Moved ==
  /\ generation <= MaxRuns
  /\ acts = <<>> \/ acts[1].kind = "free" => frames = generation + 1
  /\ acts # <<>> /\ acts[1].kind \in Drives =>
       frames = generation + 2 /\ frames <= MaxRuns + 1
  /\ acts # <<>> /\ acts[1].kind = "aux" =>
       frames = 0 /\ acts[1].frames = generation + 1
  /\ \A t \in tokens : t.of = t.generation + 1

Outside == Alone(acts, inDrive) /\ Moved

LEMMA MovedKept ==
  ASSUME Moved, acts # <<>>, acts' # <<>>, acts'[1] = acts[1],
         UNCHANGED <<frames, generation, tokens>>
  PROVE  Moved'
  BY DEF Moved

LEMMA SameOutside ==
  ASSUME Outside, UNCHANGED <<acts, inDrive, frames, generation, tokens>>
  PROVE  Outside'
  BY DEF Outside, Moved

\* What is not an entry is pushed over one, or popped.
LEMMA PushOutside ==
  ASSUME Outside, Natives, acts # <<>>, NEW e \in Acts, Enter(e), e.kind \notin Entries,
         UNCHANGED <<inDrive, frames, generation, tokens>>
  PROVE  Outside'
<1>1. acts \in Seq(Acts) /\ acts' = Append(acts, e) /\ inDrive \in BOOLEAN
  BY DEF Natives, Enter
<1>2. Alone(acts', inDrive)
  BY <1>1, AlonePush DEF Outside
<1>3. Len(acts) \in Nat \ {0}
  BY <1>1, LastFacts
<1>4. acts' \in Seq(Acts) /\ Len(acts') = Len(acts) + 1 /\ acts'[1] = acts[1]
  BY <1>1, <1>3, AppendFacts
<1>5. acts' # <<>>
  BY <1>3, <1>4, EmptySeq
<1> QED
  BY <1>2, <1>4, <1>5, MovedKept DEF Outside

LEMMA PopOutside ==
  ASSUME Outside, Natives, Top # Host, Top \notin Entries, Leave,
         UNCHANGED <<inDrive, frames, generation, tokens>>
  PROVE  Outside'
<1>1. acts # <<>> /\ Last(acts).kind = Top /\ acts' = Front(acts) /\ acts \in Seq(Acts)
      /\ inDrive \in BOOLEAN
  BY TopFacts DEF Natives, Leave
<1>2. Alone(acts', inDrive) /\ acts' # <<>> /\ acts'[1] = acts[1]
  BY <1>1, AlonePop DEF Outside
<1> QED
  BY <1>1, <1>2, MovedKept DEF Outside

\* The entry is popped, and nothing runs.
LEMMA PopEntry ==
  ASSUME Outside, Natives, Top \in Entries, Leave
  PROVE  /\ acts # <<>> /\ acts[1].kind = Top /\ Last(acts) = acts[1]
         /\ acts' = <<>> /\ ~acts[1].was /\ Alone(acts', FALSE)
<1>1. Top # Host
  BY DEF Entries, Host
<1>2. acts # <<>> /\ Last(acts).kind = Top /\ acts' = Front(acts) /\ acts \in Seq(Acts)
      /\ inDrive \in BOOLEAN
  BY <1>1, TopFacts DEF Natives, Leave
<1>3. Front(acts) = <<>> /\ Last(acts) = acts[1] /\ Alone(Front(acts), FALSE)
  BY <1>2, AlonePop DEF Outside
<1>4. ~acts[1].was
  BY <1>2 DEF Outside, Alone
<1> QED
  BY <1>2, <1>3, <1>4

\* A mark is pushed where nothing runs.
LEMMA BeginOutside ==
  ASSUME Outside, Natives, Instance, NEW entry \in Entries, Begin(entry)
  PROVE  /\ acts = <<>> /\ acts' # <<>> /\ acts'[1].kind = entry /\ acts'[1].frames = frames
         /\ Alone(acts', inDrive') /\ UNCHANGED <<generation, tokens>>
<1>1. acts = <<>> /\ ~inDrive
  BY DEF Begin, LetIn, PointerAccepted
<1>2. PICK e : e = [kind |-> entry, was |-> inDrive, frames |-> frames]
  OBVIOUS
<1>3. e \in Acts /\ e.kind = entry /\ e.frames = frames /\ ~e.was
  BY <1>1, <1>2, NewActs DEF Natives, Instance
<1>4. acts \in Seq(Acts) /\ acts' = Append(acts, e) /\ Len(acts) = 0
  BY <1>1, <1>2, EmptySeq DEF Natives, Begin, Enter
<1>5. /\ acts' \in Seq(Acts) /\ Len(acts') = Len(acts) + 1
      /\ acts'[Len(acts) + 1] = e
  BY <1>3, <1>4, AppendFacts
<1>6. acts' # <<>> /\ acts'[1] = e
  BY <1>4, <1>5, EmptySeq
<1>7. inDrive' \in BOOLEAN /\ inDrive \in BOOLEAN /\ (inDrive' <=> entry = "drive")
  BY <1>1 DEF Begin, Scope, Natives
<1>8. Alone(acts', inDrive')
  BY <1>1, <1>3, <1>4, <1>7, AlonePush DEF Outside
<1> QED
  BY <1>1, <1>3, <1>6, <1>8 DEF Begin

LEMMA OutsideStep ==
  ASSUME Inv, Outside, [Next]_vars
  PROVE  Outside'
<1> USE DEF Inv
<1>0. frames \in Nat /\ generation \in Nat /\ MaxRuns \in Nat
  BY EmbeddingAssumption DEF Instance
<1>1. CASE UNCHANGED vars \/ BuildSteps \/ Load \/ ZeroFuel
  BY <1>1, BuildCase, SameOutside DEF vars, Builds, instance, natives, Load, ZeroFuel
<1>2. CASE Drive \/ Resolve \/ ResolveImport
  <2>1. PICK entry \in Drives : Begin(entry) /\ frames' = frames + 1 /\ frames <= MaxRuns
    BY <1>2 DEF Drive, Resolve, ResolveImport, Moves, Drives
  <2>2. /\ acts = <<>> /\ acts' # <<>> /\ acts'[1].kind = entry
        /\ Alone(acts', inDrive') /\ generation' = generation /\ tokens' = tokens
    BY <2>1, BeginOutside DEF Drives, Entries
  <2>3. frames = generation + 1 /\ generation <= MaxRuns
        /\ \A t \in tokens : t.of = t.generation + 1
    BY <2>2 DEF Outside, Moved
  <2>4. frames' = generation' + 2 /\ frames' <= MaxRuns + 1
    BY <1>0, <2>1, <2>2, <2>3
  <2>5. entry # "free" /\ entry # "aux"
    BY <2>1 DEF Drives
  <2> QED
    BY <2>2, <2>3, <2>4, <2>5 DEF Outside, Moved
<1>3. CASE Eval
  <2>1. Begin("aux") /\ "aux" \in Entries /\ frames' = 0
    BY <1>3 DEF Eval, Entries
  <2>2. /\ acts = <<>> /\ acts' # <<>> /\ acts'[1].kind = "aux" /\ acts'[1].frames = frames
        /\ Alone(acts', inDrive') /\ generation' = generation /\ tokens' = tokens
    BY <2>1, BeginOutside
  <2> QED
    BY <2>1, <2>2 DEF Outside, Moved, Drives
<1>4. CASE Free
  <2>1. Begin("free") /\ "free" \in Entries /\ frames' = frames
    BY <1>4 DEF Free, Entries
  <2>2. /\ acts = <<>> /\ acts' # <<>> /\ acts'[1].kind = "free"
        /\ Alone(acts', inDrive') /\ generation' = generation /\ tokens' = tokens
    BY <2>1, BeginOutside
  <2> QED
    BY <2>1, <2>2 DEF Outside, Moved, Drives
<1>5. CASE EndDrive
  <2>1. Top \in Drives /\ Top \in Entries /\ Leave
    BY <1>5 DEF EndDrive, Drives, Entries
  <2>2. /\ acts # <<>> /\ acts[1].kind \in Drives /\ Last(acts) = acts[1]
        /\ acts' = <<>> /\ ~acts[1].was /\ Alone(acts', FALSE)
    BY <2>1, PopEntry
  <2>3. /\ inDrive' = acts[1].was /\ generation' = (generation + 1) % Generations
        /\ frames' = frames /\ tokens' = tokens
    BY <1>5, <2>2 DEF EndDrive, Bump
  <2>4. /\ frames = generation + 2 /\ frames <= MaxRuns + 1
        /\ \A t \in tokens : t.of = t.generation + 1
    BY <2>2 DEF Outside, Moved
  <2>5. generation' = generation + 1 /\ generation + 1 <= MaxRuns
    <3>1. PICK g \in Nat : g = generation + 1
      BY <1>0
    <3>2. g <= MaxRuns
      BY <1>0, <2>4, <3>1
    <3>3. MaxRuns < Generations /\ Generations \in Nat
      BY EmbeddingAssumption
    <3>4. g % Generations = g
      BY <1>0, <3>1, <3>2, <3>3
    <3> QED
      BY <2>3, <3>1, <3>2, <3>4
  <2>6. acts[1].was \in BOOLEAN
    <3>1. acts \in Seq(Acts)
      BY DEF Natives
    <3> QED
      BY <2>2, <3>1, LastFacts, ActFacts DEF Drives, Entries
  <2>7. frames' = generation' + 1
    BY <1>0, <2>3, <2>4, <2>5
  <2>8. Alone(acts', inDrive')
    BY <2>2, <2>3, <2>6
  <2> QED
    BY <2>2, <2>3, <2>4, <2>5, <2>7, <2>8 DEF Outside, Moved
<1>6. CASE EndEval
  <2>1. Top = "aux" /\ Top \in Entries /\ Leave
    BY <1>6 DEF EndEval, Entries
  <2>2. /\ acts # <<>> /\ acts[1].kind = "aux" /\ Last(acts) = acts[1]
        /\ acts' = <<>> /\ Alone(acts', FALSE)
    BY <2>1, PopEntry
  <2>3. /\ inDrive' = inDrive /\ generation' = generation
        /\ frames' = acts[1].frames /\ tokens' = tokens
    BY <1>6, <2>2 DEF EndEval
  <2>4. inDrive = FALSE
    BY <2>2 DEF Outside, Alone, Natives
  <2> QED
    BY <2>2, <2>3, <2>4 DEF Outside, Moved
<1>7. CASE EndFree
  <2>1. Top = "free" /\ Top \in Entries /\ Leave
    BY <1>7 DEF EndFree, Entries
  <2>2. /\ acts # <<>> /\ acts[1].kind = "free"
        /\ acts' = <<>> /\ Alone(acts', FALSE)
    BY <2>1, PopEntry
  <2>3. inDrive' = inDrive /\ generation' = generation /\ frames' = frames /\ tokens' = {}
    BY <1>7 DEF EndFree
  <2>4. inDrive = FALSE
    BY <2>2 DEF Outside, Alone, Natives
  <2> QED
    BY <2>2, <2>3, <2>4 DEF Outside, Moved
<1>8. CASE CallForeign
  <2>1. PICK e : e = [kind |-> "callback", previous |-> currentCtx, reply |-> NoReply,
                      raises |-> FALSE]
    OBVIOUS
  <2>2. currentCtx \in Nat
    <3>1. acts \in Seq(Acts) /\ Len(acts) \in Nat
      BY DEF Natives
    <3> QED
      BY <3>1 DEF Natives, Linked, Innermost
  <2>3. e \in Acts /\ e.kind = "callback" /\ e.kind \notin Entries
    BY <2>1, <2>2, NewActs DEF Entries
  <2>4. Top # Host
    BY <1>8 DEF CallForeign, EngineRuns, Host, Entries
  <2>5. acts # <<>>
    BY <2>4, TopFacts DEF Natives
  <2>6. Enter(e) /\ UNCHANGED <<inDrive, frames, generation, tokens>>
    BY <1>8, <2>1 DEF CallForeign, instance
  <2> QED
    BY <2>3, <2>5, <2>6, PushOutside
<1>9. CASE FireFinalizer \/ Alias
  <2>1. PICK kind \in {"finalizer", "alias"} :
          Enter([kind |-> kind]) /\ UNCHANGED <<inDrive, frames, generation, tokens>>
    BY <1>9 DEF FireFinalizer, Alias, instance
  <2>2. PICK e : e = [kind |-> kind]
    OBVIOUS
  <2>3. e \in Acts /\ e.kind \notin Entries /\ Enter(e)
    BY <2>1, <2>2, NewActs DEF Entries
  <2>4. Top # Host \/ acts # <<>>
    BY <1>9 DEF FireFinalizer, Alias, EngineRuns, Host, Entries
  <2>5. acts # <<>>
    BY <2>4, TopFacts DEF Natives
  <2> QED
    BY <2>1, <2>3, <2>5, PushOutside
<1>10. CASE ReturnFinalizer \/ ReturnCallback \/ EndBlock
  <2>1. /\ Top # Host /\ Top \notin Entries /\ Leave
        /\ UNCHANGED <<inDrive, frames, generation, tokens>>
    BY <1>10 DEF ReturnFinalizer, ReturnCallback, EndBlock, Host, Entries, instance
  <2> QED
    BY <2>1, PopOutside
<1>11. CASE SetReply
  <2>1. PICK e \in Acts : /\ acts # <<>> /\ Last(acts).kind = "callback"
                          /\ e.kind = "callback" /\ acts' = Append(Front(acts), e)
    BY <1>11, ReplyAct
  <2>2. UNCHANGED <<inDrive, frames, generation, tokens>>
    BY <1>11 DEF SetReply, InCallback, instance
  <2>3. acts \in Seq(Acts) /\ inDrive \in BOOLEAN
    BY DEF Natives
  <2>4. Alone(acts', inDrive) /\ acts'[1] = acts[1] /\ acts' # <<>>
    BY <2>1, <2>3, AloneSet DEF Outside
  <2> QED
    BY <2>1, <2>2, <2>4, MovedKept DEF Outside
<1>12. CASE CallBlock
  <2>1. UNCHANGED <<inDrive, frames, generation, tokens>>
    BY <1>12 DEF CallBlock, InCallback, instance
  <2>2. CASE UNCHANGED acts
    BY <2>1, <2>2, SameOutside
  <2>3. CASE Enter([kind |-> "block"])
    <3>1. PICK e : e = [kind |-> "block"]
      OBVIOUS
    <3>2. e \in Acts /\ e.kind = "block" /\ e.kind \notin Entries /\ Enter(e)
      BY <2>3, <3>1, NewActs DEF Entries
    <3>3. acts # <<>>
      BY <1>12, TopFacts DEF CallBlock, InCallback, Host, Inv, Natives
    <3> QED
      BY <2>1, <3>2, <3>3, PushOutside
  <2> QED
    BY <1>12, <2>2, <2>3 DEF CallBlock, InvokeBlock
<1>13. CASE Quiet
  <2>1. /\ acts' = acts /\ inDrive' = inDrive /\ frames' = frames
        /\ generation' = generation
    BY <1>13 DEF Quiet, instance, natives
  <2>2. CASE tokens' = tokens
    BY <2>1, <2>2, SameOutside
  <2>3. CASE Walks
    <3>1. acts = <<>>
      BY <2>3 DEF Walks, LetIn
    <3>2. frames = generation + 1
      BY <3>1 DEF Outside, Moved
    <3>3. \A t \in tokens' : t.of = t.generation + 1
      BY <2>3, <3>2 DEF Walks, Outside, Moved
    <3> QED
      BY <2>1, <3>3 DEF Outside, Moved
  <2> QED
    BY <1>13, <2>2, <2>3 DEF Quiet
<1> QED
  BY <1>1, <1>2, <1>3, <1>4, <1>5, <1>6, <1>7, <1>8, <1>9, <1>10, <1>11, <1>12, <1>13, QuietCase
  DEF Next, BuildSteps, QuietSteps

LEMMA InitOutside ==
  ASSUME Init
  PROVE  Outside
<1>1. Len(acts) = 0 /\ acts = <<>>
  BY EmptySeq DEF Init
<1>2. Alone(acts, inDrive)
  BY <1>1 DEF Init, Alone
<1>3. Moved
  BY <1>1, EmbeddingAssumption DEF Init, Moved
<1> QED
  BY <1>2, <1>3 DEF Outside

LEMMA Outsides == Spec => [](Inv /\ Outside)
<1>1. Init => Inv /\ Outside
  BY InitInv, InitOutside
<1>2. Inv /\ Outside /\ [Next]_vars => (Inv /\ Outside)'
  BY StepInv, OutsideStep
<1> QED
  BY <1>1, <1>2, PTL DEF Spec

\* A frame token that is not refused was given for the stack that the engine
\* holds when the host is let in between its calls, or by a finalizer of
\* doodle_free, and for another one when it is let in by a resolve of an import
\* or an evaluation, which mark no drive: the generation moves with every drive,
\* after it, and never wraps (observe/mod.rs checked_ref, instance.rs
\* fill_outcome).
THEOREM Tokens == Spec => []TokensResolveTheirStack
<1>1. Inv /\ Outside => TokensResolveTheirStack
  <2> SUFFICES ASSUME Inv, Outside, PointerAccepted, NEW t \in tokens, Current(t)
               PROVE  t.of = frames <=> acts = <<>> \/ acts[1].kind = "free"
    BY DEF TokensResolveTheirStack
  <2>1. t.of = generation + 1 /\ generation \in Nat /\ frames \in Nat
    BY DEF Inv, Outside, Moved, Current, Instance
  <2>2. CASE acts = <<>> \/ acts[1].kind = "free"
    BY <2>1, <2>2 DEF Outside, Moved
  <2>3. CASE acts # <<>> /\ acts[1].kind # "free"
    <3>1. acts \in Seq(Acts) /\ Len(acts) \in Nat \ {0}
      BY <2>3, LastFacts DEF Inv, Natives
    <3>2. acts[1].kind \in Entries
      BY <3>1 DEF Outside, Alone
    <3>3. CASE acts[1].kind \in Drives
      BY <2>1, <2>3, <3>3 DEF Outside, Moved
    <3>4. CASE acts[1].kind = "aux"
      BY <2>1, <2>3, <3>4 DEF Outside, Moved
    <3> QED
      BY <2>3, <3>2, <3>3, <3>4 DEF Entries, Drives
  <2> QED
    BY <2>2, <2>3
<1> QED
  BY <1>1, Outsides, PTL

\* The pointer is refused exactly under a call that marks the drive, and of all
\* contexts the innermost callback's is the one that is taken, whatever runs
\* above it (instance.rs IN_DRIVE, call.rs CURRENT_CTX).
THEOREM Borrows == Spec => []OneBorrower
<1>1. Inv /\ Outside => OneBorrower
  <2> SUFFICES ASSUME Inv, Outside PROVE OneBorrower
    OBVIOUS
  <2>1. acts \in Seq(Acts) /\ Len(acts) \in Nat /\ stash \subseteq Nat \ {0}
        /\ DOMAIN acts = 1 .. Len(acts)
    BY DEF Inv, Natives, NoCtx
  <2>2. PointerAccepted <=> \A i \in DOMAIN acts : acts[i].kind # "drive"
    <3>1. inDrive <=> acts # <<>> /\ acts[1].kind = "drive"
      BY DEF Outside, Alone
    <3>2. \A i \in 1 .. Len(acts) : acts[i].kind \in Entries <=> i = 1
      BY DEF Outside, Alone
    <3>3. CASE acts = <<>>
      BY <3>1, <3>3 DEF PointerAccepted
    <3>4. CASE acts # <<>>
      <4>1. 1 \in DOMAIN acts
        BY <2>1, <3>4, LastFacts
      <4> QED
        BY <2>1, <3>1, <3>2, <3>4, <4>1 DEF PointerAccepted, Entries
    <3> QED
      BY <3>3, <3>4
  <2>3. /\ currentCtx \in 0 .. Len(acts)
        /\ currentCtx # 0 => acts[currentCtx].kind = "callback"
        /\ \A i \in currentCtx + 1 .. Len(acts) : acts[i].kind # "callback"
    BY DEF Inv, Natives, Linked, Innermost
  <2>4. ASSUME NEW p \in stash PROVE CtxAccepted(p) <=> InnermostCallback(p)
    <3>1. p \in Nat \ {0}
      BY <2>1
    <3>2. ASSUME p = currentCtx PROVE InnermostCallback(p)
      <4>1. p \in 1 .. Len(acts) /\ acts[p].kind = "callback"
        BY <2>1, <2>3, <3>1, <3>2
      <4>2. ASSUME NEW i \in 1 .. Len(acts), acts[i].kind = "callback" PROVE i <= p
        BY <2>1, <2>3, <3>1, <3>2, <4>2
      <4> QED
        BY <2>1, <4>1, <4>2 DEF InnermostCallback
    <3>3. ASSUME InnermostCallback(p) PROVE p = currentCtx
      <4>1. p \in 1 .. Len(acts) /\ acts[p].kind = "callback"
        BY <2>1, <3>3 DEF InnermostCallback
      <4>2. p <= currentCtx
        BY <2>1, <2>3, <4>1
      <4>3. currentCtx \in 1 .. Len(acts)
        BY <2>1, <2>3, <4>1, <4>2
      <4>4. currentCtx <= p
        BY <2>1, <2>3, <3>3, <4>1, <4>3 DEF InnermostCallback
      <4> QED
        BY <2>3, <4>1, <4>2, <4>4
    <3> QED
      BY <3>2, <3>3 DEF CtxAccepted
  <2> QED
    BY <2>2, <2>4 DEF OneBorrower
<1> QED
  BY <1>1, Outsides, PTL
=============================================================================
