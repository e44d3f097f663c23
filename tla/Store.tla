------------------------------- MODULE Store -------------------------------
(* What the language promises of values: a record is its content, so a       *)
(* variable, a field, an element or an entry that holds one holds all of it  *)
(* and shares nothing; lists, dicts and `ref` records are objects with an    *)
(* identity. A dict is a list of entries no two of whose keys are equal, and *)
(* a key finds the entry whose key is equal to it. There are no hashes.      *)
EXTENDS Statements

VARIABLES
  env,      \* variable -> value
  refs,     \* identity -> object
  pending,  \* stack of dict operations whose key is being hashed by the program
  raised,   \* how the last statement ended: OK or the kind it raised
  next,     \* the statement to run
  program   \* the program

svars == <<env, refs, pending, raised, next, program>>

Val(t, v) == [kind |-> "Val", type |-> t, field |-> v]
Ref(id) == [kind |-> "Ref", id |-> id]
List(items) == [tag |-> "list", items |-> items]
Dict(entries) == [tag |-> "dict", entries |-> entries]
Rec(t, v) == [tag |-> "rec", type |-> t, field |-> v]

----------------------------------------------------------------------------
(* Equality of content: the greatest relation under which two objects are    *)
(* related only if they agree on what they hold.                             *)
RECURSIVE Agree(_, _, _)
Agree(R, a, b) ==
  CASE IsNum(a) /\ IsNum(b) -> NumericEqual(a, b)
    [] a.kind = "Val" /\ b.kind = "Val" -> a.type = b.type /\ Agree(R, a.field, b.field)
    [] a.kind = "Ref" /\ b.kind = "Ref" -> <<a.id, b.id>> \in R
    [] OTHER -> a = b

AgreeObjects(R, o, p) ==
  /\ o.tag = p.tag
  /\ CASE o.tag = "list" -> /\ Len(o.items) = Len(p.items)
                            /\ \A i \in DOMAIN o.items : Agree(R, o.items[i], p.items[i])
       [] o.tag = "rec" -> o.type = p.type /\ Agree(R, o.field, p.field)
       [] o.tag = "dict" -> /\ Len(o.entries) = Len(p.entries)
                            /\ \A i \in DOMAIN o.entries : \E j \in DOMAIN p.entries :
                                 /\ Agree(R, o.entries[i][1], p.entries[j][1])
                                 /\ Agree(R, o.entries[i][2], p.entries[j][2])

RECURSIVE Greatest(_, _)
Greatest(r, R) ==
  LET S == {pair \in R : AgreeObjects(R, r[pair[1]], r[pair[2]])}
  IN IF S = R THEN R ELSE Greatest(r, S)

SameContent(r, a, b) == Agree(Greatest(r, (DOMAIN r) \X (DOMAIN r)), a, b)

\* Content no later statement can change.
RECURSIVE Frozen(_)
Frozen(v) ==
  CASE v.kind = "Ref" -> FALSE
    [] v.kind = "Val" -> Frozen(v.field)
    [] OTHER -> TRUE

\* The program hashes this key itself.
Driven(r, v) ==
  \/ v.kind = "Val" /\ v.type \in Implements
  \/ v.kind = "Ref" /\ IF v.kind = "Ref" /\ r[v.id].tag = "rec" THEN r[v.id].type \in Implements ELSE FALSE

----------------------------------------------------------------------------
(* Reading. *)
Position(r, d, k) ==
  LET hits == {i \in DOMAIN r[d].entries : SameContent(r, r[d].entries[i][1], k)}
  IN IF hits = {} THEN 0 ELSE Min(hits)

IsObject(r, v, tag) == IF v.kind = "Ref" THEN r[v.id].tag = tag ELSE FALSE

Field(r, v) ==
  IF v.kind = "Val" THEN v.field
  ELSE IF IsObject(r, v, "rec") THEN r[v.id].field ELSE Raise("TypeMismatch")

Lookup(r, v, k) ==
  LET p == Position(r, v.id, k)
  IN IF p = 0 THEN Raise("KeyNotFound") ELSE r[v.id].entries[p][2]

Eval(r, e) ==
  CASE e.e = "lit" -> e.v
    [] e.e = "name" -> env[e.x]
    [] e.e = "field" -> Field(r, env[e.x])
    [] e.e = "item" -> IF ~IsObject(r, env[e.x], "list") THEN Raise("TypeMismatch")
                       ELSE IF r[env[e.x].id].items = <<>> THEN Raise("IndexOutOfRange")
                       ELSE r[env[e.x].id].items[1]
    [] e.e = "at" -> IF IsObject(r, env[e.x], "dict") THEN Lookup(r, env[e.x], e.k)
                     ELSE Raise("TypeMismatch")

\* Storing into an entry keeps the first key.
Insert(r, d, k, v) ==
  LET p == Position(r, d, k)
  IN IF p = 0 THEN [r EXCEPT ![d].entries = Append(@, <<k, v>>)]
     ELSE [r EXCEPT ![d].entries[p][2] = v]

----------------------------------------------------------------------------
(* Statements. What nothing names any more is forgotten. *)
RECURSIVE Within(_)
Within(v) == CASE v.kind = "Ref" -> {v.id} [] v.kind = "Val" -> Within(v.field) [] OTHER -> {}

Holds(o) ==
  CASE o.tag = "list" -> UNION {Within(o.items[i]) : i \in DOMAIN o.items}
    [] o.tag = "rec" -> Within(o.field)
    [] o.tag = "dict" -> UNION {Within(o.entries[i][1]) \cup Within(o.entries[i][2]) : i \in DOMAIN o.entries}

RECURSIVE Closure(_, _)
Closure(r, ids) ==
  LET more == ids \cup UNION {Holds(r[i]) : i \in ids}
  IN IF more = ids THEN ids ELSE Closure(r, more)

PendingIds(p) ==
  UNION {UNION {Within(p[i].args[j]) : j \in DOMAIN p[i].args} : i \in DOMAIN p}

Settle(e, r, p, how) ==
  /\ env' = e /\ pending' = p /\ raised' = how /\ next' = NoStatement
  /\ UNCHANGED program
  /\ LET live == Closure(r, UNION {Within(e[x]) : x \in Names} \cup PendingIds(p))
     IN refs' = [i \in live |-> r[i]]

Fails(v) == Settle(env, refs, pending, v.what)

New(id) == id \in 1 .. program.objects /\ id \notin DOMAIN refs

\* The next statement.
Fetch ==
  /\ next = NoStatement
  /\ next' \in IF pending = <<>> THEN program.main ELSE program.hash \cup Returns
  /\ UNCHANGED <<env, refs, pending, raised, program>>

Assign ==
  /\ next.s = "bind"
  /\ LET v == Eval(refs, next.e) IN
     IF IsRaise(v) THEN Fails(v) ELSE Settle([env EXCEPT ![next.x] = v], refs, pending, OK)

Construct(id) ==
  /\ next.s = "record" /\ New(id)
  /\ LET v == Eval(refs, next.e) IN
     IF IsRaise(v) THEN Fails(v)
     ELSE IF next.t \in ValTypes
     THEN Settle([env EXCEPT ![next.x] = Val(next.t, v)], refs, pending, OK)
     ELSE Settle([env EXCEPT ![next.x] = Ref(id)], (id :> Rec(next.t, v)) @@ refs, pending, OK)

MakeList(id) ==
  /\ next.s = "list" /\ New(id)
  /\ LET vs == [i \in DOMAIN next.es |-> Eval(refs, next.es[i])] IN
     IF \E i \in DOMAIN vs : IsRaise(vs[i]) THEN Fails(FirstRaise(vs))
     ELSE Settle([env EXCEPT ![next.x] = Ref(id)], (id :> List(vs)) @@ refs, pending, OK)

\* The object changed is the one the place names, wherever it lies.
ChangeField ==
  /\ next.s = "field"
  /\ LET p == next.p
         o == Eval(refs, p)
         v == Eval(refs, next.e)
         own == env[p.x]
         at == Position(refs, own.id, p.k)
     IN IF IsRaise(o) THEN Fails(o)
        ELSE IF IsRaise(v) THEN Fails(v)
        ELSE IF IsObject(refs, o, "rec") THEN Settle(env, [refs EXCEPT ![o.id].field = v], pending, OK)
        ELSE IF o.kind # "Val" THEN Fails(Raise("TypeMismatch"))
        ELSE CASE p.e = "name" -> Settle([env EXCEPT ![p.x].field = v], refs, pending, OK)
               [] p.e = "field" /\ own.kind = "Val" ->
                    Settle([env EXCEPT ![p.x].field.field = v], refs, pending, OK)
               [] p.e = "field" /\ own.kind # "Val" ->
                    Settle(env, [refs EXCEPT ![own.id].field.field = v], pending, OK)
               [] p.e = "item" -> Settle(env, [refs EXCEPT ![own.id].items[1].field = v], pending, OK)
               [] p.e = "at" -> Settle(env, [refs EXCEPT ![own.id].entries[at][2].field = v], pending, OK)

----------------------------------------------------------------------------
(* Dict operations. A key the program hashes waits until its `hash` returns: *)
(* a store or a read, or a literal with the dict so far and what is left.    *)
Wait(op) == Len(pending) < MaxParked /\ Settle(env, refs, <<op>> \o pending, OK)

SetIndex ==
  /\ next.s = "store"
  /\ LET d == env[next.x]
         key == Eval(refs, next.k)
         v == Eval(refs, next.e)
     IN IF IsRaise(key) THEN Fails(key)
        ELSE IF IsRaise(v) THEN Fails(v)
        ELSE IF ~IsObject(refs, d, "dict") THEN Fails(Raise("TypeMismatch"))
        ELSE IF Driven(refs, key) THEN Wait([do |-> "store", into |-> next.x, args |-> <<d, key, v>>])
        ELSE IF ~Frozen(key) THEN Fails(Raise("UnhashableKey"))
        ELSE Settle(env, Insert(refs, d.id, key, v), pending, OK)

ReadIndex ==
  /\ next.s = "read"
  /\ LET d == env[next.y]
         key == Eval(refs, next.k)
         v == Lookup(refs, d, key)
     IN IF IsRaise(key) THEN Fails(key)
        ELSE IF ~IsObject(refs, d, "dict") THEN Fails(Raise("TypeMismatch"))
        ELSE IF Driven(refs, key) THEN Wait([do |-> "read", into |-> next.x, args |-> <<d, key>>])
        ELSE IF ~Frozen(key) THEN Fails(Raise("UnhashableKey"))
        ELSE IF IsRaise(v) THEN Fails(v)
        ELSE Settle([env EXCEPT ![next.x] = v], refs, pending, OK)

RECURSIVE Build(_, _, _, _)
Build(x, r, args, rest) ==
  LET d == args[1]
      key == args[2]
  IN IF Len(args) = 1 THEN Settle([env EXCEPT ![x] = d], r, rest, OK)
     ELSE IF Driven(r, key)
     THEN /\ Len(rest) < MaxParked
          /\ Settle(env, r, <<[do |-> "build", into |-> x, args |-> args]>> \o rest, OK)
     ELSE IF ~Frozen(key) THEN Settle(env, r, rest, "UnhashableKey")
     ELSE Build(x, Insert(r, d.id, key, args[3]), <<d>> \o SubSeq(args, 4, Len(args)), rest)

MakeDict(id) ==
  /\ next.s = "dict" /\ New(id)
  /\ LET vs == FlattenSeq([i \in DOMAIN next.lit |->
                  <<Eval(refs, next.lit[i][1]), Eval(refs, next.lit[i][2])>>]) IN
     IF \E i \in DOMAIN vs : IsRaise(vs[i]) THEN Fails(FirstRaise(vs))
     ELSE Build(next.x, (id :> Dict(<<>>)) @@ refs, <<Ref(id)>> \o vs, pending)

HashReturns ==
  /\ next.s = "return"
  /\ LET op == Head(pending)
         rest == Tail(pending)
         d == op.args[1].id
         v == Lookup(refs, op.args[1], op.args[2])
     IN IF ~next.isInt THEN Settle(env, refs, rest, "TypeMismatch")
        ELSE CASE op.do = "store" -> Settle(env, Insert(refs, d, op.args[2], op.args[3]), rest, OK)
               [] op.do = "read" -> IF IsRaise(v) THEN Settle(env, refs, rest, v.what)
                                    ELSE Settle([env EXCEPT ![op.into] = v], refs, rest, OK)
               [] op.do = "build" ->
                    Build(op.into, Insert(refs, d, op.args[2], op.args[3]),
                          <<op.args[1]>> \o SubSeq(op.args, 4, Len(op.args)), rest)

Init ==
  /\ env = [x \in Names |-> IntValue(1)]
  /\ refs = <<>> /\ pending = <<>> /\ raised = OK /\ next = NoStatement
  /\ program \in Programs

Next ==
  \/ Fetch \/ Assign \/ ChangeField \/ SetIndex \/ ReadIndex \/ HashReturns
  \/ \E id \in 1 .. program.objects : Construct(id) \/ MakeList(id) \/ MakeDict(id)

Spec == Init /\ [][Next]_svars
=============================================================================
