------------------------------- MODULE Values -------------------------------
(* Values as the machine keeps them: a list, a dict or a record of either    *)
(* kind is an object of the heap, a value is a reference to it, and a record *)
(* is its content only because it is copied wherever it lands in a place     *)
(* (record.rs). A dict has its entries in order and an index from a hash to  *)
(* positions, kept here as the bucket of each entry (dict/mod.rs). The       *)
(* operands of one statement are read with nothing in between, except where  *)
(* the program's own `hash` runs; objects nothing reaches are dropped at     *)
(* once (the collector is Roots).                                            *)
EXTENDS Statements

CONSTANT Squash(_)   \* what a hash keeps of what was hashed: where it collides

VARIABLES
  vars,     \* variable -> value
  heap,     \* index -> object
  parked,   \* stack of continuations waiting for a driven `hash`
  raised,   \* how the last statement ended: OK or the kind it raised
  next,     \* the statement to run
  program   \* the program

vvars == <<vars, heap, parked, raised, next, program>>

List(items) == [tag |-> "list", items |-> items]
\* astray, history: it has stored a key that changed while it was hashed.
Dict(entries, buckets) == [tag |-> "dict", entries |-> entries, buckets |-> buckets, astray |-> FALSE]
Rec(t, v) == [tag |-> "rec", type |-> t, field |-> v]
Obj(id) == [kind |-> "Obj", id |-> id]

IsObj(v) == v.kind = "Obj"
Is(h, v, tag) == IF IsObj(v) THEN h[v.id].tag = tag ELSE FALSE
IsValueRecord(h, v) == IF Is(h, v, "rec") THEN h[v.id].type \in ValTypes ELSE FALSE

\* The lowest free slot takes the object.
Alloc(h, o) ==
  LET id == CHOOSE i \in 1 .. Cardinality(DOMAIN h) + 1 :
              i \notin DOMAIN h /\ \A j \in 1 .. i - 1 : j \in DOMAIN h
  IN [h |-> (id :> o) @@ h, v |-> Obj(id)]

----------------------------------------------------------------------------
(* Copies. *)
\* Mutant: fields that are records are shared.
CopyShallow(h, v) ==
  IF IsValueRecord(h, v) THEN Alloc(h, h[v.id]) ELSE [h |-> h, v |-> v]

\* A value on its way into a place.
RECURSIVE CopyOnBind(_, _)
CopyOnBind(h, v) ==
  IF ~IsValueRecord(h, v) THEN [h |-> h, v |-> v]
  ELSE LET field == CopyOnBind(h, h[v.id].field)
       IN Alloc(field.h, Rec(h[v.id].type, field.v))

RECURSIVE CopyAll(_, _)
CopyAll(h, vs) ==
  IF vs = <<>> THEN [h |-> h, vs |-> <<>>]
  ELSE LET first == CopyOnBind(h, Head(vs))
           others == CopyAll(first.h, Tail(vs))
       IN [h |-> others.h, vs |-> <<first.v>> \o others.vs]

----------------------------------------------------------------------------
(* Hashing. *)
RECURSIVE Hashable(_, _)
Hashable(h, v) ==
  IF ~IsObj(v) THEN TRUE
  ELSE IF ~IsValueRecord(h, v) THEN FALSE ELSE Hashable(h, h[v.id].field)

\* What a hashable value writes to the hasher; there is nothing for a value
\* that is not hashable, and reaching one is a panic.
RECURSIVE Written(_, _)
Written(h, v) ==
  IF IsNum(v) THEN HashNumber(v)
  ELSE IF IsObj(v) THEN <<"rec", h[v.id].type, Written(h, h[v.id].field)>>
  ELSE <<"scalar", v>>

HashValue(h, v) == Squash(Written(h, v))

\* An implementation of `hash` that keeps its contract: equal keys, equal
\* numbers. It is given a copy, so what it returns is settled by the key as it
\* was then.
UserHash(h, v) ==
  LET f == h[v.id].field IN
  IF ~IsNum(f) THEN 0 ELSE IF HashNumber(f)[1] = "int" THEN HashNumber(f)[2] ELSE 0

\* The bucket of a driven hash is the hash of the number it returned.
UserBucket(h, v) == Squash(HashNumber(IntValue(UserHash(h, v))))

\* The key's type has an explicit `implement Hashable`.
Driven(h, v) == IF Is(h, v, "rec") THEN h[v.id].type \in Implements ELSE FALSE

----------------------------------------------------------------------------
(* Equality: a walk that takes a pair it is already comparing as equal. Its  *)
(* outcome is "yes", "no" or, where hashing meets a value that cannot be     *)
(* hashed, "panic".                                                          *)
\* All of a sequence of comparisons, up to the first that is not a yes.
FirstNot(outcomes) ==
  LET bad == {i \in DOMAIN outcomes : outcomes[i] # "yes"}
  IN IF bad = {} THEN "yes" ELSE outcomes[Min(bad)]
Answer(b) == IF b THEN "yes" ELSE "no"

RECURSIVE EqualRec(_, _, _, _), Find(_, _, _, _)

EqualRec(h, a, b, path) ==
  IF IsNum(a) /\ IsNum(b) THEN Answer(NumericEqual(a, b))
  ELSE IF ~IsObj(a) \/ ~IsObj(b) THEN Answer(a = b)
  ELSE LET o == h[a.id]
           p == h[b.id]
           below == path \cup {<<a.id, b.id>>}
       IN CASE o.tag # p.tag -> "no"
            [] o.tag = p.tag /\ (a.id = b.id \/ <<a.id, b.id>> \in path) -> "yes"
            [] OTHER ->
                 CASE o.tag = "list" ->
                        IF Len(o.items) # Len(p.items) THEN "no"
                        ELSE FirstNot([i \in DOMAIN o.items |-> EqualRec(h, o.items[i], p.items[i], below)])
                   [] o.tag = "rec" ->
                        IF o.type # p.type THEN "no" ELSE EqualRec(h, o.field, p.field, below)
                   [] o.tag = "dict" ->
                        IF Len(o.entries) # Len(p.entries) THEN "no"
                        ELSE FirstNot([i \in DOMAIN o.entries |->
                          IF ~Hashable(h, o.entries[i][1]) THEN "panic"
                          ELSE LET at == Find(h, b.id, o.entries[i][1], HashValue(h, o.entries[i][1]))
                               IN IF at = 0 THEN "no"
                                  ELSE EqualRec(h, o.entries[i][2], p.entries[at][2], below)])

\* The first entry of the bucket whose key is equal, or 0. (That comparing two
\* keys could itself panic is left out.)
Find(h, d, key, bucket) ==
  LET hits == {i \in DOMAIN h[d].entries :
                 h[d].buckets[i] = bucket /\ EqualRec(h, h[d].entries[i][1], key, {}) = "yes"}
  IN IF hits = {} THEN 0 ELSE Min(hits)

EqualValues(h, a, b) == EqualRec(h, a, b, {})

----------------------------------------------------------------------------
(* Reading: aliases, never copies. *)
FieldRead(h, v) == IF Is(h, v, "rec") THEN h[v.id].field ELSE Raise("TypeMismatch")

EntryAt(h, d, at) == IF at = 0 THEN Raise("KeyNotFound") ELSE h[d].entries[at][2]
GetWithHash(h, d, key, bucket) == EntryAt(h, d, Find(h, d, key, bucket))

Eval(h, e) ==
  CASE e.e = "lit" -> e.v
    [] e.e = "name" -> vars[e.x]
    [] e.e = "field" -> FieldRead(h, vars[e.x])
    [] e.e = "item" -> IF ~Is(h, vars[e.x], "list") THEN Raise("TypeMismatch")
                       ELSE IF h[vars[e.x].id].items = <<>> THEN Raise("IndexOutOfRange")
                       ELSE h[vars[e.x].id].items[1]
    [] e.e = "at" -> IF Is(h, vars[e.x], "dict")
                     THEN GetWithHash(h, vars[e.x].id, e.k, HashValue(h, e.k))
                     ELSE Raise("TypeMismatch")

DictSetValue(h, d, at, v) == [h EXCEPT ![d].entries[at][2] = v]
DictPushEntry(h, d, key, v, bucket) ==
  [h EXCEPT ![d].entries = Append(@, <<key, v>>), ![d].buckets = Append(@, bucket)]

\* Mutant: the key is stored as it is.
InsertAliased(h, d, key, v, bucket, at) ==
  IF at # 0 THEN DictSetValue(h, d, at, v) ELSE DictPushEntry(h, d, key, v, bucket)

\* A new entry has a copy of the key; a stored one keeps its first key.
PutEntry(h, d, key, v, bucket, at) ==
  LET own == CopyOnBind(h, key) IN
  IF at # 0 THEN DictSetValue(h, d, at, v) ELSE DictPushEntry(own.h, d, own.v, v, bucket)

\* The one place where entries are stored: the value is copied first.
InsertWithHash(h, d, key, v, bucket) ==
  LET value == CopyOnBind(h, v)
  IN PutEntry(value.h, d, key, value.v, bucket, Find(value.h, d, key, bucket))

----------------------------------------------------------------------------
(* Statements. *)
Refers(o) ==
  CASE o.tag = "list" -> ToSet(o.items)
    [] o.tag = "rec" -> {o.field}
    [] o.tag = "dict" -> UNION {ToSet(o.entries[i]) : i \in DOMAIN o.entries}
Ids(vs) == {v.id : v \in {w \in vs : IsObj(w)}}

RECURSIVE Closure(_, _)
Closure(h, ids) ==
  LET more == ids \cup UNION {Ids(Refers(h[i])) : i \in ids}
  IN IF more = ids THEN ids ELSE Closure(h, more)

\* The end of a statement.
Settle(b, h, p, how) ==
  /\ vars' = b /\ parked' = p /\ raised' = how /\ next' = NoStatement
  /\ UNCHANGED program
  /\ LET live == Closure(h, Ids({b[x] : x \in Names} \cup UNION {ToSet(p[i].args) : i \in DOMAIN p}))
     IN heap' = [i \in live |-> h[i]]
  /\ DOMAIN heap' \subseteq 1 .. program.objects
  /\ \A i \in DOMAIN heap' : heap'[i].tag = "dict" => Len(heap'[i].entries) <= MaxLen

Fails(v) == Settle(vars, heap, parked, v.what)

\* Storing into a variable copies.
SetVar(x, h, v, p) == LET c == CopyOnBind(h, v) IN Settle([vars EXCEPT ![x] = c.v], c.h, p, OK)

Fetch ==
  /\ next = NoStatement
  /\ next' \in IF parked = <<>> THEN program.main ELSE program.hash \cup Returns
  /\ UNCHANGED <<vars, heap, parked, raised, program>>

AssignTo ==
  /\ next.s = "bind"
  /\ LET v == Eval(heap, next.e) IN
     IF IsRaise(v) THEN Fails(v) ELSE SetVar(next.x, heap, v, parked)

Construct ==
  /\ next.s = "record"
  /\ LET v == Eval(heap, next.e)
         field == CopyOnBind(heap, v)
         made == Alloc(field.h, Rec(next.t, field.v))
     IN IF IsRaise(v) THEN Fails(v) ELSE SetVar(next.x, made.h, made.v, parked)

\* Mutant: elements are stored as they are.
ListShared(h, vs) == Alloc(h, List(vs))
ListOf(h, vs) == LET c == CopyAll(h, vs) IN Alloc(c.h, List(c.vs))

MakeList ==
  /\ next.s = "list"
  /\ LET vs == [i \in DOMAIN next.es |-> Eval(heap, next.es[i])]
         made == ListOf(heap, vs)
     IN IF \E i \in DOMAIN vs : IsRaise(vs[i]) THEN Fails(FirstRaise(vs))
        ELSE SetVar(next.x, made.h, made.v, parked)

FieldSet ==
  /\ next.s = "field"
  /\ LET o == Eval(heap, next.p)
         v == Eval(heap, next.e)
         c == CopyOnBind(heap, v)
     IN IF IsRaise(o) THEN Fails(o)
        ELSE IF IsRaise(v) THEN Fails(v)
        ELSE IF ~Is(heap, o, "rec") THEN Fails(Raise("TypeMismatch"))
        ELSE Settle(vars, [c.h EXCEPT ![o.id].field = c.v], parked, OK)

----------------------------------------------------------------------------
(* Dict operations. A driven key is parked, with its operation and the       *)
(* bucket its hash is going to name, and the implementation runs.            *)
Park(op, below) == Len(below) < MaxParked /\ Settle(vars, heap, <<op>> \o below, OK)

IndexSet ==
  /\ next.s = "store"
  /\ LET d == vars[next.x]
         key == Eval(heap, next.k)
         v == Eval(heap, next.e)
     IN IF IsRaise(key) THEN Fails(key)
        ELSE IF IsRaise(v) THEN Fails(v)
        ELSE IF ~Is(heap, d, "dict") THEN Fails(Raise("TypeMismatch"))
        ELSE IF Driven(heap, key)
        THEN Park([do |-> "store", into |-> next.x, args |-> <<d, key, v>>, bucket |-> UserBucket(heap, key)], parked)
        ELSE IF ~Hashable(heap, key) THEN Fails(Raise("UnhashableKey"))
        ELSE Settle(vars, InsertWithHash(heap, d.id, key, v, HashValue(heap, key)), parked, OK)

IndexApply ==
  /\ next.s = "read"
  /\ LET d == vars[next.y]
         key == Eval(heap, next.k)
         v == GetWithHash(heap, d.id, key, HashValue(heap, key))
     IN IF IsRaise(key) THEN Fails(key)
        ELSE IF ~Is(heap, d, "dict") THEN Fails(Raise("TypeMismatch"))
        ELSE IF Driven(heap, key)
        THEN Park([do |-> "read", into |-> next.x, args |-> <<d, key>>, bucket |-> UserBucket(heap, key)], parked)
        ELSE IF ~Hashable(heap, key) THEN Fails(Raise("UnhashableKey"))
        ELSE IF IsRaise(v) THEN Fails(v) ELSE SetVar(next.x, heap, v, parked)

\* The entries of a literal still to be stored follow the dict in args; below
\* is the stack under this literal.
RECURSIVE DictBuild(_, _, _, _)
DictBuild(x, h, args, below) ==
  LET d == args[1]
      key == args[2]
  IN IF Len(args) = 1 THEN SetVar(x, h, d, below)
     ELSE IF Driven(h, key)
     THEN /\ Len(below) < MaxParked
          /\ Settle(vars, h, <<[do |-> "build", into |-> x, args |-> args,
                                bucket |-> UserBucket(h, key)]>> \o below, OK)
     ELSE IF ~Hashable(h, key) THEN Settle(vars, h, below, "UnhashableKey")
     ELSE DictBuild(x, InsertWithHash(h, d.id, key, args[3], HashValue(h, key)),
                    <<d>> \o SubSeq(args, 4, Len(args)), below)

MakeDict ==
  /\ next.s = "dict"
  /\ LET vs == FlattenSeq([i \in DOMAIN next.lit |->
                  <<Eval(heap, next.lit[i][1]), Eval(heap, next.lit[i][2])>>])
         made == Alloc(heap, Dict(<<>>, <<>>))
     IN IF \E i \in DOMAIN vs : IsRaise(vs[i]) THEN Fails(FirstRaise(vs))
        ELSE DictBuild(next.x, made.h, <<made.v>> \o vs, parked)

\* The parked key is a reference like any other: a change of the record it
\* refers to changes it, and its bucket stays.
ChangedSince(op) == op.bucket # UserBucket(heap, op.args[2])

\* The innermost `hash` has returned; the operation it was for goes on.
HashReturned ==
  /\ next.s = "return"
  /\ LET op == Head(parked)
         below == Tail(parked)
         d == op.args[1].id
         v == GetWithHash(heap, d, op.args[2], op.bucket)
         stored == [InsertWithHash(heap, d, op.args[2], op.args[3], op.bucket)
                      EXCEPT ![d].astray = @ \/ ChangedSince(op)]
     IN IF ~next.isInt THEN Settle(vars, heap, below, "TypeMismatch")
        ELSE CASE op.do = "store" -> Settle(vars, stored, below, OK)
               [] op.do = "read" -> IF IsRaise(v) THEN Settle(vars, heap, below, v.what)
                                    ELSE SetVar(op.into, heap, v, below)
               [] op.do = "build" ->
                    DictBuild(op.into, stored, <<op.args[1]>> \o SubSeq(op.args, 4, Len(op.args)), below)

Init ==
  /\ vars = [x \in Names |-> IntValue(1)]
  /\ heap = <<>> /\ parked = <<>> /\ raised = OK /\ next = NoStatement
  /\ program \in Programs

Next ==
  \/ Fetch \/ AssignTo \/ Construct \/ MakeList \/ FieldSet
  \/ IndexSet \/ IndexApply \/ MakeDict \/ HashReturned

Spec == Init /\ [][Next]_vvars

----------------------------------------------------------------------------
(* What a state of the heap means. *)
RECURSIVE Denote(_, _)
Denote(h, v) ==
  IF ~IsObj(v) THEN v
  ELSE IF IsValueRecord(h, v) THEN [kind |-> "Val", type |-> h[v.id].type, field |-> Denote(h, h[v.id].field)]
  ELSE [kind |-> "Ref", id |-> v.id]

DenoteObject(h, o) ==
  CASE o.tag = "list" -> [tag |-> "list", items |-> [i \in DOMAIN o.items |-> Denote(h, o.items[i])]]
    [] o.tag = "rec" -> [tag |-> "rec", type |-> o.type, field |-> Denote(h, o.field)]
    [] o.tag = "dict" -> [tag |-> "dict",
          entries |-> [i \in DOMAIN o.entries |-> <<Denote(h, o.entries[i][1]), Denote(h, o.entries[i][2])>>]]

Meaning == INSTANCE Store WITH
  env <- [x \in Names |-> Denote(heap, vars[x])],
  refs <- [i \in {j \in DOMAIN heap : ~IsValueRecord(heap, Obj(j))} |-> DenoteObject(heap, heap[i])],
  pending <- [i \in DOMAIN parked |->
                [do |-> parked[i].do, into |-> parked[i].into,
                 args |-> [j \in DOMAIN parked[i].args |-> Denote(heap, parked[i].args[j])]]]

----------------------------------------------------------------------------
DrivenKeys(h, id) ==
  \E i \in Closure(h, {id}) : h[i].tag = "dict" /\ \E j \in DOMAIN h[i].entries : Driven(h, h[i].entries[j][1])

\* A key that only its own `hash` can hash lies within id.
OpaqueKeys(h, id) ==
  \E i \in Closure(h, {id}) : h[i].tag = "dict" /\ \E j \in DOMAIN h[i].entries : ~Hashable(h, h[i].entries[j][1])

\* The bucket a key belongs to.
BucketOf(h, key) == IF Driven(h, key) THEN UserBucket(h, key) ELSE HashValue(h, key)

\* Every place a value lies in, with the value.
Held ==
  {<<"var", x, 0, vars[x]>> : x \in Names}
  \cup UNION {CASE heap[i].tag = "list" -> {<<"item", i, j, heap[i].items[j]>> : j \in DOMAIN heap[i].items}
                [] heap[i].tag = "rec" -> {<<"field", i, 0, heap[i].field>>}
                [] heap[i].tag = "dict" ->
                     {<<"key", i, j, heap[i].entries[j][1]>> : j \in DOMAIN heap[i].entries}
                     \cup {<<"value", i, j, heap[i].entries[j][2]>> : j \in DOMAIN heap[i].entries}
              : i \in DOMAIN heap}

\* No reference of a variable, an object or a parked operation is to a freed
\* slot, and a dict's index covers exactly its entries.
TypeOK ==
  /\ Ids({p[4] : p \in Held} \cup UNION {ToSet(parked[i].args) : i \in DOMAIN parked}) \subseteq DOMAIN heap
  /\ \A i \in DOMAIN heap : heap[i].tag = "dict" => Len(heap[i].buckets) = Len(heap[i].entries)

\* A value record lies in one place at most: a change made through one place
\* never shows in another (record.rs:77-87).
RecordsAreOwned ==
  \A p, q \in Held : (p[4] = q[4] /\ IsValueRecord(heap, p[4])) => p = q

\* What the heap is trusted with: see RecordsAreOwned.
HeapSound == TypeOK /\ RecordsAreOwned

\* Every key of a dict is found, at its own entry, under the bucket its hash
\* names now, so that no statement moves a stored key away from its bucket or
\* makes two entries equal (dict/mod.rs:53-61); except in a dict that stored a
\* key whose own `hash` changed it while it was parked, before it was copied.
KeysFound ==
  \A d \in DOMAIN heap : heap[d].tag = "dict" /\ ~heap[d].astray =>
    \A i \in DOMAIN heap[d].entries :
      LET key == heap[d].entries[i][1] IN Find(heap, d, key, BucketOf(heap, key)) = i

\* a and b are two dicts, and one has keys that the program hashes.
DrivenApart(a, b) ==
  /\ Is(heap, a, "dict") /\ Is(heap, b, "dict") /\ a # b
  /\ \E i \in DOMAIN heap[a.id].entries : Driven(heap, heap[a.id].entries[i][1])

\* == is equality of content, also through cycles and dicts in another order,
\* as long as neither value has a dict with a key that the program hashes. For
\* == hashes a key natively whatever its type says (dict/mod.rs:109), so it then
\* never takes different contents for equal, but does take two dicts with equal
\* such keys for different, or panics over one that has no native hash
\* (hash.rs:177). And values that are equal and can be keys write the same to
\* the hasher (compare.rs:100-218, hash.rs:158-197).
EqualIsContent ==
  \A x, y \in Names :
    LET a == vars[x]
        b == vars[y]
        same == Meaning!SameContent([i \in {j \in DOMAIN heap : ~IsValueRecord(heap, Obj(j))} |->
                                       DenoteObject(heap, heap[i])], Denote(heap, a), Denote(heap, b))
        equal == EqualValues(heap, a, b)
    IN /\ IF \E i \in Ids({a, b}) : DrivenKeys(heap, i)
          THEN /\ equal = "yes" => same /\ ~DrivenApart(a, b)
               /\ equal = "panic" => \E i \in Ids({a, b}) : OpaqueKeys(heap, i)
          ELSE equal = Answer(same)
       /\ (same /\ Hashable(heap, a) /\ Hashable(heap, b)) => Written(heap, a) = Written(heap, b)

\* What a hash that changes the record it was called for leads to: parked
\* operands that change with it, a key stored or looked up under the bucket it
\* had, and a dict in which such a key lies.
Stray ==
  \/ \E i \in DOMAIN parked : \E j \in DOMAIN parked[i].args :
       parked' = parked /\ Denote(heap, parked[i].args[j]) # Denote(heap', parked[i].args[j])
  \/ next.s = "return" /\ ChangedSince(Head(parked))
  \/ \E d \in DOMAIN heap : heap[d].tag = "dict" /\ heap[d].astray

\* The heap implements the language's values: every statement does to the
\* meaning of the heap what Store says it does, except where a key has been
\* changed by its own `hash`.
ImplementsStore == Meaning!Init /\ [][Meaning!Next \/ Stray]_(Meaning!svars)
=============================================================================
