------------------------------ MODULE Resolver ------------------------------
(***************************************************************************)
(* The resolver's passes over a module that decide how control moves when  *)
(* it runs: exit targets and static links (resolve/walk.rs, exits.rs,      *)
(* refs.rs), tail calls (tailmark.rs), the end of every `fn`               *)
(* (tailcheck.rs) and the value every consuming place needs                *)
(* (voidcheck.rs).                                                         *)
(***************************************************************************)
EXTENDS Syntax, SequencesExt, TLC

\* Where a node stands: the innermost control context, the loops around it in
\* its frame, and the blocks between it and its home callable.
In(ctrl, loop, hops) == [ctrl |-> ctrl, loop |-> loop, hops |-> hops]
InCallable == In("Callable", 0, 0)
InTop == In("Top", 0, 0)
BlockIn(c) == In("Block", 0, c.hops + 1)
LoopIn(c) == In("Loop", c.loop + 1, c.hops)

\* The target of an exit written at c (exits.rs); "None" when it is misplaced.
TargetAt(k, c) ==
  CASE k = "Return" -> "Home"
    [] c.ctrl = "Loop" -> "Loop"
    [] c.ctrl = "Block" /\ k = "Break" -> "Consumer"
    [] c.ctrl = "Block" /\ k = "Continue" -> "Block"
    [] OTHER -> "None"

RECURSIVE Resolve(_, _)
ResolveBody(body, c) == <<>> \o [i \in DOMAIN body |-> Resolve(body[i], c)]
Resolve(n, c) ==
  LET Bodies(bs, d) == [i \in DOMAIN bs |-> ResolveBody(bs[i], d)]
  IN CASE n.k = "Val" -> n
       [] n.k = "Call" ->
            [n EXCEPT !.hops = c.hops, !.blk = Bodies(@, BlockIn(c))]
       [] n.k = "If" ->
            [n EXCEPT !.then = ResolveBody(@, c), !.else = Bodies(@, c)]
       [] n.k = "Try" ->
            [n EXCEPT !.body = ResolveBody(@, c), !.rescue = ResolveBody(@, c)]
       [] n.k \in {"ExprStmt", "Let"} -> [n EXCEPT !.e = Resolve(@, c)]
       [] n.k = "With" ->
            [n EXCEPT !.e = Resolve(@, c), !.body = ResolveBody(@, c)]
       [] n.k = "Raise" -> [n EXCEPT !.op = ResolveBody(@, c)]
       [] n.k \in Exits ->
            [n EXCEPT !.op = ResolveBody(@, c), !.at = TargetAt(n.k, c),
                      !.loop = c.loop]
       [] n.k \in {"While", "Loop"} ->
            [n EXCEPT !.body = ResolveBody(@, LoopIn(c)), !.loop = c.loop + 1]

\* Every node of a resolved body, with the bodies of its blocks.
RECURSIVE NodesOf(_)
NodesOf(n) ==
  {n} \cup UNION {NodesOf(m) : m \in ToSet(Kids(n))}
      \cup (IF n.k = "Call"
            THEN UNION {NodesOf(m) : m \in ToSet(FlattenSeq(n.blk))} ELSE {})
Nodes(body) == UNION {NodesOf(n) : n \in ToSet(body)}

\* What exits.rs reports about a body that ends in a callable of this kind.
ExitErrors(body, kind) ==
  \E n \in Nodes(body) :
    /\ n.k \in Exits
    /\ \/ n.at = "None"
       \/ n.k = "Return" /\ kind = "Top"
       \/ n.k = "Return" /\ n.op # <<>> /\ kind = "Proc"
       \/ n.at = "Loop" /\ n.op # <<>>

\* A call is in tail position when its completion is its frame's: nothing is
\* pending, no dynamic binding or handler is open, and no block is passed.  A
\* `return`'s operand is one wherever it stands, but in a block's body.
IsTail(n, tail) == tail /\ n.blk = <<>>

RECURSIVE Mark(_, _, _)
MarkBody(body, tail, ret) ==
  <<>> \o [i \in DOMAIN body |-> Mark(body[i], tail /\ i = Len(body), ret)]
MarkBlocks(bs) == [i \in DOMAIN bs |-> MarkBody(bs[i], TRUE, FALSE)]
Mark(n, tail, ret) ==
  CASE n.k = "Call" ->
         [n EXCEPT !.tail = IsTail(n, tail), !.blk = MarkBlocks(@)]
    [] n.k = "ExprStmt" -> [n EXCEPT !.e = Mark(@, tail, ret)]
    [] n.k = "Return" ->
         [n EXCEPT !.op = [i \in DOMAIN @ |-> Mark(@[i], ret, ret)]]
    [] n.k = "If" ->
         [n EXCEPT !.then = MarkBody(@, tail, ret),
                   !.else = [i \in DOMAIN @ |-> MarkBody(@[i], tail, ret)]]
    [] n.k = "With" ->
         [n EXCEPT !.e = Mark(@, FALSE, ret), !.body = MarkBody(@, FALSE, FALSE)]
    [] n.k = "Try" ->
         [n EXCEPT !.body = MarkBody(@, FALSE, FALSE),
                   !.rescue = MarkBody(@, FALSE, FALSE)]
    [] n.k \in {"While", "Loop"} -> [n EXCEPT !.body = MarkBody(@, FALSE, ret)]
    [] n.k = "Let" -> [n EXCEPT !.e = Mark(@, FALSE, ret)]
    [] n.k \in {"Break", "Continue", "Raise"} ->
         [n EXCEPT !.op = MarkBody(@, FALSE, ret)]
    [] n.k = "Val" -> n

\* How a body ends (tailcheck.rs).  kinds says what the module's own callables
\* are; a call the resolver cannot see through may yield a value or not.
TailOfCall(n, kinds) ==
  IF ~n.known THEN "Indeterminate"
  ELSE IF kinds[n.to] = "Proc" THEN "ValueLess" ELSE "Produces"

Combine(ts) ==
  CASE "ValueLess" \in ts -> "ValueLess"
    [] "Indeterminate" \in ts -> "Indeterminate"
    [] OTHER -> "Produces"

\* A `loop` ends only through a break bound to it.
HasBreak(n) ==
  \E m \in Nodes(n.body) : m.k = "Break" /\ m.at = "Loop" /\ m.loop = n.loop

RECURSIVE Diverges(_)
BodyDiverges(body) == body # <<>> /\ Diverges(Last(body))
Diverges(n) ==
  CASE n.k = "ExprStmt" -> Diverges(n.e)
    [] n.k \in Exits \cup {"Raise"} -> TRUE
    [] n.k = "Loop" -> ~HasBreak(n)
    [] n.k = "If" ->
         n.else # <<>> /\ BodyDiverges(n.then) /\ BodyDiverges(n.else[1])
    [] n.k = "Try" -> BodyDiverges(n.body) /\ BodyDiverges(n.rescue)
    [] n.k = "With" -> BodyDiverges(n.body)
    [] OTHER -> FALSE

RECURSIVE TailOf(_, _)
TailOfBody(body, kinds) ==
  IF body = <<>> THEN "ValueLess" ELSE TailOf(Last(body), kinds)
TailOf(n, kinds) ==
  CASE n.k = "ExprStmt" -> TailOf(n.e, kinds)
    [] n.k = "Val" -> "Produces"
    [] n.k = "Call" -> TailOfCall(n, kinds)
    [] n.k = "If" ->
         IF n.else = <<>> THEN "ValueLess"
         ELSE Combine({TailOfBody(n.then, kinds), TailOfBody(n.else[1], kinds)})
    [] n.k = "Try" ->
         Combine({TailOfBody(n.body, kinds), TailOfBody(n.rescue, kinds)})
    [] n.k = "Return" -> IF n.op = <<>> THEN "ValueLess" ELSE "Produces"
    [] n.k \in {"Raise", "Break", "Continue"} -> "Diverges"
    [] n.k = "Loop" -> IF HasBreak(n) THEN "ValueLess" ELSE "Diverges"
    [] n.k = "With" -> IF BodyDiverges(n.body) THEN "Diverges" ELSE "ValueLess"
    [] n.k \in {"Let", "While"} -> "ValueLess"

FallsOffEnd(c, kinds) ==
  c.kind = "Func" /\ TailOfBody(c.body, kinds) = "ValueLess"

\* Whether an expression is statically Void where its value is consumed
\* (voidcheck.rs): a tail that leaves never reaches the consumer.
RECURSIVE Void(_, _)
VoidBody(body, kinds) == body = <<>> \/ Void(Last(body), kinds)
Void(n, kinds) ==
  CASE n.k = "ExprStmt" -> Void(n.e, kinds)
    [] n.k = "Call" -> n.known /\ kinds[n.to] = "Proc"
    [] n.k = "If" -> \/ n.else = <<>>
                     \/ VoidBody(n.then, kinds) \/ VoidBody(n.else[1], kinds)
    [] n.k = "Try" -> VoidBody(n.body, kinds) \/ VoidBody(n.rescue, kinds)
    [] n.k = "Loop" -> HasBreak(n)
    [] n.k \in {"Let", "While", "With"} -> TRUE
    [] n.k \in Exits \cup {"Raise", "Val"} -> FALSE

\* The expressions whose value the node itself consumes.
Consumed(n) ==
  CASE n.k \in {"Let", "With"} -> {n.e}
    [] n.k \in Exits \cup {"Raise"} -> ToSet(n.op)
    [] OTHER -> {}

VoidSites(body, kinds) ==
  \E n \in Nodes(body) : \E e \in Consumed(n) : Void(e, kinds)

\* A module's table of callables: each follows the blocks written in it
\* (resolve_callable, resolve_block_arg).
RECURSIVE BlocksIn(_)
BlocksIn(nodes) ==
  FoldSeq(LAMBDA n, sum : sum + BlocksIn(Kids(n))
            + (IF n.k = "Call" /\ n.blk # <<>> THEN 1 + BlocksIn(n.blk[1]) ELSE 0),
          0, nodes)

Entries(c) == [i \in 1..BlocksIn(c.body) |-> "Block"] \o <<c.kind>>

\* A callable with its exits, links and tail calls resolved.
Resolved(c) ==
  [c EXCEPT !.body = MarkBody(ResolveBody(@, InCallable), TRUE, TRUE)]

\* A module's callables are declared one at a time, each taking its place in
\* its module's table.
Unlinked(mods) == [cals |-> <<>>, table |-> [m \in mods |-> <<>>]]

Declare(lib, name, c) ==
  LET table == lib.table[c.mod] \o Entries(c)
  IN [cals |-> lib.cals @@ (name :> [Resolved(c) EXCEPT !.id = Len(table)]),
      table |-> [lib.table EXCEPT ![c.mod] = table]]

\* What the module's callables are, by name.
Kinds(cals) == [x \in DOMAIN cals |-> cals[x].kind]

\* A callable the passes report nothing about; a module with an error is never
\* run (resolve.rs, into_loadable).
Passes(c, kinds) ==
  /\ ~ExitErrors(c.body, c.kind)
  /\ ~VoidSites(c.body, kinds)
  /\ ~FallsOffEnd(c, kinds)
=============================================================================
