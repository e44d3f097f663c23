------------------------------- MODULE Places --------------------------------
(***************************************************************************)
(* What the resolver promises the machine of the programs it lets run,     *)
(* place by place: every node of a resolved tree stands somewhere, and     *)
(* what its place says of loops, blocks, tail calls and consumed values    *)
(* holds of the nodes below it (resolve/walk.rs, exits.rs, tailmark.rs,    *)
(* tailcheck.rs, voidcheck.rs).  The machine relies on nothing else about  *)
(* a tree; the passes themselves are Resolver.                             *)
(***************************************************************************)
EXTENDS Syntax

CONSTANTS
  Library,   \* the resolved callables of every program, and their tables
  Start,     \* the resolved body of the module that is run
  Mains,     \* the resolved callables "main" may be, each with its table
  NodesAt,   \* the nodes of the trees, each with a place it stands in
  BodiesAt   \* the bodies of the trees, each with a place it stands in

\* A place: what the body of its callable ends in, the blocks and the loops
\* around it in its frame, whether it is in tail position and whether a
\* return's operand is, what control finds below it - nothing that needs a
\* value, a consumer, or an end it must never reach - and the loops that
\* nothing may break.
Wants == {"Any", "Value", "Never"}
Place == [home : {"Top", "Proc", "Func"}, hops : Nat, loop : Nat, tail : BOOLEAN,
          ret : BOOLEAN, want : Wants, endless : SUBSET Nat]

TopPlace ==
  [home |-> "Top", hops |-> 0, loop |-> 0, tail |-> FALSE, ret |-> FALSE,
   want |-> "Any", endless |-> {}]
CallablePlace(kind) ==
  [home |-> kind, hops |-> 0, loop |-> 0, tail |-> TRUE, ret |-> TRUE,
   want |-> IF kind = "Func" THEN "Value" ELSE "Any", endless |-> {}]
BlockPlace(c) ==
  [c EXCEPT !.hops = @ + 1, !.loop = 0, !.tail = TRUE, !.ret = FALSE,
            !.want = "Any", !.endless = {}]
LoopPlace(n, c) ==
  [c EXCEPT !.loop = @ + 1, !.tail = FALSE, !.want = "Any",
            !.endless = IF c.want = "Any" THEN @ ELSE @ \cup {n.loop}]
\* Where something is open: a handler or a dynamic binding.
OpenPlace(c, want) == [c EXCEPT !.tail = FALSE, !.ret = FALSE, !.want = want]
\* An operand, whose value the node consumes.
OperandPlace(c, tail) == [c EXCEPT !.tail = tail, !.want = "Value"]
\* The statements of a body: only the last one ends it.
StmtPlace(c, last) ==
  IF last THEN c ELSE [c EXCEPT !.tail = FALSE, !.want = "Any"]

Expressions == {"Val", "Call", "If", "Try"}
Statements == {"ExprStmt", "Let", "With", "While", "Loop", "Raise"} \cup Exits

\* An operand, block or branch, if there is one.
Present(op) == IF op = <<>> THEN {} ELSE {op[1]}

\* The expressions and the bodies just below a node and the statements of a
\* body, with the places they stand in.
OperandsBelow(n, c) ==
  CASE n.k = "ExprStmt" -> {<<n.e, c>>}
    [] n.k \in {"Let", "With"} -> {<<n.e, OperandPlace(c, FALSE)>>}
    [] n.k \in Exits \cup {"Raise"} ->
         {<<e, OperandPlace(c, n.k = "Return" /\ c.ret)>> : e \in Present(n.op)}
    [] OTHER -> {}
BodiesBelow(n, c) ==
  CASE n.k = "Call" -> {<<b, BlockPlace(c)>> : b \in Present(n.blk)}
    [] n.k = "If" -> {<<b, c>> : b \in {n.then} \cup Present(n.else)}
    [] n.k = "Try" -> {<<b, OpenPlace(c, c.want)>> : b \in {n.body, n.rescue}}
    [] n.k = "With" -> {<<n.body, OpenPlace(c, IF c.want = "Any" THEN "Any" ELSE "Never")>>}
    [] n.k \in {"While", "Loop"} -> {<<n.body, LoopPlace(n, c)>>}
    [] OTHER -> {}
StmtsIn(b, c) == {<<b[i], StmtPlace(c, i = Len(b))>> : i \in 1..Len(b)}

NodeAt(n, c) == <<n, c>> \in NodesAt
BodyAt(b, c) == <<b, c>> \in BodiesAt

\* The callables a name may stand for.
Names == DOMAIN Library.cals \cup {"main"}
Callees(to) == IF to = "main" THEN {p.main : p \in Mains} ELSE {Library.cals[to]}

\* What the place of an exit says of its target.
ExitPlaced(n, c) ==
  CASE n.at = "Home" -> n.k = "Return" /\ c.home # "Top"
    [] n.at = "Loop" -> n.k # "Return" /\ n.loop \in 1..c.loop /\ (n.k = "Break" => n.loop \notin c.endless)
    [] n.at = "Consumer" -> n.k = "Break" /\ c.hops > 0
    [] n.at = "Block" -> n.k = "Continue" /\ c.hops > 0
    [] OTHER -> FALSE

\* What a node's place says of it, and a body's of the body.
NodePlaced(n, c) ==
  CASE n.k = "Val" -> c.want # "Never"
    [] n.k = "Call" ->
         /\ n.hops = c.hops /\ n.tail = (c.tail /\ n.blk = <<>>)
         /\ n.to # "b" => n.to \in Names
         /\ c.want # "Never"
         /\ c.want = "Value" /\ n.known /\ n.to # "b" => \A k \in Callees(n.to) : k.kind = "Func"
    [] n.k = "If" -> c.want # "Any" => n.else # <<>>
    [] n.k \in {"Try", "Loop"} -> n.k = "Loop" => n.loop = c.loop + 1
    [] n.k \in {"ExprStmt", "With"} -> n.e.k \in Expressions
    [] n.k = "Let" -> n.e.k \in Expressions /\ c.want = "Any"
    [] n.k = "While" -> n.loop = c.loop + 1 /\ c.want = "Any"
    [] n.k = "Raise" -> \A e \in Present(n.op) : e.k \in Expressions
    [] n.k \in Exits -> ExitPlaced(n, c) /\ \A e \in Present(n.op) : e.k \in Expressions
    [] OTHER -> FALSE
BodyPlaced(b, c) ==
  /\ c.want # "Any" => b # <<>>
  /\ \A i \in 1..Len(b) : b[i].k \in Statements

\* Whatever is below a placed node or body is placed.
ASSUME PlacedBelow ==
  /\ UNION {OperandsBelow(p[1], p[2]) : p \in NodesAt} \subseteq NodesAt
  /\ UNION {BodiesBelow(p[1], p[2]) : p \in NodesAt} \subseteq BodiesAt
  /\ UNION {StmtsIn(p[1], p[2]) : p \in BodiesAt} \subseteq NodesAt
  /\ {p[1] : p \in BodiesAt} \subseteq Seq({p[1] : p \in NodesAt})

\* The resolver's passes report nothing about the program, or it is not run.
ASSUME NothingReported ==
  /\ \A p \in NodesAt : p[2] \in Place /\ NodePlaced(p[1], p[2])
  /\ \A p \in BodiesAt : p[2] \in Place /\ BodyPlaced(p[1], p[2])

TableIn(p, mod) == IF mod = 1 THEN p.table ELSE Library.table[mod]
KnownIn(p, c) == TableIn(p, c.mod)[c.id] = c.kind

\* The body run and every callable's stand in places of their kinds, and the
\* table of its module knows the kind of each callable.
ASSUME CalleesPlaced ==
  /\ {<<Start, TopPlace>>}
     \cup UNION {{<<c.body, CallablePlace(c.kind)>> : c \in Callees(to)} : to \in Names}
     \subseteq BodiesAt
  /\ \A to \in Names : \A c \in Callees(to) : c.kind \in {"Proc", "Func"}
  /\ \A p \in Mains : KnownIn(p, p.main)
  /\ \A c \in {Library.cals[to] : to \in DOMAIN Library.cals}, p \in Mains : KnownIn(p, c)
=============================================================================
