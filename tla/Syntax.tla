------------------------------- MODULE Syntax -------------------------------
(***************************************************************************)
(* The program trees the calls model runs (ast.rs): the statement and      *)
(* expression forms that move control.  A body is a sequence of            *)
(* statements, an absent operand, block or branch is <<>>.  Conditions are *)
(* not part of a tree (the machine tosses a coin), names are those of the  *)
(* program's callables, and "b" names the block parameter of the callable  *)
(* a node is written in.                                                   *)
(***************************************************************************)
EXTENDS Naturals, Sequences

\* A value expression: it reads the program's one dynamic parameter.
Val == [k |-> "Val"]

\* A call; known when its callee is a name of the same module, so that the
\* resolver can tell what it calls.  tail and hops are the resolver's.
Call(to, known, blk) ==
  [k |-> "Call", to |-> to, known |-> known, blk |-> blk,
   tail |-> FALSE, hops |-> 0]

If(then, else) == [k |-> "If", then |-> then, else |-> else]
Try(body, rescue) == [k |-> "Try", body |-> body, rescue |-> rescue]

ExprStmt(e) == [k |-> "ExprStmt", e |-> e]
Let(e) == [k |-> "Let", e |-> e]
With(e, body) == [k |-> "With", e |-> e, body |-> body]
Raise(op) == [k |-> "Raise", op |-> op]

\* A loop carries its depth among the loops of its frame as its identity, and
\* an exit the target the resolver gives it.
While(body) == [k |-> "While", body |-> body, loop |-> 0]
Loop(body) == [k |-> "Loop", body |-> body, loop |-> 0]
Exit(k, op) == [k |-> k, op |-> op, at |-> "None", loop |-> 0]
Exits == {"Return", "Break", "Continue"}

\* The nodes below n that run in the same frame.
Kids(n) ==
  CASE n.k \in {"Val", "Call"} -> <<>>
    [] n.k = "If" -> n.then \o (IF n.else = <<>> THEN <<>> ELSE n.else[1])
    [] n.k = "Try" -> n.body \o n.rescue
    [] n.k \in {"ExprStmt", "Let"} -> <<n.e>>
    [] n.k = "With" -> <<n.e>> \o n.body
    [] n.k \in Exits \cup {"Raise"} -> n.op
    [] n.k \in {"While", "Loop"} -> n.body

\* A callable: kind "Proc" (`to`) or "Func" (`fn`), whether it takes a block,
\* the module it is defined in and its place in that module's table.
Callable(kind, takes, body) ==
  [kind |-> kind, takes |-> takes, body |-> body, mod |-> 1, id |-> 0]
=============================================================================
