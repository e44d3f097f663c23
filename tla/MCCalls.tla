------------------------------ MODULE MCCalls -------------------------------
(***************************************************************************)
(* The calls model on a family of programs: a small library of callables   *)
(* that take blocks, call in tail position and hold bindings and handlers  *)
(* open, and a callable whose body is every composition of two wrappers    *)
(* and a statement.                                                        *)
(***************************************************************************)
EXTENDS Calls, Resolver, TLC

CONSTANT Family  \* which programs a run is about

B == ExprStmt(Call("b", FALSE, <<>>))
V == ExprStmt(Val)
Do(name, known, body) == ExprStmt(Call(name, known, <<body>>))
Plain(name, known) == Call(name, known, <<>>)

\* p binds; f yields; t and s call themselves in tail position; each, once and
\* nest take a block.
MCLibrary ==
  LET defs ==
        <<<<"f", Callable("Func", FALSE, <<V>>)>>,
          <<"p", Callable("Proc", FALSE, <<Let(Val)>>)>>,
          <<"t", Callable("Func", FALSE,
             <<ExprStmt(If(<<ExprStmt(Plain("t", TRUE))>>, <<<<V>>>>))>>)>>,
          <<"s", Callable("Proc", FALSE,
             <<ExprStmt(If(<<Exit("Return", <<>>)>>, <<>>)),
               ExprStmt(Plain("p", FALSE))>>)>>,
          <<"each", Callable("Proc", TRUE, <<B, B>>)>>,
          <<"once", Callable("Func", TRUE,
             <<With(Val, <<Let(Call("b", FALSE, <<>>))>>), Exit("Return", <<Val>>)>>)>>,
          <<"nest", Callable("Func", TRUE, <<Do("each", TRUE, <<B>>), V>>)>>>>
  IN FoldLeft(LAMBDA lib, d : Declare(lib, d[1], d[2]), Unlinked({1}), defs)

Atoms ==
  {V, Let(Val), ExprStmt(Plain("p", FALSE)), Let(Plain("p", FALSE)),
   ExprStmt(Plain("f", TRUE)), ExprStmt(Plain("once", FALSE)),
   ExprStmt(Call("f", FALSE, <<<<V>>>>)), ExprStmt(Plain("s", TRUE)), ExprStmt(Plain("t", TRUE)),
   Raise(<<Val>>),
   Exit("Return", <<>>), Exit("Return", <<Val>>), Exit("Return", <<Plain("t", TRUE)>>),
   Exit("Break", <<>>), Exit("Break", <<Val>>),
   Exit("Continue", <<>>), Exit("Continue", <<Val>>)}

\* A statement inside each construct.
Wraps(s) ==
  {ExprStmt(If(<<s>>, <<>>)), ExprStmt(If(<<s>>, <<<<V>>>>)), While(<<s>>),
   Loop(<<ExprStmt(If(<<s>>, <<<<Exit("Break", <<>>)>>>>))>>), With(Val, <<s>>),
   ExprStmt(Try(<<s>>, <<Let(Val)>>)), ExprStmt(Try(<<Raise(<<Val>>)>>, <<s, Raise(<<>>)>>)),
   Do("each", TRUE, <<s>>), Do("nest", TRUE, <<s>>), Let(Call("once", TRUE, <<<<s>>>>)),
   Exit("Return", <<Call("once", FALSE, <<<<s>>>>)>>)}

MCStart ==
  MarkBody(ResolveBody(<<Let(Plain("main", FALSE))>>, InTop), FALSE, FALSE)

\* This callable as main, when the resolver accepts it.
Accepted(lib, kind, body) ==
  LET p == Declare(lib, "main", Callable(kind, FALSE, body))
      main == p.cals["main"]
  IN IF Passes(main, Kinds(p.cals)) THEN {[main |-> main, table |-> p.table[1] \o <<"Top">>]}
     ELSE {}

\* "Nested": every two wrappers around a statement, in a `fn` that ends well;
\* and one, in either kind.
\* "Bare": a `raise` with nothing to raise again.
MCMains ==
  LET lib == Library
      Singles == UNION {Wraps(a) : a \in Atoms}
  IN CASE Family = "Nested" ->
            UNION {Accepted(lib, "Func", <<w, V>>) : w \in UNION {Wraps(x) : x \in Singles}}
            \cup UNION {Accepted(lib, kind, <<w>>) : w \in Singles, kind \in {"Proc", "Func"}}
       [] Family = "Bare" ->
            Accepted(lib, "Proc", <<ExprStmt(Try(<<Let(Val)>>, <<V>>)), Raise(<<>>)>>)

\* The nodes just below a node, in the same frame or in its block.
NodesBelow(n, c) ==
  OperandsBelow(n, c) \cup UNION {StmtsIn(p[1], p[2]) : p \in BodiesBelow(n, c)}

\* These nodes and all below them.
RECURSIVE Reach(_)
Reach(level) ==
  IF level = {} THEN {} ELSE level \cup Reach(UNION {NodesBelow(p[1], p[2]) : p \in level})

Wholes ==
  {<<Start, TopPlace>>}
  \cup {<<c.body, CallablePlace(c.kind)>> : c \in ToSet(Library.cals) \cup {p.main : p \in Mains}}
NodesOfBodies(bodies) == Reach(UNION {StmtsIn(w[1], w[2]) : w \in bodies})
MCNodesAt == NodesOfBodies(Wholes)
MCBodiesAt ==
  LET wholes == Wholes
  IN wholes \cup UNION {BodiesBelow(p[1], p[2]) : p \in NodesOfBodies(wholes)}

----------------------------------------------------------------------------
M == INSTANCE Meaning

\* A run ends as the program's meaning says: with the same exception or none,
\* having bound the same values under the same conditions, whatever frames
\* were reused, exits crossed and bindings and handlers were left on the way.
MeansTheSame ==
  status \in {"Done", "Uncaught"} =>
    M!Outcome(Library.cals @@ ("main" :> prog.main), Start, coins) =
      [status |-> status, coins |-> Len(coins), log |-> log,
       error |-> IF status = "Uncaught" THEN unwind.e ELSE <<>>]

\* A bare `raise` always finds an exception being handled (protect.rs).
ReraiseHasException == status # "Panic"
=============================================================================
