------------------------------ MODULE Meaning -------------------------------
(***************************************************************************)
(* What a Doodle program means, without frames or continuations: a         *)
(* big-step evaluation of its tree, given how its conditions come out.  It *)
(* is what the calls model is compared with: the rules of the language the *)
(* documentation comments of the machine state (unwind.rs, block.rs,       *)
(* control/mod.rs, protect.rs, dynamic.rs), not the machine's steps.       *)
(*                                                                         *)
(* A state is [at |-> conditions used, log |-> values bound]; an outcome   *)
(* is a state with how evaluation ended: "Value" (v is the value),         *)
(* "Nothing", "Raise" (v is the exception), the loop exits "Break" and     *)
(* "Continue", "Leave" (to is the call that ends, v what it yields) and    *)
(* "Stuck" when the fuel for a run is used up.                             *)
(***************************************************************************)
EXTENDS Syntax

CONSTANTS Values, MaxLog

LOCAL End(s, how, v, to) ==
  [at |-> s.at, log |-> s.log, how |-> how, v |-> v, to |-> to]
LOCAL Nil == <<>>
Yield(s, v) == End(s, "Value", <<v>>, Nil)
Empty(s) == End(s, "Nothing", Nil, Nil)
Raised(s, e) == End(s, "Raise", e, Nil)

\* What an exit hands over: its operand, or nothing.
Given(r) == End(r, IF r.v = Nil THEN "Nothing" ELSE "Value", r.v, Nil)

\* Where a node is evaluated: the callables, the coins, the depth and kind of
\* the call it is in, the dynamic parameter, the exception being handled, the
\* block that call was given, and for a block's body its consumer.
Entry(cals, cs) ==
  [cals |-> cals, coins |-> cs, depth |-> 0, home |-> 0, kind |-> "Top",
   param |-> 0, handled |-> <<>>, blk |-> <<>>, owner |-> 0, ownerkind |-> "Top",
   consumer |-> 0, conskind |-> "None", fuel |-> 60]

Coin(s, env) == s.at + 1 <= Len(env.coins) /\ env.coins[s.at + 1]
Tossed(s, env) == IF s.at < Len(env.coins) THEN [s EXCEPT !.at = @ + 1] ELSE s

RECURSIVE Run(_, _, _), RunBody(_, _, _), RunLoop(_, _, _)

\* The statements in order; the last one's value is the body's.
RunBody(body, env, s) ==
  IF body = <<>> THEN Empty(s)
  ELSE LET r == Run(Head(body), env, s)
       IN IF Len(body) = 1 \/ r.how \notin {"Value", "Nothing"} THEN r
          ELSE RunBody(Tail(body), env, r)

\* A call ends with its body; a `to` yields nothing, a `fn` must yield.
RunCall(n, env, s) ==
  LET c == env.cals[n.to]
      depth == env.depth + 1
      r == RunBody(c.body,
             [env EXCEPT !.depth = depth, !.home = depth, !.kind = c.kind,
                         !.blk = IF n.blk = <<>> THEN <<>>
                                 ELSE <<[body |-> n.blk[1], env |-> env]>>,
                         !.owner = depth, !.ownerkind = c.kind,
                         !.conskind = "None", !.fuel = @ - 1], s)
      result == IF r.how = "Leave" /\ r.to = <<"return", depth>> /\ c.kind = "Func"
                   /\ r.v = Nil
                THEN Raised(r, <<"FellOff">>)
                ELSE IF r.how = "Leave" /\ r.to \in {<<"return", depth>>, <<"break", depth>>}
                THEN Given(r)
                ELSE IF c.kind = "Proc" /\ r.how \in {"Value", "Nothing"} THEN Empty(r)
                ELSE IF c.kind = "Func" /\ r.how = "Nothing" THEN Raised(r, <<"FellOff">>)
                ELSE r
  IN IF c.takes # (n.blk # <<>>) THEN Raised(s, <<"Arguments">>) ELSE result

\* A block's body runs where it is written, under the bindings and the
\* exception of where it is invoked.  Its `continue` ends it with a value.
RunBlock(n, env, s) ==
  LET b == env.blk[1]
      r == RunBody(b.body,
             [b.env EXCEPT !.depth = env.depth + 1, !.param = env.param,
                           !.handled = env.handled, !.consumer = env.owner,
                           !.conskind = env.ownerkind, !.fuel = env.fuel - 1], s)
  IN IF r.how = "Continue" THEN Given(r)
     ELSE IF r.how = "Break" THEN End(r, "Leave", r.v, <<"break", env.owner>>)
     ELSE r

\* A loop runs its body until its condition fails or it is left.
RunLoop(n, env, s) ==
  LET go == n.k = "Loop" \/ Coin(s, env)
      t == IF n.k = "Loop" THEN s ELSE Tossed(s, env)
      r == RunBody(n.body, [env EXCEPT !.conskind = "Loop"], t)
  IN IF env.fuel = 0 THEN End(s, "Stuck", Nil, Nil)
     ELSE IF ~go THEN Empty(t)
     ELSE IF r.how = "Break" THEN Empty(r)
     ELSE IF r.how \in {"Value", "Nothing", "Continue"}
     THEN RunLoop(n, [env EXCEPT !.fuel = @ - 1], r)
     ELSE r

\* The value an operand must give, or why there is none.
Operand(e, env, s) ==
  LET r == Run(e, env, s)
  IN IF r.how = "Nothing" THEN Raised(r, <<"NoValue">>) ELSE r

RunExit(n, env, s) ==
  LET r == IF n.op = <<>> THEN Empty(s) ELSE Operand(n.op[1], env, s)
      v == IF n.op = <<>> THEN Nil ELSE r.v
  IN IF n.op # <<>> /\ r.how # "Value" THEN r
     ELSE IF n.k = "Return" THEN End(r, "Leave", v, <<"return", env.home>>)
     ELSE IF n.k = "Break" /\ env.conskind = "Proc" /\ v # Nil
     THEN Raised(r, <<"NoDestination">>)
     ELSE End(r, n.k, v, Nil)

Run(n, env, s) ==
  CASE env.fuel = 0 -> End(s, "Stuck", Nil, Nil)
    [] n.k = "Val" -> Yield(s, env.param)
    [] n.k = "Call" -> IF n.to = "b" THEN RunBlock(n, env, s) ELSE RunCall(n, env, s)
    [] n.k = "ExprStmt" -> Run(n.e, env, s)
    [] n.k = "If" ->
         IF Coin(s, env) THEN RunBody(n.then, env, Tossed(s, env))
         ELSE IF n.else = <<>> THEN Empty(Tossed(s, env))
         ELSE RunBody(n.else[1], env, Tossed(s, env))
    [] n.k = "Try" ->
         LET r == RunBody(n.body, env, s)
         IN IF r.how # "Raise" THEN r
            ELSE RunBody(n.rescue, [env EXCEPT !.handled = r.v], r)
    [] n.k = "Let" ->
         LET r == Operand(n.e, env, s)
         IN IF r.how # "Value" THEN r
            ELSE Empty([r EXCEPT !.log = IF Len(@) < MaxLog THEN Append(@, r.v[1]) ELSE @])
    [] n.k = "With" ->
         LET r == Operand(n.e, env, s)
         IN IF r.how # "Value" THEN r
            ELSE RunBody(n.body, [env EXCEPT !.param = (r.v[1] + 1) % Values], r)
    [] n.k \in {"While", "Loop"} -> RunLoop(n, env, s)
    [] n.k \in Exits -> RunExit(n, env, s)
    [] n.k = "Raise" ->
         IF n.op = <<>> THEN Raised(s, env.handled)
         ELSE LET r == Operand(n.op[1], env, s)
              IN IF r.how = "Value" THEN Raised(r, <<"User">> \o r.v) ELSE r

\* How a whole program ends.
Outcome(cals, top, cs) ==
  LET r == RunBody(top, Entry(cals, cs), [at |-> 0, log |-> <<>>])
  IN [status |-> IF r.how = "Raise" THEN "Uncaught" ELSE
                 IF r.how = "Stuck" THEN "Stuck" ELSE "Done",
      error |-> IF r.how = "Raise" THEN r.v ELSE Nil,
      coins |-> r.at, log |-> r.log]
=============================================================================
