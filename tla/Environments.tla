---------------------------- MODULE Environments ----------------------------
(* What names mean: every execution of a declaration, and every parameter of *)
(* an entered body, is a variable of its own; a name is the variable of the  *)
(* nearest declaration before it in the bodies around it, whatever callable  *)
(* or block they belong to, and otherwise the module's. There are no slots,  *)
(* cells, captures or links: a closure is its text with its environment. A   *)
(* state s has the store of the variables, the namespace, and the rest as a  *)
(* state of the machine has.                                                 *)
EXTENDS Locals

Closure(id, env) == [kind |-> "Fun", id |-> id, env |-> env]

Meant(s, env, x) ==
  CASE x \in DOMAIN env -> s.store[env[x]]
    [] x \notin DOMAIN env /\ x \in DOMAIN s.namespace -> s.namespace[x]
    [] OTHER -> Missing

Change(s, env, x, v) ==
  CASE x \in DOMAIN env -> [s EXCEPT !.store[env[x]] = v]
    [] x \notin DOMAIN env /\ x \in DOMAIN s.namespace -> [s EXCEPT !.namespace[x] = v]
    [] OTHER -> Stop(s, "NameNotDefined")

\* The next variable is x.
Extend(s, env, x) == (x :> Len(s.store) + 1) @@ env
Store(s, v) == [s EXCEPT !.store = Append(@, v)]

\* What a declaration or an assignment gives, and the state it leaves.
Counts(item) == item.op \in {"let", "set"}
Given(s, env, item) == IF Counts(item) THEN Num(s.next) ELSE Closure(item.id, env)
Counted(s, item) == IF Counts(item) THEN Tick(s) ELSE s

RECURSIVE Mean(_, _, _, _, _), Called(_, _, _), Block(_, _, _, _)

\* A body in an environment, which its declarations extend for the rest of it;
\* those of the module itself are its names.
Mean(mod, direct, body, env, s) ==
  IF body = <<>> \/ s.stop # "" THEN s
  ELSE LET item == Head(body)
           scope == Extend(s, env, item.x)
           Rest(e, t) == Mean(mod, direct, Tail(body), e, t)
           Pass(t) == Mean(mod, FALSE, item.body, env, t)
           Once(t) == Block(mod, mod.callables[item.id], env, t)
           given == Given(s, IF item.op = "fn" /\ ~direct THEN scope ELSE env, item)
           after == Counted(s, item)
       IN CASE item.op \in {"let", "letfn", "fn"} ->
                 IF direct THEN Rest(env, [after EXCEPT !.namespace[item.x] = given])
                 ELSE Rest(scope, Store(after, given))
            [] item.op \in {"set", "setfn"} -> Rest(env, Change(after, env, item.x, given))
            [] item.op = "use" -> Rest(env, Show(s, Meant(s, env, item.x)))
            [] item.op = "call" -> Rest(env, Called(mod, s, Meant(s, env, item.x)))
            [] item.op = "loop" -> Rest(env, Pass(Pass(s)))
            [] item.op = "do" -> Rest(env, Once(Once(s)))

\* The body of a callable or block, its parameter a new variable.
Enclosed(mod, info, env, s, v) ==
  Mean(mod, FALSE, info.body, Extend(s, env, info.head[1]), Store(s, v))

Block(mod, info, env, s) ==
  IF s.stop # "" THEN s ELSE Enclosed(mod, info, env, Tick(s), Num(s.next))

\* The default of a parameter is meant where the callable was written.
Called(mod, s, f) ==
  LET info == mod.callables[f.id]
      in == [s EXCEPT !.calls = @ + 1]
      default == Meant(s, f.env, info.head[2])
  IN CASE Wrong(f) # "" -> Stop(s, Wrong(f))
       [] Wrong(f) = "" /\ f.kind # "Fun" -> s
       [] Wrong(f) = "" /\ f.kind = "Fun" ->
            CASE s.calls = MaxCalls -> Stop(s, "cut")
              [] s.calls < MaxCalls /\ info.head[2] = "" ->
                   Enclosed(mod, info, f.env, Tick(in), Num(s.next))
              [] OTHER -> IF Wrong(default) # "" THEN Stop(in, Wrong(default))
                          ELSE Enclosed(mod, info, f.env, in, default)

Meaning(mod) ==
  Mean(mod, TRUE, mod.body, <<>>,
       [store |-> <<>>, namespace |-> [x \in mod.globals |-> Unset],
        out |-> <<>>, next |-> 1, calls |-> 0, stop |-> ""])

\* Slots, cells, captures and links give every name its meaning: a module the
\* resolver accepts prints what it means and stops for the same reason, so that
\* no link is stale and no capture is of a slot without a cell (refs.rs:55-125).
SlotsMeanNames ==
  Resolved => LET run == Run(Module)
                  meaning == Meaning(Module)
              IN run.out = meaning.out /\ run.stop = meaning.stop
=============================================================================
