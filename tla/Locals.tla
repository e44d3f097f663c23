------------------------------- MODULE Locals -------------------------------
(* What the machine does with a resolved module (local.rs, control/mod.rs,   *)
(* call/frame.rs): a frame keeps its locals in slots, a slot that a closure  *)
(* captures holds a cell of the heap, a block reaches the frames around it   *)
(* by its defining links and a free name is found in the namespace. A run is *)
(* the fold of the statements over the state of the machine, which has       *)
(*   frames, cells, namespace                                                *)
(*   out     what was printed                                                *)
(*   next    what tick() gives next                                          *)
(*   calls   how many were made                                              *)
(*   serial  of the next frame                                               *)
(*   stop    why the run stopped, "" while it goes on                        *)
EXTENDS Scopes

CONSTANT MaxCalls   \* bound: calls in a run, which ends there

Num(n) == [kind |-> "Num", n |-> n]
Fun(id, captures) == [kind |-> "Fun", id |-> id, captures |-> captures]
Unset == [kind |-> "Unset"]
Missing == [kind |-> "Missing"]
Panic == [kind |-> "Panic"]

\* A slot holds its value or the cell that does.
Plain(v) == [boxed |-> FALSE, v |-> v]
Boxed(c) == [boxed |-> TRUE, cell |-> c]

----------------------------------------------------------------------------
(* Locals.                                                                   *)
ReadLocal(m, l) == IF l.boxed THEN m.cells[l.cell] ELSE l.v

NewCell(m, v) == [m EXCEPT !.cells = Append(@, v)]
SetLocal(m, i, slot, l) == [m EXCEPT !.frames[i].locals[slot] = l]

\* An existing binding changes.
Write(m, i, slot, v) ==
  LET l == m.frames[i].locals[slot]
  IN IF l.boxed THEN [m EXCEPT !.cells[l.cell] = v] ELSE SetLocal(m, i, slot, Plain(v))

\* Mutant: a declaration writes the cell it finds.
RebindInPlace(m, i, slot, v) == Write(m, i, slot, v)

\* A declaration makes a new binding: a fresh cell, so that what captured the
\* last one keeps it.
Rebind(m, i, slot, v) ==
  IF m.frames[i].locals[slot].boxed
  THEN SetLocal(NewCell(m, v), i, slot, Boxed(Len(m.cells) + 1))
  ELSE SetLocal(m, i, slot, Plain(v))

\* The locals of a frame about to be entered, the first of them a parameter,
\* and the cells made for them: a captured cell is put in its slot, any other
\* slot that is captured from gets a cell of its own.
Build(m, info, arg, captured) ==
  LET Taken(i) == {k \in DOMAIN info.captures : info.captures[k].slot = i}
      Raw(i) == IF i = 1 THEN arg ELSE Unset
      own == SelectSeq([i \in DOMAIN info.boxed |-> i],
                       LAMBDA i : info.boxed[i] /\ Taken(i) = {})
      Cell(i) == Len(m.cells) + CHOOSE k \in DOMAIN own : own[k] = i
  IN [cells |-> m.cells \o [k \in DOMAIN own |-> Raw(own[k])],
      locals |-> [i \in DOMAIN info.boxed |->
        CASE Taken(i) # {} -> Boxed(captured[Max(Taken(i))])
          [] Taken(i) = {} /\ info.boxed[i] -> Boxed(Cell(i))
          [] OTHER -> Plain(Raw(i))]]

NoLink == <<0, 0>>
PushFrame(m, info, arg, captured, defining) ==
  LET built == Build(m, info, arg, captured)
      frame == [kind |-> info.kind, locals |-> built.locals, serial |-> m.serial,
                defining |-> defining]
  IN [m EXCEPT !.cells = built.cells, !.serial = @ + 1, !.frames = Append(@, frame)]
PopFrame(m) == [m EXCEPT !.frames = Front(@)]

\* The frame hops links out from frame i, or 0 where a link is stale or there
\* is none, which is a panic.
RECURSIVE OuterFrom(_, _, _)
OuterFrom(m, i, hops) ==
  LET f == m.frames[i]
  IN CASE hops = 0 -> i
       [] hops > 0 /\ f.kind = "Block" /\ m.frames[f.defining[1]].serial = f.defining[2] ->
            OuterFrom(m, f.defining[1], hops - 1)
       [] OTHER -> 0
OuterFrame(m, hops) == OuterFrom(m, Len(m.frames), hops)

Stop(m, why) == [m EXCEPT !.stop = why]

----------------------------------------------------------------------------
(* Names.                                                                    *)
Find(m, x, res) ==
  LET i == OuterFrame(m, res.hops)
  IN CASE res.at = "name" -> IF x \in DOMAIN m.namespace THEN m.namespace[x] ELSE Missing
       [] res.at # "name" /\ i = 0 -> Panic
       [] OTHER -> ReadLocal(m, m.frames[i].locals[res.slot])

\* Why a name has no value.
Wrong(v) ==
  CASE v = Unset -> "UsedBeforeDefined"
    [] v = Missing -> "NameNotDefined"
    [] v = Panic -> "panic"
    [] OTHER -> ""

AssignTo(m, x, res, v) ==
  LET i == OuterFrame(m, res.hops)
      declared == x \in DOMAIN m.namespace
  IN CASE res.at = "name" /\ declared -> [m EXCEPT !.namespace[x] = v]
       [] res.at = "name" /\ ~declared -> Stop(m, "NameNotDefined")
       [] res.at # "name" /\ i = 0 -> Stop(m, "panic")
       [] OTHER -> Write(m, i, res.slot, v)

BindDecl(m, x, res, v) ==
  IF res = GlobalCell THEN [m EXCEPT !.namespace[x] = v]
  ELSE Rebind(m, Len(m.frames), res.slot, v)

\* The callable with the cells it captures from where it is made; a capture of
\* a slot that has no cell is a panic.
MakeCallable(m, mod, id) ==
  LET captures == mod.callables[id].captures
      from == [k \in DOMAIN captures |-> captures[k].from]
      Frame(k) == OuterFrame(m, from[k].hops)
      Source(k) == m.frames[Frame(k)].locals[from[k].slot]
  IN IF \E k \in DOMAIN from : Frame(k) = 0 \/ ~Source(k).boxed THEN Panic
     ELSE Fun(id, [k \in DOMAIN from |-> Source(k).cell])

\* A declared callable that is captured, by itself perhaps, finds its binding
\* there already: the cell comes first and is filled afterwards.
DefineCallable(m, mod, item) ==
  LET top == Len(m.frames)
      inCell == item.res # GlobalCell /\ m.frames[top].locals[item.res.slot].boxed
      n == IF inCell THEN Rebind(m, top, item.res.slot, Unset) ELSE m
      v == MakeCallable(n, mod, item.id)
  IN CASE v = Panic -> Stop(m, "panic")
       [] v # Panic /\ inCell -> Write(n, top, item.res.slot, v)
       [] OTHER -> BindDecl(m, item.x, item.res, v)

----------------------------------------------------------------------------
(* Statements.                                                               *)
Tick(m) == [m EXCEPT !.next = @ + 1]
Show(m, v) == IF Wrong(v) # "" THEN Stop(m, Wrong(v)) ELSE [m EXCEPT !.out = Append(@, v.n)]

RECURSIVE Exec(_, _, _), RunBody(_, _, _)

RunBody(mod, body, m) ==
  IF body = <<>> \/ m.stop # "" THEN m
  ELSE RunBody(mod, Tail(body), Exec(mod, Head(body), m))

\* A run of a block, in a frame linked to the one it was written in.
RunBlock(mod, info, home, m) ==
  IF m.stop # "" THEN m
  ELSE LET link == <<home, m.frames[home].serial>>
           in == PushFrame(Tick(m), info, Num(m.next), <<>>, link)
       IN PopFrame(RunBody(mod, info.body, in))

\* The default of a parameter is a value of the callable's own frame.
BindDefault(m, head, default) ==
  LET v == Find(m, head[2], default)
  IN CASE head[2] = "" -> Write(Tick(m), Len(m.frames), 1, Num(m.next))
       [] head[2] # "" /\ Wrong(v) # "" -> Stop(m, Wrong(v))
       [] OTHER -> Write(m, Len(m.frames), 1, v)

Apply(mod, f, info, m) ==
  IF m.calls = MaxCalls THEN Stop(m, "cut")
  ELSE LET in == PushFrame([m EXCEPT !.calls = @ + 1], info, Unset, f.captures, NoLink)
       IN PopFrame(RunBody(mod, info.body, BindDefault(in, info.head, info.default)))

\* `twice`, which the block is given to, has a frame between them.
Consumer == NewFrame("Fn")

Exec(mod, item, m) ==
  CASE item.op = "let" -> BindDecl(Tick(m), item.x, item.res, Num(m.next))
    [] item.op = "set" -> AssignTo(Tick(m), item.x, item.res, Num(m.next))
    [] item.op = "use" -> Show(m, Find(m, item.x, item.res))
    [] item.op = "call" ->
         LET v == Find(m, item.x, item.res)
         IN CASE Wrong(v) # "" -> Stop(m, Wrong(v))
              [] v.kind = "Fun" -> Apply(mod, v, mod.callables[v.id], m)
              [] OTHER -> m
    [] item.op = "loop" -> RunBody(mod, item.body, RunBody(mod, item.body, m))
    [] item.op = "do" ->
         LET Once(n) == RunBlock(mod, mod.callables[item.id], Len(m.frames), n)
         IN PopFrame(Once(Once(PushFrame(m, Consumer, Unset, <<>>, NoLink))))
    [] item.op = "fn" -> DefineCallable(m, mod, item)
    [] item.op \in {"letfn", "setfn"} ->
         LET v == MakeCallable(m, mod, item.id)
         IN CASE v = Panic -> Stop(m, "panic")
              [] v # Panic /\ item.op = "letfn" -> BindDecl(m, item.x, item.res, v)
              [] OTHER -> AssignTo(m, item.x, item.res, v)

Run(mod) ==
  LET start == [frames |-> <<>>, cells |-> <<>>,
                namespace |-> [x \in mod.globals |-> Unset], out |-> <<>>,
                next |-> 1, calls |-> 0, serial |-> 1, stop |-> ""]
  IN RunBody(mod, mod.body, PushFrame(start, mod.frame, Unset, <<>>, NoLink))
=============================================================================
