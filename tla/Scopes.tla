------------------------------- MODULE Scopes -------------------------------
(* The walk of the resolver that gives names their places (walk.rs, refs.rs, *)
(* decls.rs): an action per node, over the frames and scopes that are open.  *)
(* A program is what the walk has passed, each name with its resolution. Its *)
(* statements are                                                            *)
(*   let x = tick()   x = tick()   print(x)   while .. do .. end             *)
(*   twice() do |p| .. end   fn f(p = d) .. end   let f = fn(p = d) .. end   *)
(*   f = fn(p = d) .. end    if f is Function then print(f()) end            *)
(* where tick() counts, a default d is tick() or a name, a loop and a block  *)
(* run twice and a function ends with a literal. Programs with errors are    *)
(* not continued. Slots are counted from 1.                                  *)
EXTENDS Naturals, Sequences, SequencesExt

CONSTANTS
  Data,      \* names of numbers
  Funs,      \* names of functions, others than those
  Params,    \* names of a block's parameter
  Heads,     \* parameters of functions: the name and the default, "" for tick()
  Budgets,   \* bounds: how many statements of each kind a program may have
  MaxDepth   \* bound: bodies open at once, the module's among them

VARIABLES
  frames,     \* open frames: storage, one for each callable or block body
  scopes,     \* open scopes: visibility, one for each body
  open,       \* open bodies: the node each belongs to and what it holds so far
  callables,  \* finished callables and blocks
  globals,    \* name declared at module level -> kind
  pending,    \* free names assigned to, checked at the end
  budget      \* statements that may still come

walk == <<frames, scopes, open, callables, globals, pending, budget>>

\* What a name resolves to.
LocalSlot(s) == [at |-> "slot", hops |-> 0, slot |-> s]
BlockOuter(h, s) == [at |-> "outer", hops |-> h, slot |-> s]
Reached(h, s) == IF h = 0 THEN LocalSlot(s) ELSE BlockOuter(h, s)
ModuleName == [at |-> "name"]
GlobalCell == [at |-> "global"]

----------------------------------------------------------------------------
(* References. *)
\* The innermost scope that binds x, or 0.
ScopeOf(ss, x) == Max({i \in DOMAIN ss : x \in DOMAIN ss[i].bindings} \cup {0})
Binding(ss, x) == ss[ScopeOf(ss, x)].bindings[x]

\* The function or module frame that the blocks around frame i belong to.
HomeFn(fs, i) == Max({j \in 1 .. i : fs[j].kind # "Block"})

\* The capture slot of a frame for the cell of origin, or 0.
FrameCaptureSlot(f, origin) ==
  LET own == SelectSeq(f.captures, LAMBDA c : c.origin = origin)
  IN IF own = <<>> THEN 0 ELSE own[1].slot

AllocCaptureSlot(f, origin, from) ==
  [f EXCEPT !.boxed = Append(@, TRUE),
            !.captures = Append(@, [origin |-> origin, slot |-> Len(f.boxed) + 1,
                                    from |-> from])]

\* One frame inward: a closure takes the cell from where it lies by then, a
\* block needs nothing, for it reaches out by its links.
Thread(fs, origin, f, cell) ==
  IF fs[f].kind # "Fn" \/ FrameCaptureSlot(fs[f], origin) # 0 THEN fs
  ELSE LET from == [hops |-> f - 1 - cell[1], slot |-> cell[2]]
       IN [fs EXCEPT ![f] = AllocCaptureSlot(@, origin, from)]

\* The owner's slot becomes a cell and every closure between hands it inward.
ResolveCapture(fs, owner, slot) ==
  LET origin == <<owner, slot>>
      In(acc, f) ==
        LET threaded == Thread(acc.fs, origin, f, acc.cell)
        IN [fs |-> threaded,
            cell |-> IF fs[f].kind # "Fn" THEN acc.cell
                     ELSE <<f, FrameCaptureSlot(threaded[f], origin)>>]
      boxed == [fs EXCEPT ![owner].boxed[slot] = TRUE]
      done == FoldLeft(In, [fs |-> boxed, cell |-> origin],
                       [i \in 1 .. Len(fs) - owner |-> owner + i]).fs
      hops == Len(fs) - HomeFn(fs, Len(fs))
  IN [fs |-> done, res |-> Reached(hops, FrameCaptureSlot(done[Len(fs) - hops], origin))]

\* What a reference in the innermost place resolves to, and the frames after it.
ResolveRef(fs, ss, x) ==
  IF ScopeOf(ss, x) = 0 THEN [fs |-> fs, res |-> ModuleName]
  ELSE LET owner == ss[ScopeOf(ss, x)].frame
           slot == Binding(ss, x).slot
       IN IF owner >= HomeFn(fs, Len(fs))
          THEN [fs |-> fs, res |-> Reached(Len(fs) - owner, slot)]
          ELSE ResolveCapture(fs, owner, slot)

\* A name that is no local may be declared later.
CheckAssign(ss, x) == ScopeOf(ss, x) # 0 => Binding(ss, x).kind = "Let"
Pend(ss, x) == IF ScopeOf(ss, x) = 0 THEN pending \cup {x} ELSE pending

----------------------------------------------------------------------------
(* Declarations. *)
Direct(ss) == Len(ss) = 1   \* module level

\* A duplicate in the scope is an error.
Declarable(ss, x) == x \notin DOMAIN (IF Direct(ss) THEN globals ELSE Last(ss).bindings)

\* A global, or the next slot of the frame.
DeclareBinding(fs, ss, x, kind) ==
  LET slot == Len(fs[Len(fs)].boxed) + 1 IN
  IF Direct(ss)
  THEN [fs |-> fs, ss |-> ss, gs |-> (x :> kind) @@ globals, res |-> GlobalCell]
  ELSE [fs |-> [fs EXCEPT ![Len(fs)].boxed = Append(@, FALSE)],
        ss |-> [ss EXCEPT ![Len(ss)].bindings = (x :> [slot |-> slot, kind |-> kind]) @@ @],
        gs |-> globals, res |-> LocalSlot(slot)]

----------------------------------------------------------------------------
(* Nodes. *)
NoHead == <<"", "">>
Count(op) == budget[op] > 0 /\ budget' = [budget EXCEPT ![op] = @ - 1]
Add(item) == open' = [open EXCEPT ![Len(open)].body = Append(@, item)]

Let(x) ==
  /\ Count("let") /\ Declarable(scopes, x)
  /\ LET d == DeclareBinding(frames, scopes, x, "Let")
     IN /\ frames' = d.fs /\ scopes' = d.ss /\ globals' = d.gs
        /\ Add([op |-> "let", x |-> x, res |-> d.res])
  /\ UNCHANGED <<callables, pending>>

\* A name that is read, tested or assigned to.
Refer(op, x) ==
  /\ Count(op)
  /\ LET r == ResolveRef(frames, scopes, x)
     IN frames' = r.fs /\ Add([op |-> op, x |-> x, res |-> r.res])
  /\ UNCHANGED <<scopes, callables, globals>>

Use(x) == Refer("use", x) /\ UNCHANGED pending
CallIf(f) == Refer("call", f) /\ UNCHANGED pending
Assign(x) == CheckAssign(scopes, x) /\ Refer("set", x) /\ pending' = Pend(scopes, x)

Opened(op, x, res, head, default) ==
  [op |-> op, x |-> x, res |-> res, head |-> head, default |-> default, body |-> <<>>]

Enter(op, x, res, head, default) ==
  /\ Count(op) /\ Len(open) < MaxDepth
  /\ open' = Append(open, Opened(op, x, res, head, default))
  /\ UNCHANGED <<callables, pending>>

\* A body in a scope of its own, in the frame around it.
ResolveLoopBody ==
  /\ Enter("loop", "", ModuleName, NoHead, ModuleName)
  /\ scopes' = Append(scopes, [frame |-> Len(frames), bindings |-> <<>>])
  /\ UNCHANGED <<frames, globals>>

\* A body in a frame of its own, with one parameter in its first slot.
NewFrame(kind) == [kind |-> kind, boxed |-> <<FALSE>>, captures |-> <<>>]
NewScope(fs, p) == [frame |-> Len(fs), bindings |-> p :> [slot |-> 1, kind |-> "Let"]]

ResolveBlockArg(p) ==
  /\ Enter("do", "", ModuleName, <<p, "">>, ModuleName)
  /\ frames' = Append(frames, NewFrame("Block"))
  /\ scopes' = Append(scopes, NewScope(frames', p))
  /\ UNCHANGED globals

\* A default belongs to the frame of the callable, so that it captures what it
\* names, but sees no parameter.
Default(fs, ss, head) ==
  IF head[2] = "" THEN [fs |-> fs, res |-> ModuleName] ELSE ResolveRef(fs, ss, head[2])

ResolveCallable(op, x, res, head, fs, ss) ==
  LET d == Default(Append(fs, NewFrame("Fn")), ss, head) IN
  /\ Enter(op, x, res, head, d.res)
  /\ frames' = d.fs
  /\ scopes' = Append(ss, NewScope(d.fs, head[1]))

\* `fn f`: the name is bound before the body is walked.
ResolveNamed(f, head) ==
  /\ Declarable(scopes, f)
  /\ LET d == DeclareBinding(frames, scopes, f, "Fn")
     IN ResolveCallable("fn", f, d.res, head, d.fs, d.ss) /\ globals' = d.gs

\* `let f = fn` and `f = fn`: the value is walked before the name.
ResolveValue(op, f, head) ==
  /\ IF op = "letfn" THEN Declarable(scopes, f) ELSE CheckAssign(scopes, f)
  /\ ResolveCallable(op, f, ModuleName, head, frames, scopes)
  /\ UNCHANGED globals

\* The innermost body is a statement of the one around it.
Closed(item) == open' = [Front(open) EXCEPT ![Len(open) - 1].body = Append(@, item)]

CloseLoop ==
  LET b == Last(open) IN
  /\ b.op = "loop"
  /\ Closed([op |-> "loop", x |-> "", body |-> b.body])
  /\ scopes' = Front(scopes)
  /\ UNCHANGED <<frames, callables, globals, pending, budget>>

\* What is left of the statement after its callable or block.
After(b, fs, ss) ==
  LET r == ResolveRef(fs, ss, b.x) IN
  CASE b.op \in {"do", "fn"} -> [fs |-> fs, ss |-> ss, gs |-> globals, res |-> b.res]
    [] b.op = "letfn" -> DeclareBinding(fs, ss, b.x, "Let")
    [] b.op = "setfn" -> [fs |-> r.fs, ss |-> ss, gs |-> globals, res |-> r.res]

CloseBody ==
  LET b == Last(open)
      f == Last(frames)
      a == After(b, Front(frames), Front(scopes))
  IN /\ b.op \in {"do", "fn", "letfn", "setfn"}
     /\ callables' = Append(callables,
          [kind |-> f.kind, boxed |-> f.boxed, captures |-> f.captures,
           head |-> b.head, default |-> b.default, body |-> b.body])
     /\ frames' = a.fs /\ scopes' = a.ss /\ globals' = a.gs
     /\ Closed([op |-> b.op, x |-> b.x, res |-> a.res, id |-> Len(callables) + 1])
     /\ pending' = IF b.op = "setfn" THEN Pend(Front(scopes), b.x) ELSE pending
     /\ UNCHANGED budget

Init ==
  /\ frames = <<[kind |-> "Module", boxed |-> <<>>, captures |-> <<>>]>>
  /\ scopes = <<[frame |-> 1, bindings |-> <<>>]>>
  /\ open = <<Opened("module", "", ModuleName, NoHead, ModuleName)>>
  /\ callables = <<>> /\ globals = <<>> /\ pending = {}
  /\ budget \in Budgets

Next ==
  \/ \E x \in Data : Let(x) \/ Assign(x) \/ Use(x)
  \/ \E f \in Funs : CallIf(f)
  \/ \E f \in Funs, head \in Heads :
       ResolveNamed(f, head) \/ \E op \in {"letfn", "setfn"} : ResolveValue(op, f, head)
  \/ ResolveLoopBody \/ \E p \in Params : ResolveBlockArg(p)
  \/ CloseLoop \/ CloseBody

Spec == Init /\ [][Next]_walk

\* The module is at its end and accepted: what it assigns freely is a `let`.
Resolved == Len(open) = 1 /\ \A x \in pending : x \in DOMAIN globals /\ globals[x] = "Let"
Module ==
  [frame |-> frames[1], body |-> open[1].body, globals |-> DOMAIN globals,
   callables |-> callables]
=============================================================================
