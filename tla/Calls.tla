------------------------------- MODULE Calls --------------------------------
(***************************************************************************)
(* How a Doodle program's control moves: frames and their continuations    *)
(* (frame.rs, cont.rs, step.rs, stmt.rs), calls and tail calls             *)
(* (call/mod.rs, call/frame.rs), blocks (block.rs), loops and conditions   *)
(* (control/mod.rs), non-local exits (unwind.rs, arms.rs, cleanup.rs),     *)
(* protected regions (protect.rs) and dynamic bindings (dynamic.rs).       *)
(***************************************************************************)
EXTENDS Places, FiniteSets, SequencesExt

CONSTANTS
  Values,      \* how many values the dynamic parameter takes
  StackLimit,  \* the deepest stack
  MaxCoins,    \* the conditions that may come out true or false; later are false
  MaxLog       \* the bound values remembered

ASSUME CallsAssumption == {Values, StackLimit} \subseteq Nat \ {0} /\ MaxCoins \in Nat

VARIABLES
  prog,      \* the program being run: its main and the table main is in
  frames,    \* Machine::frames
  reg,       \* Machine::reg
  unwind,    \* Machine::unwind
  param,     \* the dynamic parameter's cell
  dyn,       \* Machine::dyn_stack, the values to restore
  handling,  \* Machine::handling
  status,    \* "Running", or how the run ended
  coins,     \* history: how the conditions came out
  log        \* history: the values `let` has bound

vars == <<prog, frames, reg, unwind, param, dyn, handling, status, coins, log>>

----------------------------------------------------------------------------
\* The register holds a value or nothing; history: what left it empty.
Value(v) == [k |-> "Value", v |-> v]
Nothing(why) == [k |-> "None", why |-> why]

NoUnwind == [k |-> "None"]
NoBlock == [k |-> "None"]
RaiseOf(e) == [k |-> "Raise", e |-> e]

SeqCont(body) == [k |-> "Seq", body |-> body, next |-> 1]
EvalCont(e) == [k |-> "Eval", node |-> e]
Evals(op) == IF op = <<>> THEN <<>> ELSE <<EvalCont(op[1])>>
NodeCont(k, n) == [k |-> k, node |-> n]
Barrier == [k |-> "ReturnBarrier"]
BodyConts(body) == <<Barrier, SeqCont(body)>>

\* act is history: which activation a frame is running, fresh at every call,
\* a reused frame's included.  Links remember the activation they were made to.
Frame(kind, cal, mod, body, act) ==
  [kind |-> kind, cal |-> cal, mod |-> mod, conts |-> BodyConts(body),
   act |-> act, known |-> TRUE, plain |-> TRUE, blk |-> NoBlock,
   def |-> 0, defact |-> 0, consumer |-> 0, consact |-> 0]

TopFrame(body) ==
  [Frame("Top", "None", 1, body, 1) EXCEPT !.conts = <<SeqCont(body)>>]

Cal(name) == IF name = "main" THEN prog.main ELSE Library.cals[name]
TableOf(mod) == TableIn(prog, mod)

Top == frames[Len(frames)]
Cont == Top.conts[Len(Top.conts)]
Popped == Front(frames)

\* The frames with the top frame's current continuation replaced by these.
Then(conts) ==
  [frames EXCEPT ![Len(frames)].conts = Front(@) \o conts]

Links(f) == {f.act, f.defact, f.consact} \cup (IF f.blk = NoBlock THEN {} ELSE {f.blk.act})
FreshAct == CHOOSE a \in 1..(4 * Len(frames) + 1) :
              \A i \in DOMAIN frames : a \notin Links(frames[i])

\* The frame reached by chasing static links (outer_frame).
Outer(hops) ==
  LET At[h \in 0..hops] == IF h = 0 THEN Len(frames) ELSE frames[At[h - 1]].def
  IN At[hops]

\* The frame of the callable a block is written in (home_callable).
Home ==
  LET From[i \in 0..Len(frames)] ==
        IF i = 0 THEN 0 ELSE IF frames[i].kind = "Block" THEN From[frames[i].def] ELSE i
  IN From[Len(frames)]

----------------------------------------------------------------------------
\* One dispatched continuation of kind k.
At(k) ==
  /\ status = "Running" /\ unwind = NoUnwind
  /\ Top.conts # <<>> /\ Cont.k = k

Arm(e) == unwind' = RaiseOf(e)

\* A consuming place takes the register (take_value).
Takes == reg.k = "Value"
Refuse ==
  /\ ~Takes /\ Arm(<<"NoValue">>) /\ frames' = Then(<<>>)
  /\ UNCHANGED <<prog, reg, param, dyn, handling, status, coins, log>>

\* What a statement schedules (dispatch_stmt).
StmtConts(s) ==
  CASE s.k = "ExprStmt" -> <<EvalCont(s.e)>>
    [] s.k = "Let" -> <<NodeCont("BindLet", s), EvalCont(s.e)>>
    [] s.k = "With" -> <<NodeCont("WithBind", s), EvalCont(s.e)>>
    [] s.k = "While" -> <<NodeCont("WhileCheck", s)>>
    [] s.k = "Loop" -> <<NodeCont("LoopReloop", s), SeqCont(s.body)>>
    [] s.k \in Exits -> <<NodeCont("ExitApply", s)>> \o Evals(s.op)
    [] s.k = "Raise" -> <<NodeCont("RaiseApply", s)>> \o Evals(s.op)

\* The next statement of a body; the body is done when there is none.
SeqStep ==
  /\ At("Seq")
  /\ IF Cont.next > Len(Cont.body)
     THEN frames' = Then(<<>>) /\ UNCHANGED reg
     ELSE /\ reg' = Nothing("Stmt")
          /\ frames' = Then(<<[Cont EXCEPT !.next = @ + 1]>>
                            \o StmtConts(Cont.body[Cont.next]))
  /\ UNCHANGED <<prog, unwind, param, dyn, handling, status, coins, log>>

EvalVal ==
  /\ At("Eval") /\ Cont.node.k = "Val"
  /\ reg' = Value(param) /\ frames' = Then(<<>>)
  /\ UNCHANGED <<prog, unwind, param, dyn, handling, status, coins, log>>

EvalIf ==
  /\ At("Eval") /\ Cont.node.k = "If"
  /\ frames' = Then(<<NodeCont("IfChoose", Cont.node)>>)
  /\ UNCHANGED <<prog, reg, unwind, param, dyn, handling, status, coins, log>>

EvalTry ==
  /\ At("Eval") /\ Cont.node.k = "Try"
  /\ frames' = Then(<<NodeCont("TryHandler", Cont.node), SeqCont(Cont.node.body)>>)
  /\ UNCHANGED <<prog, reg, unwind, param, dyn, handling, status, coins, log>>

\* A condition: its value is any Boolean, recorded.
Toss(c) ==
  IF Len(coins) < MaxCoins THEN coins' = Append(coins, c)
  ELSE c = FALSE /\ UNCHANGED coins

IfChoose ==
  /\ At("IfChoose")
  /\ \E c \in BOOLEAN :
       /\ Toss(c)
       /\ frames' = Then(IF c THEN <<SeqCont(Cont.node.then)>>
                         ELSE IF Cont.node.else = <<>> THEN <<>>
                         ELSE <<SeqCont(Cont.node.else[1])>>)
  /\ reg' = Nothing("Taken")
  /\ UNCHANGED <<prog, unwind, param, dyn, handling, status, log>>

WhileCheck ==
  /\ At("WhileCheck")
  /\ \E c \in BOOLEAN :
       /\ Toss(c)
       /\ frames' = Then(IF c THEN <<Cont, SeqCont(Cont.node.body)>> ELSE <<>>)
  /\ reg' = Nothing("Taken")
  /\ UNCHANGED <<prog, unwind, param, dyn, handling, status, log>>

LoopReloop ==
  /\ At("LoopReloop")
  /\ frames' = Then(<<Cont, SeqCont(Cont.node.body)>>)
  /\ UNCHANGED <<prog, reg, unwind, param, dyn, handling, status, coins, log>>

BindLet ==
  /\ At("BindLet")
  /\ \/ Refuse
     \/ /\ Takes
        /\ log' = IF Len(log) < MaxLog THEN Append(log, reg.v) ELSE log
        /\ reg' = Nothing("Taken") /\ frames' = Then(<<>>)
        /\ UNCHANGED <<prog, unwind, param, dyn, handling, status, coins>>

\* `with` gives the parameter another value until its body is left.
WithBind ==
  /\ At("WithBind")
  /\ \/ Refuse
     \/ /\ Takes
        /\ param' = (reg.v + 1) % Values
        /\ dyn' = Append(dyn, param)
        /\ reg' = Nothing("Taken")
        /\ frames' = Then(<<[k |-> "WithRestore", mark |-> Len(dyn)],
                            SeqCont(Cont.node.body)>>)
        /\ UNCHANGED <<prog, unwind, handling, status, coins, log>>

\* Undoing the bindings above a mark gives the parameter the oldest value back.
Unbound(d, p, mark) ==
  IF Len(d) > mark THEN [param |-> d[mark + 1], dyn |-> SubSeq(d, 1, mark)]
  ELSE [param |-> p, dyn |-> d]

WithRestore ==
  /\ At("WithRestore")
  /\ LET u == Unbound(dyn, param, Cont.mark) IN param' = u.param /\ dyn' = u.dyn
  /\ frames' = Then(<<>>)
  /\ UNCHANGED <<prog, reg, unwind, handling, status, coins, log>>

LeaveTry ==
  /\ At("TryHandler") /\ frames' = Then(<<>>)
  /\ UNCHANGED <<prog, reg, unwind, param, dyn, handling, status, coins, log>>

PopHandler ==
  /\ At("PopHandler") /\ frames' = Then(<<>>)
  /\ handling' = Front(handling)
  /\ UNCHANGED <<prog, reg, unwind, param, dyn, status, coins, log>>

\* `raise` throws its operand; a bare one what is being handled.  Nothing
\* checks that something is: the engine panics.
RaiseApply ==
  /\ At("RaiseApply")
  /\ IF Cont.node.op # <<>>
     THEN \/ Refuse
          \/ /\ Takes
             /\ unwind' = RaiseOf(<<"User", reg.v>>)
             /\ reg' = Nothing("Taken") /\ frames' = Then(<<>>)
             /\ UNCHANGED <<prog, param, dyn, handling, status, coins, log>>
     ELSE /\ IF handling = <<>>
             THEN status' = "Panic" /\ UNCHANGED unwind
             ELSE unwind' = RaiseOf(handling[Len(handling)]) /\ UNCHANGED status
          /\ frames' = Then(<<>>)
          /\ UNCHANGED <<prog, reg, param, dyn, handling, coins, log>>

----------------------------------------------------------------------------
\* Frames that would be pushed, or the stack fault (check_stack_depth).
PushFrame(f) ==
  IF Len(frames) >= StackLimit
  THEN status' = "StackFault" /\ UNCHANGED frames
  ELSE frames' = Append(Then(<<>>), f) /\ UNCHANGED status

\* Mutant: only functions make proper tail calls.
ReusesInFunctions(n) ==
  n.tail /\ Top.kind = "Callable" /\ Cal(Top.cal).kind = "Func" /\ Cal(n.to).kind = "Func"

\* Whether a tail call replaces the frame it is made in: only a callable's,
\* and only by a callable of its own kind (reuses_current_frame).
Reuses(n) ==
  /\ n.tail /\ Top.kind = "Callable"
  /\ TableOf(Top.mod)[Cal(Top.cal).id] = Cal(n.to).kind

\* Mutant: the block is tied to the callable it is written in.
BlockOfHome(n) ==
  IF n.blk = <<>> THEN NoBlock
  ELSE [k |-> "Block", def |-> Home, body |-> n.blk[1], act |-> Top.act]

\* The block a call passes, tied to the calling frame (bind_block_argument).
BlockOf(n) ==
  IF n.blk = <<>> THEN NoBlock
  ELSE [k |-> "Block", def |-> Len(frames), body |-> n.blk[1], act |-> Top.act]

CallApply ==
  /\ At("Eval") /\ Cont.node.k = "Call" /\ Cont.node.to # "b"
  /\ LET n == Cont.node
         c == Cal(n.to)
         f == [Frame("Callable", n.to, c.mod, c.body, FreshAct) EXCEPT
                 !.blk = BlockOf(n), !.known = n.known, !.plain = n.blk = <<>>]
     IN IF c.takes # (n.blk # <<>>)
        THEN Arm(<<"Arguments">>) /\ frames' = Then(<<>>) /\ UNCHANGED status
        ELSE IF Reuses(n)
        THEN /\ frames' = [frames EXCEPT ![Len(frames)] = [f EXCEPT !.plain = Top.plain, !.known = Top.known]]
             /\ UNCHANGED <<unwind, status>>
        ELSE PushFrame(f) /\ UNCHANGED unwind
  /\ reg' = Nothing("Taken")
  /\ UNCHANGED <<prog, param, dyn, handling, coins, log>>

\* Invoking the block parameter of the enclosing callable (block_apply): the
\* frame is always new, linked to where the block is written and to its
\* consumer.
BlockApply ==
  /\ At("Eval") /\ Cont.node.k = "Call" /\ Cont.node.to = "b"
  /\ LET owner == Outer(Cont.node.hops)
         desc == frames[owner].blk
     IN IF desc = NoBlock
        THEN Arm(<<"NoBlock">>) /\ frames' = Then(<<>>) /\ UNCHANGED status
        ELSE /\ PushFrame([Frame("Block", "None", frames[desc.def].mod, desc.body, FreshAct)
                  EXCEPT !.def = desc.def, !.defact = desc.act,
                         !.consumer = owner, !.consact = frames[owner].act])
             /\ UNCHANGED unwind
  /\ UNCHANGED <<prog, reg, param, dyn, handling, coins, log>>

\* Mutant: what a `fn`'s last statement leaves is not its result.
BodyResultDropped(kind) ==
  IF kind = "Block" /\ Takes THEN reg
  ELSE Nothing(IF Top.known THEN "Known" ELSE "Unknown")

\* What a body that has ended leaves in the register.
BodyResult(kind) ==
  CASE kind = "Proc" -> Nothing(IF Top.known THEN "Known" ELSE "Unknown")
    [] kind = "Block" /\ ~Takes -> Nothing("Block")
    [] OTHER -> reg

\* The end of a body (return_from_callable).
ReturnBarrier ==
  /\ At("ReturnBarrier")
  /\ frames' = Popped
  /\ LET kind == IF Top.kind = "Block" THEN "Block" ELSE Cal(Top.cal).kind
     IN /\ unwind' = IF kind = "Func" /\ ~Takes THEN RaiseOf(<<"FellOff">>) ELSE unwind
        /\ reg' = BodyResult(kind)
  /\ UNCHANGED <<prog, param, dyn, handling, status, coins, log>>

\* The module's own frame drains (return_from_top_frame).
Finish ==
  /\ status = "Running" /\ unwind = NoUnwind /\ Top.conts = <<>>
  /\ frames' = Popped /\ reg' = Nothing("Taken") /\ status' = "Done"
  /\ UNCHANGED <<prog, unwind, param, dyn, handling, coins, log>>

----------------------------------------------------------------------------
\* A non-local exit starts (exit_apply).  Whether the consumer is a procedure
\* is looked up in the running module's table (consumer_is_proc).
ConsumerKind(i) ==
  LET table == TableOf(Top.mod)
      id == Cal(frames[i].cal).id
  IN IF frames[i].kind # "Callable" THEN "None"
     ELSE IF id \in DOMAIN table THEN table[id] ELSE "Panic"

ExitUnwind(n, v) ==
  CASE n.k = "Return" -> [k |-> "Return", v |-> v, home |-> Home]
    [] n.k = "Break" /\ n.at = "Loop" -> [k |-> "LoopBreak", loop |-> n.loop]
    [] n.k = "Continue" /\ n.at = "Loop" -> [k |-> "LoopContinue", loop |-> n.loop]
    [] n.k = "Continue" /\ n.at = "Block" -> [k |-> "BlockContinue", v |-> v]
    [] n.k = "Break" /\ n.at = "Consumer" ->
         [k |-> "BlockBreak", v |-> v, consumer |-> Top.consumer]

ExitApply ==
  /\ At("ExitApply")
  /\ LET n == Cont.node
         valued == n.op # <<>>
         kind == IF valued /\ n.k = "Break" /\ n.at = "Consumer"
                 THEN ConsumerKind(Top.consumer) ELSE "None"
     IN \/ valued /\ Refuse
        \/ /\ valued => Takes
           /\ unwind' = IF kind = "Proc" THEN RaiseOf(<<"NoDestination">>)
                        ELSE IF kind = "Panic" THEN unwind
                        ELSE ExitUnwind(n, IF valued THEN reg ELSE Nothing("Exit"))
           /\ status' = IF kind = "Panic" THEN "Panic" ELSE status
           /\ reg' = IF valued THEN Nothing("Taken") ELSE reg
           /\ frames' = Then(<<>>)
           /\ UNCHANGED <<prog, param, dyn, handling, coins, log>>

\* The continuations of the top frame above the ith, and what they hold open:
\* the bindings of every `with` left, the exceptions of every rescue body left.
Above(i) == i + 1..Len(Top.conts)
MarksAbove(i) == {Top.conts[j].mark : j \in {l \in Above(i) : Top.conts[l].k = "WithRestore"}}
HandlersAbove(i) == {j \in Above(i) : Top.conts[j].k = "PopHandler"}
Least(S) == CHOOSE x \in S : \A y \in S : x <= y

\* Discarding continuations undoes what they hold open (discard_cont).
HandlingBelow(i) == SubSeq(handling, 1, Len(handling) - Cardinality(HandlersAbove(i)))
Restore(i) ==
  LET u == IF MarksAbove(i) = {} THEN [param |-> param, dyn |-> dyn]
           ELSE Unbound(dyn, param, Least(MarksAbove(i)))
  IN param' = u.param /\ dyn' = u.dyn
Discard(i) == Restore(i) /\ handling' = HandlingBelow(i)
DiscardTop == Discard(Len(Top.conts) - 1)

Unwinding(k) == status = "Running" /\ unwind.k = k

\* A loop's exit discards one continuation a step until its loop's.
AtLoop == Cont.k \in {"WhileCheck", "LoopReloop"} /\ Cont.node.loop = unwind.loop

LoopBreak ==
  /\ Unwinding("LoopBreak")
  /\ IF AtLoop THEN reg' = Nothing("Loop") /\ unwind' = NoUnwind
     ELSE UNCHANGED <<reg, unwind>>
  /\ DiscardTop /\ frames' = Then(<<>>)
  /\ UNCHANGED <<prog, status, coins, log>>

LoopContinue ==
  /\ Unwinding("LoopContinue")
  /\ IF AtLoop THEN unwind' = NoUnwind /\ UNCHANGED <<frames, param, dyn, handling>>
     ELSE DiscardTop /\ frames' = Then(<<>>) /\ UNCHANGED unwind
  /\ UNCHANGED <<prog, reg, status, coins, log>>

\* `continue` in a block ends its invocation at the barrier.
BlockContinue ==
  /\ Unwinding("BlockContinue")
  /\ IF Cont.k = "ReturnBarrier"
     THEN /\ reg' = unwind.v /\ unwind' = NoUnwind
          /\ UNCHANGED <<frames, param, dyn, handling>>
     ELSE DiscardTop /\ frames' = Then(<<>>) /\ UNCHANGED <<reg, unwind>>
  /\ UNCHANGED <<prog, status, coins, log>>

\* `break` in a block, and `return`, leave one frame a step, the consumer's or
\* the home callable's being the last (block_break, do_return).
BlockBreak ==
  /\ Unwinding("BlockBreak")
  /\ Discard(0) /\ frames' = Popped
  /\ IF Len(frames) = unwind.consumer THEN reg' = unwind.v /\ unwind' = NoUnwind
     ELSE UNCHANGED <<reg, unwind>>
  /\ UNCHANGED <<prog, status, coins, log>>

Return ==
  /\ Unwinding("Return")
  /\ Discard(0) /\ frames' = Popped
  /\ LET fell == Cal(Top.cal).kind = "Func" /\ unwind.v.k = "None"
     IN IF Len(frames) # unwind.home THEN UNCHANGED <<reg, unwind>>
        ELSE /\ unwind' = IF fell THEN RaiseOf(<<"FellOff">>) ELSE NoUnwind
             /\ reg' = IF fell THEN reg
                       ELSE IF unwind.v.k = "None"
                       THEN Nothing(IF Top.known THEN "Known" ELSE "Unknown")
                       ELSE unwind.v
  /\ UNCHANGED <<prog, status, coins, log>>

\* A raise leaves one frame a step, or stops at its innermost handler: the
\* rescue body runs with the exception on the handling stack (raise_unwind,
\* catch).
Handlers == {i \in DOMAIN Top.conts : Top.conts[i].k = "TryHandler"}
\* Mutant: the handler that was set up first.
Outermost == CHOOSE i \in Handlers : \A j \in Handlers : i <= j

\* The handler that was set up last.
Innermost == CHOOSE i \in Handlers : \A j \in Handlers : j <= i

Catch ==
  /\ Unwinding("Raise") /\ Handlers # {}
  /\ LET i == Innermost
     IN /\ frames' = [frames EXCEPT ![Len(frames)].conts =
                        SubSeq(@, 1, i - 1) \o
                        <<[k |-> "PopHandler"], SeqCont(Top.conts[i].node.rescue)>>]
        /\ Restore(i) /\ handling' = Append(HandlingBelow(i), unwind.e)
  /\ unwind' = NoUnwind
  /\ UNCHANGED <<prog, reg, status, coins, log>>

Abandon ==
  /\ Unwinding("Raise") /\ Handlers = {}
  /\ Discard(0) /\ frames' = Popped
  /\ status' = IF Len(frames) = 1 THEN "Uncaught" ELSE status
  /\ UNCHANGED <<prog, reg, unwind, coins, log>>

----------------------------------------------------------------------------
Init ==
  /\ prog \in Mains
  /\ frames = <<TopFrame(Start)>>
  /\ reg = Nothing("Stmt") /\ unwind = NoUnwind
  /\ param = 0 /\ dyn = <<>> /\ handling = <<>>
  /\ status = "Running" /\ coins = <<>> /\ log = <<>>

Dispatch ==
  \/ SeqStep \/ EvalVal \/ EvalIf \/ EvalTry \/ CallApply \/ BlockApply
  \/ IfChoose \/ WhileCheck \/ LoopReloop \/ BindLet \/ WithBind \/ WithRestore
  \/ LeaveTry \/ PopHandler \/ RaiseApply \/ ReturnBarrier \/ ExitApply \/ Finish

UnwindStep ==
  \/ LoopBreak \/ LoopContinue \/ BlockContinue \/ BlockBreak \/ Return
  \/ Catch \/ Abandon

Next == Dispatch \/ UnwindStep
Spec == Init /\ [][Next]_vars

----------------------------------------------------------------------------
Statuses == {"Running", "Done", "Uncaught", "StackFault", "Panic"}
TypeOK ==
  /\ status \in Statuses /\ Len(frames) <= StackLimit
  /\ param \in 0..(Values - 1) /\ coins \in Seq(BOOLEAN) /\ Len(coins) <= MaxCoins
  /\ \A i \in DOMAIN frames : frames[i].kind \in {"Top", "Callable", "Block"}

\* Every link a live frame holds - a block's to where it is written and to its
\* consumer, a descriptor's to the frame that passed the block - names the
\* activation it was made to: reusing a frame for a tail call never leaves one
\* pointing at another call (block.rs, call/frame.rs).
LinksLive ==
  \A i \in DOMAIN frames :
    LET f == frames[i]
        Linked(j, act) == j \in 1..(i - 1) /\ frames[j].act = act
    IN /\ f.kind = "Block" => Linked(f.def, f.defact) /\ Linked(f.consumer, f.consact)
       /\ f.blk # NoBlock => Linked(f.blk.def, f.blk.act)

\* However a run ends, by whichever of end, return, break, continue and raise
\* its bodies were left, the parameter has its first value again and no
\* exception is being handled (unwind/cleanup.rs, dynamic.rs, protect.rs).
NothingLeft ==
  status \in {"Done", "Uncaught"} => param = 0 /\ dyn = <<>> /\ handling = <<>>

\* What the stack is trusted with: that its links lead where they were made to
\* (LinksLive), and that it leaves nothing behind (NothingLeft).
FramesSound == TypeOK /\ LinksLive /\ NothingLeft

\* The value checks the machine makes when it runs (take_value, the end of a
\* `fn`) only fail on what the resolver could not see: a callee it did not
\* know, a block's own value, an exit without one.  A bare raise, which throws
\* again what is being handled, checks nothing.
Rethrows == Cont.k = "RaiseApply" /\ Cont.node.op = <<>>
StaticChecksSound ==
  [][/\ unwind = NoUnwind /\ unwind' \in {RaiseOf(<<"FellOff">>), RaiseOf(<<"NoValue">>)}
     /\ ~ Rethrows
     => reg.k = "None" /\ reg.why \in {"Unknown", "Block", "Exit"}]_vars

\* What is left to do in a frame that has only to hand its callee's result on:
\* the ends of bodies, or a `return` that leaves nothing open.
Handing(conts) ==
  \E n \in 0..Len(conts) :
    /\ \A i \in n+1..Len(conts) :
         conts[i].k = "Seq" => conts[i].next > Len(conts[i].body)
    /\ \A i \in n+1..Len(conts) : conts[i].k \in {"Seq", "ReturnBarrier"}
    /\ \/ n = 0
       \/ /\ conts[n].k = "ExitApply" /\ conts[n].node.k = "Return"
          /\ \A i \in 1..n : conts[i].k \notin {"WithRestore", "TryHandler", "PopHandler"}

\* Tail calls take no stack: a callable that has only to hand on the result of
\* a call it made without a block, of its own kind, is never still there while
\* the callee runs.
ProperTails ==
  \A i \in 2..Len(frames) :
    LET f == frames[i - 1]
        g == frames[i]
    IN ~ /\ f.kind = "Callable" /\ g.kind = "Callable" /\ g.plain
         /\ Cal(f.cal).kind = Cal(g.cal).kind
         /\ Handing(f.conts)
=============================================================================
