------------------------------- MODULE Drive -------------------------------
(* The drive loop of a doodle instance: drive/pump.rs around machine/step.rs,*)
(* the entry points of drive.rs, and the host controls that race with them. *)
(*                                                                          *)
(* One action is one turn of a drive loop, of the outer loop of pump.rs or  *)
(* of the nested loop a native block consumer runs in intrinsic/ctx.rs.  A  *)
(* turn reads each of the two flags other threads may set at most once, so  *)
(* a turn is atomic without hiding an interleaving.                         *)
(*                                                                          *)
(* What the program does is left open: any transition the machine can make  *)
(* from the present frame stack may be its next.  Values, continuations and *)
(* the program text are abstracted; frames keep only their kind.            *)
EXTENDS Integers, Sequences, SequencesExt

CONSTANTS
  Directives,    \* directives the host uses
  Fuels,         \* slice fuels the host passes
  NoFuel,        \* the fuel of an unbounded call (None)
  StepBudgets,   \* Limits::step_budget; NoFuel: never used up
  StackLimit,    \* Limits::stack_depth
  ReentryLimit,  \* MAX_REENTRY_DEPTH
  Stmts,         \* statements a breakpoint can sit on
  NoStmt,        \* a safe point that is not at the head of a statement
  Settings,      \* debug settings the host switches between
  MaxFrames      \* bound on the frame stack, for model checking

Steps == {"Step", "StepInto", "StepOver", "StepOut"}
DepthAnchored == {"StepOver", "StepOut"}
FrameKinds == {"Module", "Callable", "Block", "NBlock"}
Transfers == {"None", "Return", "BlockBreak", "NativeBreak", "Cancel", "Raise"}
Fuel == Nat \cup {NoFuel}

ASSUME DriveAssumption ==
  /\ Directives \subseteq Steps \cup {"RunToCompletion", "Continue"}
  /\ NoFuel \notin Nat /\ Fuels \subseteq Fuel
  /\ StepBudgets \subseteq Fuel
  /\ StackLimit \in Nat /\ ReentryLimit \in Nat
  /\ NoStmt \notin Stmts
  /\ Settings \subseteq [trapping : BOOLEAN, fine : BOOLEAN,
                         breakpoints : SUBSET Stmts]
  /\ MaxFrames \in Nat

VARIABLES
  state,     \* Instance::state()
  outcome,   \* what the last drive call returned; "None" inside one
  frames,    \* kinds of the frames, the running one last
  unwind,    \* the non-local transfer in flight
  pending,   \* the parked suspension
  nest,      \* frame depths at which native calls are executing, outermost first
  budget,    \* FusedCounter::budget
  slice,     \* FusedCounter::slice
  exhausted, \* FusedCounter::exhausted
  directive, \* directive in force
  anchor,    \* step_anchor
  resuming,  \* the last drive yielded internally
  cancel,    \* the flag behind the CancelTokens
  pause,     \* the flag behind the PauseTokens
  settings,  \* raise trapping, observation mode and breakpoints
  issued,    \* history: the depth at which the host gave the step in force
  switched   \* history: it gave it at a slice end, in place of another command

vars == <<state, outcome, frames, unwind, pending, nest, budget, slice,
          exhausted, directive, anchor, resuming, cancel, pause, settings,
          issued, switched>>
fuel == <<budget, slice, exhausted>>
command == <<directive, anchor, resuming, issued, switched>>
control == <<cancel, pause, settings>>

Depth == Len(frames)
Terminal == {"Completed", "Raised", "Faulted"}

\* A transfer: `mark` is the index of the frame it pops through (Return,
\* BlockBreak), the boundary it stops at (NativeBreak), or the depth at which
\* a raise was armed; `nested` says a raise was armed inside a nested drive.
Transfer(kind, mark) ==
  [kind |-> kind, mark |-> mark, nested |-> FALSE, trapped |-> FALSE]
NoUnwind == Transfer("None", 0)
CancelUnwind == Transfer("Cancel", 0)
RaiseFrom(depth) == [Transfer("Raise", depth) EXCEPT !.nested = (nest # <<>>)]

DefaultSettings == [trapping |-> FALSE, fine |-> FALSE, breakpoints |-> {}]

Init ==
  /\ state = "Ready" /\ outcome = "None"
  /\ frames = <<"Module">> /\ unwind = NoUnwind
  /\ pending = "None" /\ nest = <<>>
  /\ budget \in StepBudgets /\ slice = NoFuel /\ exhausted = FALSE
  /\ directive = "RunToCompletion" /\ anchor = 0 /\ resuming = FALSE
  /\ cancel = FALSE /\ pause = FALSE
  /\ settings = DefaultSettings
  /\ issued = 0 /\ switched = FALSE

----------------------------------------------------------------------------
(* Stopping.                                                                *)

Fault(o) == state' = "Faulted" /\ outcome' = o /\ nest' = <<>>
Stop(o) == state' = "Paused" /\ outcome' = o
KeepRunning == UNCHANGED <<state, outcome>>

\* pump.rs should_pause: whether a safe point at this depth ends the step.
ShouldPause(depth, returning) ==
  \/ directive \in {"Step", "StepInto"}
  \/ directive = "StepOver" /\ depth <= anchor /\ ~(returning /\ depth = anchor)
  \/ directive = "StepOut" /\ depth < anchor

\* Bug: breakpoints armed under every directive.
ArmedAlways(s) == s \in settings.breakpoints

AtBreakpoint(s) ==
  directive # "RunToCompletion" /\ s \in settings.breakpoints

\* Bug: the pause flag is polled at the head of a statement only.
DecideAtHead(depth, returning, s) ==
  \/ nest # <<>> /\ KeepRunning /\ UNCHANGED pause
  \/ nest = <<>> /\ pause /\ s # NoStmt /\ Stop("HostPause") /\ pause' = FALSE
  \/ /\ nest = <<>> /\ (~pause \/ s = NoStmt) /\ UNCHANGED pause
     /\ \/ ShouldPause(depth, returning) /\ Stop("Step")
        \/ ~ShouldPause(depth, returning) /\ KeepRunning

\* The outer loop's decision at a safe point, in its order of precedence.  A
\* nested loop ignores the safe points it crosses.
Decide(depth, returning, s) ==
  \/ nest # <<>> /\ KeepRunning /\ UNCHANGED pause
  \/ nest = <<>> /\ pause /\ Stop("HostPause") /\ pause' = FALSE
  \/ /\ nest = <<>> /\ ~pause /\ UNCHANGED pause
     /\ \/ AtBreakpoint(s) /\ Stop("Breakpoint")
        \/ ~AtBreakpoint(s) /\ ShouldPause(depth, returning) /\ Stop("Step")
        \/ ~AtBreakpoint(s) /\ ~ShouldPause(depth, returning) /\ KeepRunning

\* Bugs: the slice wraps below zero; a nested loop runs off the meter.
SpendWraps ==
  /\ budget' = IF budget = NoFuel THEN budget ELSE budget - 1
  /\ slice' = IF slice = NoFuel THEN slice ELSE slice - 1
  /\ exhausted' = (exhausted \/ slice = 1)

SpendOuterOnly ==
  /\ budget' = IF budget = NoFuel \/ nest # <<>> THEN budget ELSE budget - 1
  /\ slice' = IF slice = NoFuel \/ slice = 0 THEN slice ELSE slice - 1
  /\ exhausted' = (exhausted \/ slice = 1)

\* FusedCounter::spend, with a budget left.
Spend ==
  /\ budget' = IF budget = NoFuel THEN budget ELSE budget - 1
  /\ slice' = IF slice = NoFuel \/ slice = 0 THEN slice ELSE slice - 1
  /\ exhausted' = (exhausted \/ slice = 1)

BudgetOut == budget = 0

TooDeep(fs) == Len(fs) > StackLimit

\* Bug: nested loops do not poll the flag.
ArmsOuterCancel(fs) == cancel /\ nest = <<>> /\ fs # <<>>

\* Machine::poll_cancel: a cancellation is armed unless the last frame has gone.
ArmsCancel(fs) == cancel /\ fs # <<>>

\* A safe point with `fs` on the stack.  `kind` is the statement, call entry or
\* fall-through return of step.rs, which poll for cancellation, or the settling
\* of an unwind, which does not.
SafePoint(fs, kind, s) ==
  /\ frames' = fs
  /\ \/ /\ BudgetOut
        /\ Fault("StepBudget")
        /\ unwind' = NoUnwind /\ UNCHANGED <<fuel, pause>>
     \/ /\ ~BudgetOut /\ Spend
        /\ Fault("Heap")
        /\ unwind' = NoUnwind /\ UNCHANGED pause
     \/ /\ ~BudgetOut /\ Spend
        /\ kind = "Entry" /\ TooDeep(fs)
        /\ Fault("StackDepth")
        /\ unwind' = NoUnwind /\ UNCHANGED pause
     \/ /\ ~BudgetOut /\ Spend
        /\ ~(kind = "Entry" /\ TooDeep(fs))
        /\ UNCHANGED nest
        /\ IF kind # "Settle" /\ ArmsCancel(fs)
             THEN unwind' = CancelUnwind /\ KeepRunning /\ UNCHANGED pause
             ELSE unwind' = NoUnwind
                    /\ Decide(Len(fs), kind \in {"Return", "Settle"}, s)
  /\ UNCHANGED <<pending, command, cancel, settings>>

----------------------------------------------------------------------------
(* The loops.                                                               *)

InNative == nest # <<>> /\ Depth = Last(nest)

Nested == nest # <<>> /\ Depth > Last(nest)

TrapDue == /\ directive # "RunToCompletion" /\ settings.trapping
           /\ unwind.kind = "Raise" /\ ~unwind.trapped

\* Bug: the outer loop looks for a raise to trap only after it has stepped.
OuterStepFirst == nest = <<>> /\ frames # <<>> /\ ~exhausted

\* The outer loop checks for a halt, a spent slice and a raise to trap before
\* it steps; a nested loop steps without asking.
OuterStep == nest = <<>> /\ frames # <<>> /\ ~exhausted /\ ~TrapDue
MayStep == state = "Running" /\ (OuterStep \/ Nested)
Normal == MayStep /\ unwind = NoUnwind
Unwinding == MayStep /\ unwind # NoUnwind

Complete ==
  /\ state = "Running" /\ nest = <<>> /\ frames = <<>>
  /\ state' = "Completed" /\ outcome' = "Completed"
  /\ UNCHANGED <<frames, unwind, pending, nest, fuel, command, control>>

EndSlice ==
  /\ state = "Running" /\ nest = <<>> /\ frames # <<>> /\ exhausted
  /\ Stop("SliceEnd") /\ resuming' = TRUE
  /\ UNCHANGED <<frames, unwind, pending, nest, fuel, directive, anchor,
                 issued, switched, control>>

TrapRaise ==
  /\ state = "Running" /\ nest = <<>> /\ frames # <<>> /\ ~exhausted /\ TrapDue
  /\ unwind' = [unwind EXCEPT !.trapped = TRUE]
  /\ Stop("RaiseTrap")
  /\ UNCHANGED <<frames, pending, nest, fuel, command, control>>

----------------------------------------------------------------------------
(* Transitions of the running program.                                      *)

\* A statement is about to run, or the end of a body was reached (NoStmt).
Statement(s) == Normal /\ SafePoint(frames, "Statement", s)

\* The top frame's body is done.  A function that produced no value raises in
\* its caller instead of crossing the return safe point.
FallOff ==
  /\ Normal
  /\ \/ SafePoint(Front(frames), "Return", NoStmt)
     \/ /\ Last(frames) = "Callable"
        /\ frames' = Front(frames) /\ unwind' = RaiseFrom(Depth - 1)
        /\ UNCHANGED <<state, outcome, pending, nest, fuel, command, control>>

\* A call, or the invocation of a block some callable on the stack received.
Enter(kind) ==
  /\ Normal /\ Depth < MaxFrames
  /\ kind = "Block" => \E i \in 1 .. Depth : frames[i] = "Callable"
  /\ SafePoint(Append(frames, kind), "Entry", NoStmt)

\* In fine mode the end of a subexpression is a stop for the outer loop that
\* spends nothing and polls nothing.
FinePoint ==
  /\ Normal /\ nest = <<>> /\ settings.fine
  /\ Decide(Depth, FALSE, NoStmt)
  /\ UNCHANGED <<frames, unwind, pending, nest, fuel, command, cancel, settings>>

RaiseHere ==
  /\ Normal
  /\ unwind' = RaiseFrom(Depth)
  /\ UNCHANGED <<state, outcome, frames, pending, nest, fuel, command, control>>

\* The frames an exit may name from the top frame: a return ends the callable
\* running it or, from a block, one below; a break ends the callable that
\* received the block, or the native call that drives it.
ExitTargets ==
  LET below == {i \in 1 .. Depth - 1 : frames[i] = "Callable"} IN
  CASE Last(frames) = "Callable" -> {Transfer("Return", Depth)}
    [] Last(frames) = "Block" -> {Transfer(k, i) : k \in {"Return", "BlockBreak"},
                                                   i \in below}
    [] Last(frames) = "NBlock" -> {Transfer("Return", i) : i \in below}
                                    \cup {Transfer("NativeBreak", Depth - 1)}
    [] OTHER -> {}

Exit ==
  /\ Normal
  /\ unwind' \in ExitTargets
  /\ UNCHANGED <<state, outcome, frames, pending, nest, fuel, command, control>>

\* What a charge may take.
Affordable == IF budget = NoFuel THEN {} ELSE 1 .. budget

\* An operation whose result is large is charged its size, or refused before it
\* runs.
Charge(cost) ==
  /\ Normal
  /\ budget' = budget - cost
  /\ UNCHANGED <<state, outcome, frames, unwind, pending, nest, slice, exhausted,
                 command, control>>

Refuse(limit) ==
  /\ Normal /\ (limit = "StepBudget" => budget # NoFuel)
  /\ Fault(limit)
  /\ UNCHANGED <<frames, unwind, pending, fuel, command, control>>

\* Bug: a nested drive suspends like the outer one.
SuspendAnywhere(kind) ==
  /\ Normal /\ (kind = "Import" => Last(frames) = "Module")
  /\ state' = "Suspended" /\ outcome' = kind
  /\ pending' = kind /\ resuming' = TRUE
  /\ UNCHANGED <<frames, unwind, nest, fuel, directive, anchor, issued, switched,
                 control>>

\* A capability call or an import parks a request.  Only module code imports;
\* a suspension inside a nested drive is a fault.
Suspend(kind) ==
  /\ Normal /\ (kind = "Import" => Last(frames) = "Module")
  /\ IF nest = <<>>
       THEN /\ state' = "Suspended" /\ outcome' = kind
            /\ pending' = kind /\ resuming' = TRUE /\ UNCHANGED nest
       ELSE Fault("NestedSuspend") /\ UNCHANGED <<pending, resuming>>
  /\ UNCHANGED <<frames, unwind, fuel, directive, anchor, issued, switched, control>>

----------------------------------------------------------------------------
(* Transitions that unwind.                                                 *)

Discard ==
  /\ frames' = Front(frames)
  /\ UNCHANGED <<state, outcome, unwind, pending, nest, fuel, command, control>>

\* Bug: a handler also catches a cancellation.
CatchAll ==
  /\ Unwinding /\ unwind.kind \in {"Raise", "Cancel"}
  /\ unwind' = NoUnwind
  /\ UNCHANGED <<state, outcome, frames, pending, nest, fuel, command, control>>

\* The handler search of a raise: caught in the top frame, or that frame goes.
Catch ==
  /\ Unwinding /\ unwind.kind = "Raise"
  /\ unwind' = NoUnwind
  /\ UNCHANGED <<state, outcome, frames, pending, nest, fuel, command, control>>

DiscardForRaise == Unwinding /\ unwind.kind = "Raise" /\ Depth > 1 /\ Discard

Escape ==
  /\ Unwinding /\ unwind.kind = "Raise" /\ Depth = 1
  /\ frames' = <<>> /\ unwind' = NoUnwind
  /\ state' = "Raised" /\ outcome' = "Raised"
  /\ UNCHANGED <<pending, nest, fuel, command, control>>

DiscardForCancel == Unwinding /\ unwind.kind = "Cancel" /\ Depth > 1 /\ Discard

TornDown ==
  /\ Unwinding /\ unwind.kind = "Cancel" /\ Depth = 1
  /\ frames' = <<>> /\ unwind' = NoUnwind
  /\ Fault("Cancelled")
  /\ UNCHANGED <<pending, fuel, command, control>>

DiscardForExit ==
  /\ Unwinding
  /\ \/ unwind.kind \in {"Return", "BlockBreak"} /\ Depth # unwind.mark
     \/ unwind.kind = "NativeBreak"
  /\ Discard

\* The target frame goes and control returns below it: a safe point.
Settle ==
  /\ Unwinding /\ unwind.kind \in {"Return", "BlockBreak"} /\ Depth = unwind.mark
  /\ SafePoint(Front(frames), "Settle", NoStmt)

\* A bare return from a function raises in the caller.
ReturnNothing ==
  /\ Unwinding /\ unwind.kind = "Return" /\ Depth = unwind.mark
  /\ frames' = Front(frames) /\ unwind' = RaiseFrom(Depth - 1)
  /\ UNCHANGED <<state, outcome, pending, nest, fuel, command, control>>

----------------------------------------------------------------------------
(* Native calls.  Control is in host code while the stack is at the depth at *)
(* which the innermost native call was made.                                *)

NativeCall ==
  /\ Normal
  /\ nest' = Append(nest, Depth)
  /\ UNCHANGED <<state, outcome, frames, unwind, pending, fuel, command, control>>

AtNative == state = "Running" /\ InNative

\* The callback drives its block: a nested loop, one deeper on the host stack.
InvokeBlock ==
  /\ AtNative /\ unwind = NoUnwind
  /\ Len(nest) <= ReentryLimit /\ Depth < MaxFrames
  /\ frames' = Append(frames, "NBlock")
  /\ UNCHANGED <<state, outcome, unwind, pending, nest, fuel, command, control>>

InvokeTooDeep ==
  /\ AtNative /\ unwind = NoUnwind /\ Len(nest) > ReentryLimit
  /\ Fault("StackDepth")
  /\ UNCHANGED <<frames, unwind, pending, fuel, command, control>>

\* The arguments do not fit the block: the raise is parked at the boundary.
InvokeRaises ==
  /\ AtNative /\ unwind = NoUnwind
  /\ unwind' = RaiseFrom(Depth)
  /\ UNCHANGED <<state, outcome, frames, pending, nest, fuel, command, control>>

\* Bug: a break is compared with the boundary of the frame it left.
EndsAbove(boundary) == unwind.kind = "NativeBreak" /\ unwind.mark = boundary + 1

EndsHere(boundary) == unwind.kind = "NativeBreak" /\ unwind.mark = boundary

\* The callback returns.  A break that targets this call completes it, or
\* raises when the call can take no value; any other transfer stays in flight.
NativeReturn ==
  /\ AtNative
  /\ nest' = Front(nest)
  /\ unwind' \in
       IF unwind = NoUnwind \/ EndsHere(Depth)
       THEN {NoUnwind, [Transfer("Raise", Depth) EXCEPT !.nested = (nest' # <<>>)]}
       ELSE {unwind}
  /\ UNCHANGED <<state, outcome, frames, pending, fuel, command, control>>

\* With a transfer parked the callback must return at once and empty-handed;
\* driving the block again or replying is a host error and ends the instance.
\* It also ends if the host reports a failure of its own.
NativeMisbehaves ==
  /\ AtNative /\ unwind # NoUnwind
  /\ Fault("Internal") /\ unwind' = NoUnwind
  /\ UNCHANGED <<frames, pending, fuel, command, control>>

NativeFails ==
  /\ AtNative
  /\ Fault("Internal")
  /\ UNCHANGED <<frames, unwind, pending, fuel, command, control>>

----------------------------------------------------------------------------
(* The host.                                                                *)

\* Bug: every drive anchors its step afresh.
FreshAnchor(d, depth) == depth

\* A depth-anchored step that continues an interrupted one keeps its anchor.
StepAnchor(d, depth) ==
  IF resuming /\ d \in DepthAnchored THEN anchor ELSE depth

\* The head of pump.rs drive, over the frames the entry point leaves.
StartDrive(d, f) ==
  /\ state' = "Running" /\ outcome' = "None"
  /\ directive' = d /\ anchor' = StepAnchor(d, Len(frames')) /\ resuming' = FALSE
  /\ slice' = f /\ exhausted' = (f = 0)
  /\ UNCHANGED <<nest, budget, control>>

\* Re-issuing the same directive after a slice end carries the command on; any
\* other is a new command, which a depth step gives at the depth of the stop.
Continues(d) == outcome = "SliceEnd" /\ d = directive

Record(d) ==
  IF Continues(d) THEN UNCHANGED <<issued, switched>>
  ELSE /\ issued' = IF d \in DepthAnchored THEN Depth ELSE 0
       /\ switched' = (outcome = "SliceEnd" /\ d \in DepthAnchored)

Run(d, f) ==
  /\ state \in {"Ready", "Paused"}
  /\ UNCHANGED <<frames, unwind, pending>>
  /\ StartDrive(d, f) /\ Record(d)

Resume(f) ==
  pending' = "None" /\ StartDrive(directive, f) /\ UNCHANGED <<issued, switched>>

Resolve(f) ==
  /\ state = "Suspended" /\ pending = "Capability"
  /\ UNCHANGED <<frames, unwind>>
  /\ Resume(f)

\* A pending cancellation beats a host's rejection.
Reject(f) ==
  /\ state = "Suspended" /\ pending = "Capability"
  /\ unwind' = IF cancel THEN CancelUnwind ELSE RaiseFrom(Depth)
  /\ UNCHANGED frames
  /\ Resume(f)

\* A module's source pushes its top-level frame, or binds a module that is
\* already loaded, or raises, as a module that is missing or refused does.  A
\* pending cancellation beats them all.
ResolveImport(f) ==
  /\ state = "Suspended" /\ pending = "Import"
  /\ \/ cancel /\ unwind' = CancelUnwind /\ UNCHANGED frames
     \/ ~cancel /\ Depth < MaxFrames
         /\ frames' = Append(frames, "Module") /\ UNCHANGED unwind
     \/ ~cancel /\ UNCHANGED <<frames, unwind>>
     \/ ~cancel /\ unwind' = RaiseFrom(Depth) /\ UNCHANGED frames
  /\ Resume(f)

\* Between drives only: the host needs the instance to itself.
Configure ==
  /\ state \in {"Ready", "Paused", "Suspended"}
  /\ settings' \in Settings \ {settings}
  /\ UNCHANGED <<state, outcome, frames, unwind, pending, nest, fuel, command,
                 cancel, pause>>

\* Tokens work from any thread at any time; after the end nothing reads them.
RequestCancel ==
  /\ state \notin Terminal /\ ~cancel
  /\ cancel' = TRUE
  /\ UNCHANGED <<state, outcome, frames, unwind, pending, nest, fuel, command,
                 pause, settings>>

RequestPause ==
  /\ state \notin Terminal /\ ~pause
  /\ pause' = TRUE
  /\ UNCHANGED <<state, outcome, frames, unwind, pending, nest, fuel, command,
                 cancel, settings>>

Ended == state \in Terminal /\ UNCHANGED vars

----------------------------------------------------------------------------
Execute ==
  \/ \E s \in Stmts \cup {NoStmt} : Statement(s)
  \/ FallOff
  \/ \E kind \in {"Callable", "Block"} : Enter(kind)
  \/ FinePoint \/ RaiseHere \/ Exit
  \/ \E cost \in Affordable : Charge(cost)
  \/ \E limit \in {"Heap", "OpResult", "StepBudget"} : Refuse(limit)
  \/ \E kind \in {"Capability", "Import"} : Suspend(kind)

Unwind ==
  \/ Catch \/ DiscardForRaise \/ Escape
  \/ DiscardForCancel \/ TornDown
  \/ DiscardForExit \/ Settle \/ ReturnNothing

Native ==
  \/ NativeCall \/ InvokeBlock \/ InvokeTooDeep \/ InvokeRaises
  \/ NativeReturn \/ NativeMisbehaves \/ NativeFails

Engine == Complete \/ EndSlice \/ TrapRaise \/ Execute \/ Unwind \/ Native

Answer == \E f \in Fuels : Resolve(f) \/ Reject(f) \/ ResolveImport(f)

Host ==
  \/ \E d \in Directives, f \in Fuels : Run(d, f)
  \/ Answer \/ Configure \/ RequestCancel \/ RequestPause

Next == Engine \/ Host \/ Ended

Spec == Init /\ [][Next]_vars

\* A statement does finite work, so a program that keeps running keeps crossing
\* safe points; the host keeps driving a live instance with some fuel and
\* answers its suspensions; a callback returns.
CrossPolled ==
  \/ \E s \in Stmts \cup {NoStmt} : Statement(s)
  \/ FallOff
  \/ \E kind \in {"Callable", "Block"} : Enter(kind)

DriveOn == \E d \in Directives, f \in Fuels \ {0} : Run(d, f)

CrossOuter == nest = <<>> /\ CrossPolled

Fairness == /\ WF_vars(Engine) /\ SF_vars(CrossPolled) /\ SF_vars(CrossOuter)
            /\ SF_vars(DriveOn) /\ WF_vars(Answer)

FairSpec == Spec /\ Fairness

----------------------------------------------------------------------------
(* Safety.                                                                  *)

UnwindType == [kind : Transfers, mark : Nat, nested : BOOLEAN, trapped : BOOLEAN]

\* Every variable has the type its field has in the machine.
TypeOK ==
  /\ state \in {"Ready", "Running", "Paused", "Suspended"} \cup Terminal
  /\ outcome \in {"None", "Completed", "Capability", "Import", "SliceEnd",
                  "RaiseTrap", "HostPause", "Breakpoint", "Step", "Raised",
                  "StepBudget", "Heap", "StackDepth", "OpResult", "Cancelled",
                  "NestedSuspend", "Internal"}
  /\ frames \in Seq(FrameKinds) /\ unwind \in UnwindType
  /\ pending \in {"None", "Capability", "Import"} /\ nest \in Seq(Nat)
  /\ budget \in Fuel /\ slice \in Fuel /\ exhausted \in BOOLEAN
  /\ directive \in Directives \cup {"RunToCompletion"}
  /\ anchor \in Nat /\ resuming \in BOOLEAN
  /\ cancel \in BOOLEAN /\ pause \in BOOLEAN
  /\ settings \in Settings \cup {DefaultSettings}
  /\ issued \in Nat /\ switched \in BOOLEAN

\* A drive call never hands the host an instance with a native call in progress
\* on the host stack, and it reports a suspension exactly when a request is
\* parked: a request left behind by a nested drive or a cancelled resolution
\* would make the next stop a false suspension.
StopsClean ==
  /\ state # "Running" => nest = <<>>
  /\ state = "Suspended" <=> pending # "None"
  /\ state = "Suspended" => unwind = NoUnwind

\* A host pause, breakpoint or step stops with the stack intact: no transfer is
\* in flight and the program can go on exactly from there (pump.rs 76-82).
StopsIntact == outcome \in {"HostPause", "Breakpoint", "Step"} => unwind = NoUnwind

\* A block frame driven by a native call lives only while that call does, just
\* above its boundary; the calls nest strictly (ctx.rs invoke_block_inner).  An
\* orphan would return into a host callback that has already returned.
NativeBlocksOwned ==
  /\ \A i \in 1 .. Len(nest) : nest[i] \in 1 .. Depth
  /\ \A i, j \in 1 .. Len(nest) : i < j => nest[i] < nest[j]
  /\ state # "Faulted" =>
       \A j \in 1 .. Depth :
         frames[j] = "NBlock" => \E i \in 1 .. Len(nest) : nest[i] = j - 1

\* The frame a transfer unwinds to is still there: a return or break keeps
\* naming a live callable frame, and a native break a native call in progress,
\* through every drive and native boundary the transfer crosses.
TargetsLive ==
  state # "Faulted" =>
    /\ unwind.kind \in {"Return", "BlockBreak"} =>
         unwind.mark \in 1 .. Depth /\ frames[unwind.mark] = "Callable"
    /\ unwind.kind = "NativeBreak" =>
         \E i \in 1 .. Len(nest) : nest[i] = unwind.mark

\* Every frame a call or a block invocation pushed is within the depth limit,
\* unless the instance has faulted (limits.rs check_stack_depth).
CallsWithinLimit ==
  state # "Faulted" =>
    \A i \in 1 .. Depth : frames[i] \in {"Callable", "Block"} => i <= StackLimit

\* What the host finds at every stop: see StopsClean and StopsIntact.
StopsSound == StopsClean /\ StopsIntact

\* What nested drives, transfers and limits keep true of the frame stack: see
\* NativeBlocksOwned, TargetsLive and CallsWithinLimit.
StackSound == NativeBlocksOwned /\ TargetsLive /\ CallsWithinLimit

\* Nothing catches a cancellation: once it is unwinding it goes on until the
\* instance has faulted (E 10.1, cancel.rs 9-15).
CancelUncatchable ==
  [][unwind.kind = "Cancel" => unwind'.kind = "Cancel" \/ state' = "Faulted"]_vars

\* The stop that ends a step over or out of a frame is not deeper than, or is
\* strictly above, the frame in which the host gave the step.
StopsWhereGiven ==
  state = "Running" /\ state' = "Paused" /\ outcome' = "Step" =>
    /\ directive = "StepOver" => Len(frames') <= issued
    /\ directive = "StepOut" => Len(frames') < issued

\* A step over or out of a frame stops only where the host's command says,
\* however often the drive was sliced or suspended in between (lifecycle.rs
\* 89-103).  The one exception is a step that the host gives at a slice end in
\* place of another command: see StepAnchoredWhereGiven.
StepHonest == [][~switched => StopsWhereGiven]_vars

\* The same without the exception, as lifecycle.rs 92 says ("a fresh step
\* anchors at the current frame depth") and the field's comment in machine.rs
\* 238 ("the frame depth a depth-anchored step was issued at").
StepAnchoredWhereGiven == [][StopsWhereGiven]_vars

\* While raises are trapped, no frame is unwound by a raise armed in the outer
\* loop before the host has seen it (raise_trap.rs 1-5).
RaiseSeenFirst ==
  [][unwind.kind = "Raise" /\ ~unwind.nested /\ settings.trapping
        /\ directive # "RunToCompletion" /\ ~unwind.trapped
       => frames' = frames \/ state' # "Running"]_vars

----------------------------------------------------------------------------
(* Liveness.                                                                *)

\* A cancellation ends the instance: no suspension, slice, pause, step, handler
\* or native call keeps a program alive past it (E 10.1).
CancelEnds == cancel ~> state \in Terminal

\* A bounded drive call returns, provided control keeps coming back from native
\* calls to the outer loop (S-40, the pump's responsiveness); a finite step
\* budget ends every drive call even without that, however often it enters
\* native calls that drive their blocks again and again (E 10.2).
DriveCallsReturn ==
  /\ []<>(nest = <<>>) => (state = "Running" /\ slice # NoFuel ~> state # "Running")
  /\ state = "Running" /\ budget # NoFuel ~> state # "Running"

\* A pause request made during a drive is honoured, or the drive stops for some
\* other reason, under the same proviso (pause.rs).
PauseStops ==
  []<>(nest = <<>>) => (state = "Running" /\ pause ~> ~pause \/ state # "Running")

----------------------------------------------------------------------------
\* The abstract lifecycle, over the drive's own variables.
Promise == INSTANCE Lifecycle WITH bounded <- (slice # NoFuel)

\* Every behaviour of the drive is one the lifecycle allows (drive.rs 215-228):
\* outcomes match states, a slice end needs fuel, a cancellation a request.
KeepsPromise == Promise!Spec
=============================================================================
