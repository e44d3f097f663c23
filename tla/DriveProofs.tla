---------------------------- MODULE DriveProofs ----------------------------
(* Proofs about Drive, for every value of its constants.                    *)
EXTENDS Drive, StackLemmas, TLAPS

----------------------------------------------------------------------------
(* Types.                                                                   *)

LEMMA TransferFacts ==
  /\ \A k \in Transfers, m \in Nat :
       Transfer(k, m) \in UnwindType /\ Transfer(k, m).kind = k
         /\ Transfer(k, m).mark = m /\ Transfer(k, m).nested = FALSE
  /\ NoUnwind \in UnwindType /\ NoUnwind.kind = "None"
  /\ CancelUnwind \in UnwindType /\ CancelUnwind.kind = "Cancel"
  /\ \A d \in Nat : RaiseFrom(d) \in UnwindType /\ RaiseFrom(d).kind = "Raise"
                       /\ RaiseFrom(d).nested = (nest # <<>>)
  /\ \A u \in UnwindType : /\ [u EXCEPT !.trapped = TRUE] \in UnwindType
                            /\ [u EXCEPT !.trapped = TRUE].kind = u.kind
                            /\ [u EXCEPT !.trapped = TRUE].mark = u.mark
                            /\ [u EXCEPT !.trapped = TRUE].nested = u.nested
  BY DEF Transfer, NoUnwind, CancelUnwind, RaiseFrom, UnwindType, Transfers

LEMMA StepFacts ==
  ASSUME TypeOK, MayStep
  PROVE  /\ state = "Running" /\ frames # <<>>
         /\ Depth \in Nat \ {0}
         /\ Front(frames) \in Seq(FrameKinds)
         /\ Len(Front(frames)) = Depth - 1
         /\ \A i \in 1 .. Depth - 1 : Front(frames)[i] = frames[i]
         /\ Last(frames) = frames[Depth] /\ Last(frames) \in FrameKinds
         /\ nest = <<>> \/ (nest # <<>> /\ Last(nest) \in Nat /\ Last(nest) < Depth)
<1>1. nest # <<>> => Last(nest) \in Nat
  BY LastFacts DEF TypeOK
<1>2. Depth \in Nat
  BY LenProperties DEF Depth, TypeOK
<1>3. frames # <<>>
  BY <1>1, <1>2, EmptySeq DEF MayStep, OuterStep, Nested, Depth
<1> QED
  BY <1>1, <1>2, <1>3, FrontFacts, LastFacts
  DEF TypeOK, Depth, MayStep, OuterStep, Nested

LEMMA NormalFacts ==
  ASSUME TypeOK, Normal
  PROVE  state = "Running" /\ unwind = NoUnwind /\ unwind.kind = "None"
  BY StepFacts, TransferFacts DEF Normal

LEMMA SafePointType ==
  ASSUME TypeOK, state = "Running", NEW fs \in Seq(FrameKinds), NEW kind, NEW s,
         SafePoint(fs, kind, s)
  PROVE  TypeOK'
<1>1. /\ frames' \in Seq(FrameKinds) /\ unwind' \in UnwindType
      /\ pending' = pending /\ directive' = directive /\ anchor' = anchor
      /\ resuming' = resuming /\ issued' = issued /\ switched' = switched
      /\ cancel' = cancel
      /\ settings' = settings
  BY TransferFacts DEF SafePoint, command
<1>2. budget' \in Fuel /\ slice' \in Fuel /\ exhausted' \in BOOLEAN
  <2>1. CASE UNCHANGED fuel
    BY <2>1 DEF fuel, TypeOK
  <2>2. CASE ~BudgetOut /\ Spend
    <3>1. budget' \in Fuel
      BY <2>2 DEF Spend, BudgetOut, TypeOK, Fuel
    <3>2. slice' \in Fuel
      BY <2>2 DEF Spend, TypeOK, Fuel
    <3>3. exhausted' \in BOOLEAN
      BY <2>2 DEF Spend, TypeOK
    <3> QED
      BY <3>1, <3>2, <3>3
  <2> QED
    BY <2>1, <2>2 DEF SafePoint, fuel
<1>3. nest' \in Seq(Nat)
  BY EmptySeq DEF SafePoint, Fault, TypeOK
<1>4. /\ state' \in {"Running", "Paused", "Faulted"}
      /\ outcome' \in {"StepBudget", "Heap", "StackDepth", "HostPause", "Breakpoint",
                       "Step", outcome}
      /\ pause' \in BOOLEAN
  BY DEF SafePoint, Fault, Decide, Stop, KeepRunning, TypeOK
<1> QED
  BY <1>1, <1>2, <1>3, <1>4 DEF TypeOK, Terminal

LEMMA TypeStep ==
  ASSUME TypeOK, [Next]_vars
  PROVE  TypeOK'
<1>1. CASE UNCHANGED vars
  BY <1>1 DEF vars, TypeOK
<1>2. CASE Complete \/ EndSlice \/ TrapRaise
  <2>1. CASE Complete
    BY <2>1 DEF Complete, TypeOK, Terminal, fuel, command, control
  <2>2. CASE EndSlice
    BY <2>2 DEF EndSlice, Stop, TypeOK, fuel, control
  <2>3. CASE TrapRaise
    <3>1. unwind' \in UnwindType
      BY <2>3, TransferFacts DEF TrapRaise, TypeOK
    <3> QED
      BY <2>3, <3>1 DEF TrapRaise, Stop, TypeOK, fuel, command, control
  <2> QED
    BY <1>2, <2>1, <2>2, <2>3
<1>3. CASE Execute
  <2>1. ASSUME NEW s \in Stmts \cup {NoStmt}, Statement(s) PROVE TypeOK'
    BY <2>1, StepFacts, SafePointType DEF Statement, Normal, TypeOK
  <2>2. CASE FallOff
    <3>1. Front(frames) \in Seq(FrameKinds) /\ state = "Running"
      BY <2>2, StepFacts DEF FallOff, Normal
    <3>2. CASE SafePoint(Front(frames), "Return", NoStmt)
      BY <3>1, <3>2, SafePointType
    <3>3. CASE /\ frames' = Front(frames) /\ unwind' = RaiseFrom(Depth - 1)
               /\ UNCHANGED <<state, outcome, pending, nest, fuel, command, control>>
      <4>1. unwind' \in UnwindType
        BY <2>2, <3>3, StepFacts, TransferFacts DEF FallOff, Normal
      <4> QED
        BY <3>1, <3>3, <4>1 DEF TypeOK, fuel, command, control
    <3> QED
      BY <2>2, <3>2, <3>3 DEF FallOff
  <2>3. ASSUME NEW kind \in {"Callable", "Block"}, Enter(kind) PROVE TypeOK'
    BY <2>3, StepFacts, SafePointType, AppendFacts DEF Enter, Normal, TypeOK, FrameKinds
  <2>4. CASE FinePoint
    <3>1. /\ state' \in {state, "Paused"}
          /\ outcome' \in {outcome, "HostPause", "Breakpoint", "Step"}
          /\ pause' \in BOOLEAN
      BY <2>4 DEF FinePoint, Decide, Stop, KeepRunning, TypeOK
    <3> QED
      BY <2>4, <3>1 DEF FinePoint, TypeOK, fuel, command
  <2>5. CASE RaiseHere
    BY <2>5, StepFacts, TransferFacts
    DEF RaiseHere, Normal, TypeOK, fuel, command, control
  <2>6. CASE Exit
    <3>1. unwind' \in UnwindType
      BY <2>6, StepFacts, TransferFacts DEF Exit, ExitTargets, Normal, Transfers, FrameKinds
    <3> QED
      BY <2>6, <3>1 DEF Exit, TypeOK, fuel, command, control
  <2>7. ASSUME NEW cost \in Affordable, Charge(cost) PROVE TypeOK'
    BY <2>7 DEF Charge, Affordable, TypeOK, Fuel, command, control
  <2>8. ASSUME NEW limit \in {"Heap", "OpResult", "StepBudget"}, Refuse(limit) PROVE TypeOK'
    BY <2>8, EmptySeq DEF Refuse, Fault, TypeOK, Terminal, fuel, command, control
  <2>9. ASSUME NEW kind \in {"Capability", "Import"}, Suspend(kind) PROVE TypeOK'
    <3>1. /\ UNCHANGED <<frames, unwind, fuel, directive, anchor, issued, switched, control>>
          /\ \/ /\ state' = "Suspended" /\ outcome' = kind /\ pending' = kind
                /\ resuming' = TRUE /\ nest' = nest
             \/ /\ state' = "Faulted" /\ outcome' = "NestedSuspend" /\ nest' = <<>>
                /\ UNCHANGED <<pending, resuming>>
      BY <2>9, Zenon DEF Suspend, Fault
    <3>2. /\ state' \in {"Suspended", "Faulted"} /\ outcome' \in {kind, "NestedSuspend"}
          /\ pending' \in {pending, kind} /\ resuming' \in {resuming, TRUE}
          /\ nest' \in {nest, <<>>}
      BY <3>1
    <3>3. nest' \in Seq(Nat)
      BY <3>2, EmptySeq DEF TypeOK
    <3>4. UNCHANGED <<frames, unwind, budget, slice, exhausted, directive, anchor, issued,
                      switched, cancel, pause, settings>>
      BY <3>1 DEF fuel, control
    <3>5. /\ pending' \in {"None", "Capability", "Import"} /\ resuming' \in BOOLEAN
          /\ state' \in {"Ready", "Running", "Paused", "Suspended"} \cup Terminal
      BY <3>2 DEF TypeOK, Terminal
    <3> QED BY <3>2, <3>3, <3>4, <3>5 DEF TypeOK
  <2> QED
    BY <1>3, <2>1, <2>2, <2>3, <2>4, <2>5, <2>6, <2>7, <2>8, <2>9 DEF Execute
<1>4. CASE Unwind
  <2>1. CASE Catch \/ Escape \/ TornDown
    <3>1. NoUnwind \in UnwindType /\ <<>> \in Seq(FrameKinds) /\ <<>> \in Seq(Nat)
      BY TransferFacts, EmptySeq
    <3>2. CASE Catch
      BY <3>1, <3>2 DEF Catch, TypeOK, fuel, command, control
    <3>3. CASE Escape
      BY <3>1, <3>3 DEF Escape, TypeOK, Terminal, fuel, command, control
    <3>4. CASE TornDown
      BY <3>1, <3>4 DEF TornDown, Fault, TypeOK, Terminal, fuel, command, control
    <3> QED
      BY <2>1, <3>2, <3>3, <3>4
  <2>2. CASE DiscardForRaise \/ DiscardForCancel \/ DiscardForExit
    <3>1. Unwinding /\ Discard
      BY <2>2 DEF DiscardForRaise, DiscardForCancel, DiscardForExit
    <3>2. Front(frames) \in Seq(FrameKinds)
      BY <3>1, StepFacts DEF Unwinding
    <3> QED
      BY <3>1, <3>2 DEF Discard, TypeOK, fuel, command, control
  <2>3. CASE Settle
    BY <2>3, StepFacts, SafePointType DEF Settle, Unwinding
  <2>4. CASE ReturnNothing
    BY <2>4, StepFacts, TransferFacts
    DEF ReturnNothing, Unwinding, TypeOK, fuel, command, control
  <2> QED
    BY <1>4, <2>1, <2>2, <2>3, <2>4 DEF Unwind
<1>5. CASE Native
  <2>1. CASE NativeCall
    BY <2>1, StepFacts, AppendFacts DEF NativeCall, Normal, TypeOK, fuel, command, control
  <2>2. CASE InvokeBlock
    BY <2>2, AppendFacts DEF InvokeBlock, TypeOK, FrameKinds, fuel, command, control
  <2>3. CASE InvokeTooDeep \/ NativeMisbehaves \/ NativeFails
    <3>1. NoUnwind \in UnwindType /\ <<>> \in Seq(Nat)
      BY TransferFacts, EmptySeq
    <3>2. CASE InvokeTooDeep
      BY <3>1, <3>2 DEF InvokeTooDeep, Fault, TypeOK, Terminal, fuel, command, control
    <3>3. CASE NativeMisbehaves
      BY <3>1, <3>3 DEF NativeMisbehaves, Fault, TypeOK, Terminal, fuel, command, control
    <3>4. CASE NativeFails
      BY <3>1, <3>4 DEF NativeFails, Fault, TypeOK, Terminal, fuel, command, control
    <3> QED
      BY <2>3, <3>2, <3>3, <3>4
  <2>4. CASE InvokeRaises
    BY <2>4, TransferFacts, LenProperties
    DEF InvokeRaises, Depth, TypeOK, fuel, command, control
  <2>5. CASE NativeReturn
    <3>1. Depth \in Nat
      BY LenProperties DEF Depth, TypeOK
    <3>2. unwind' \in UnwindType
      <4>1. [Transfer("Raise", Depth) EXCEPT !.nested = (nest' # <<>>)] \in UnwindType
        BY <3>1 DEF Transfer, UnwindType, Transfers
      <4> QED
        BY <2>5, <4>1, TransferFacts DEF NativeReturn, TypeOK
    <3>3. nest' \in Seq(Nat)
      BY <2>5, FrontFacts DEF NativeReturn, AtNative, InNative, TypeOK
    <3> QED
      BY <2>5, <3>2, <3>3 DEF NativeReturn, TypeOK, fuel, command, control
  <2> QED
    BY <1>5, <2>1, <2>2, <2>3, <2>4, <2>5 DEF Native
<1>6. CASE Host
  <2>1. Depth \in Nat
    BY LenProperties DEF Depth, TypeOK
  <2>2. ASSUME NEW d \in Directives \cup {directive}, NEW f \in Fuels, StartDrive(d, f),
               frames' \in Seq(FrameKinds), unwind' \in UnwindType,
               pending' \in {"None", pending}, issued' \in Nat, switched' \in BOOLEAN
        PROVE  TypeOK'
    <3>1. Len(frames') \in Nat
      BY <2>2, LenProperties
    <3> QED
      BY <2>2, <3>1, DriveAssumption DEF StartDrive, StepAnchor, TypeOK, Fuel, control
  <2>3. ASSUME NEW d \in Directives, NEW f \in Fuels, Run(d, f) PROVE TypeOK'
    <3>1. issued' \in Nat /\ switched' \in BOOLEAN
      <4>1. CASE Continues(d)
        BY <2>3, <4>1 DEF Run, Record, TypeOK
      <4>2. CASE ~Continues(d)
        <5>1. /\ issued' = IF d \in DepthAnchored THEN Depth ELSE 0
              /\ switched' = (outcome = "SliceEnd" /\ d \in DepthAnchored)
          BY <2>3, <4>2, Zenon DEF Run, Record
        <5>2. issued' \in Nat
          BY <2>1, <5>1
        <5>3. switched' \in BOOLEAN
          BY <5>1, Zenon
        <5> QED
          BY <5>2, <5>3
      <4> QED
        BY <4>1, <4>2
    <3> QED
      BY <2>2, <2>3, <3>1 DEF Run, TypeOK
  <2>4. ASSUME NEW f \in Fuels, Resolve(f) PROVE TypeOK'
    BY <2>2, <2>4 DEF Resolve, Resume, TypeOK
  <2>5. ASSUME NEW f \in Fuels, Reject(f) PROVE TypeOK'
    BY <2>1, <2>2, <2>5, TransferFacts DEF Reject, Resume, TypeOK
  <2>6. ASSUME NEW f \in Fuels, ResolveImport(f) PROVE TypeOK'
    <3>1. Append(frames, "Module") \in Seq(FrameKinds)
      BY AppendFacts DEF TypeOK, FrameKinds
    <3>2. RaiseFrom(Depth) \in UnwindType /\ CancelUnwind \in UnwindType
      BY <2>1, TransferFacts
    <3>3. frames' \in Seq(FrameKinds) /\ unwind' \in UnwindType
      BY <2>6, <3>1, <3>2 DEF ResolveImport, TypeOK
    <3> QED
      BY <2>2, <2>6, <3>3 DEF ResolveImport, Resume, TypeOK
  <2>7. CASE Configure
    BY <2>7 DEF Configure, TypeOK, fuel, command
  <2>8. CASE RequestCancel
    BY <2>8 DEF RequestCancel, TypeOK, fuel, command
  <2>9. CASE RequestPause
    BY <2>9 DEF RequestPause, TypeOK, fuel, command
  <2> QED
    BY <1>6, <2>3, <2>4, <2>5, <2>6, <2>7, <2>8, <2>9 DEF Host, Answer
<1> QED
  BY <1>1, <1>2, <1>3, <1>4, <1>5, <1>6 DEF Next, Engine, Ended

\* Every reachable state is well typed.
THEOREM TypeCorrect == Spec => []TypeOK
<1>1. ASSUME Init PROVE TypeOK
  <2>1. frames \in Seq(FrameKinds) /\ nest \in Seq(Nat)
    BY <1>1 DEF Init, FrameKinds
  <2>2. budget \in Fuel /\ slice \in Fuel /\ exhausted \in BOOLEAN
    BY <1>1, DriveAssumption DEF Init, Fuel
  <2> QED
    BY <1>1, <2>1, <2>2, TransferFacts DEF Init, TypeOK
<1> QED
  BY <1>1, TypeStep, PTL DEF Spec

----------------------------------------------------------------------------
(* The native calls in progress nest in the frame stack.                    *)

\* The first half of NativeBlocksOwned, inductive on its own.
NestInv ==
  /\ \A i \in 1 .. Len(nest) : nest[i] \in 1 .. Depth
  /\ \A i, j \in 1 .. Len(nest) : i < j => nest[i] < nest[j]

LEMMA NestFacts ==
  ASSUME TypeOK
  PROVE  /\ Depth \in Nat /\ Len(nest) \in Nat
         /\ \A i \in 1 .. Len(nest) : nest[i] \in Nat
         /\ nest # <<>> => Last(nest) = nest[Len(nest)] /\ Len(nest) \in Nat \ {0}
         /\ nest # <<>> => /\ Len(Front(nest)) = Len(nest) - 1
                          /\ \A i \in 1 .. Len(nest) - 1 : Front(nest)[i] = nest[i]
  BY LenProperties, ElementOfSeq, FrontFacts, LastFacts DEF TypeOK, Depth

\* All a later step needs to know of a safe point.
LEMMA SafePointEffect ==
  ASSUME TypeOK, NEW fs, NEW kind, NEW s, SafePoint(fs, kind, s)
  PROVE  /\ frames' = fs /\ UNCHANGED <<pending, directive, anchor, resuming, issued,
                                       switched, cancel, settings>>
         /\ \/ unwind' = NoUnwind
            \/ unwind' = CancelUnwind /\ cancel /\ state' = state /\ kind # "Settle"
         /\ \/ UNCHANGED <<state, outcome, nest>>
            \/ /\ state' = "Paused" /\ outcome' \in {"HostPause", "Breakpoint", "Step"}
               /\ nest' = nest /\ nest = <<>> /\ unwind' = NoUnwind
            \/ /\ state' = "Faulted" /\ outcome' \in {"StepBudget", "Heap", "StackDepth"}
               /\ nest' = <<>> /\ unwind' = NoUnwind
         /\ kind = "Entry" /\ state' # "Faulted" => ~TooDeep(fs)
<1> QED
  BY DEF SafePoint, Fault, Decide, Stop, KeepRunning, command, ArmsCancel

\* What a step can do to the two stacks: nothing, clear the nest with a fault,
\* pop a frame, push one, or enter or leave a native call.
Popped == MayStep /\ frames' = Front(frames) /\ nest' = nest
Pushed(kind) == /\ frames' = Append(frames, kind) /\ nest' = nest
                /\ kind \in {"Callable", "Block"} => MayStep /\ ~TooDeep(frames')
                /\ kind = "NBlock" => InNative
Entered == MayStep /\ frames' = frames /\ nest' = Append(nest, Depth)
Left == InNative /\ frames' = frames /\ nest' = Front(nest)

LEMMA StackMoves ==
  ASSUME TypeOK, NestInv, [Next]_vars
  PROVE  /\ state = "Faulted" => state' = "Faulted"
         /\ \/ UNCHANGED <<frames, nest>>
            \/ state' = "Faulted" /\ nest' = <<>>
            \/ Popped \/ Entered \/ Left
            \/ \E kind \in FrameKinds : Pushed(kind)
<1> DEFINE Goal == /\ state = "Faulted" => state' = "Faulted"
                   /\ \/ UNCHANGED <<frames, nest>>
                      \/ state' = "Faulted" /\ nest' = <<>>
                      \/ Popped \/ Entered \/ Left
                      \/ \E kind \in FrameKinds : Pushed(kind)
<1>1. CASE Execute
  <2>1. ASSUME NEW fs \in {frames, Front(frames)}, NEW kind, NEW s, MayStep,
               SafePoint(fs, kind, s)
        PROVE  Goal
    BY <2>1, SafePointEffect, StepFacts DEF Popped
  <2>2. ASSUME NEW kind \in {"Callable", "Block"}, Enter(kind) PROVE Goal
    <3>1. /\ MayStep /\ frames' = Append(frames, kind) /\ kind \in FrameKinds
          /\ \/ nest' = nest /\ ~TooDeep(frames')
             \/ state' = "Faulted" /\ nest' = <<>>
      <4>1. state = "Running" /\ SafePoint(Append(frames, kind), "Entry", NoStmt)
        BY <2>2, NormalFacts DEF Enter
      <4> QED
        BY <2>2, <4>1, SafePointEffect DEF Enter, Normal, FrameKinds
    <3> QED
      BY <2>2, <3>1, StepFacts DEF Pushed
  <2>3. CASE FinePoint \/ RaiseHere \/ Exit
    BY <2>3, NormalFacts DEF FinePoint, RaiseHere, Exit
  <2>4. ASSUME NEW x, Charge(x) \/ Refuse(x) \/ Suspend(x) PROVE Goal
    BY <2>4, NormalFacts DEF Charge, Refuse, Suspend, Fault
  <2>5. CASE FallOff
    BY <2>1, <2>5, NormalFacts DEF FallOff, Normal, Popped
  <2>6. ASSUME NEW s, Statement(s) PROVE Goal
    BY <2>1, <2>6 DEF Statement, Normal
  <2> QED
    BY <1>1, <2>2, <2>3, <2>4, <2>5, <2>6 DEF Execute
<1>2. CASE Unwind
  <2>1. CASE Settle
    BY <2>1, SafePointEffect, StepFacts DEF Settle, Unwinding, Popped
  <2>2. CASE DiscardForRaise \/ DiscardForCancel \/ DiscardForExit \/ ReturnNothing
    BY <2>2, StepFacts
    DEF DiscardForRaise, DiscardForCancel, DiscardForExit, Discard, ReturnNothing,
        Unwinding, Popped
  <2>3. CASE Catch \/ TornDown
    BY <2>3, StepFacts DEF Catch, TornDown, Fault, Unwinding
  <2>4. CASE Escape
    <3>1. frames' = Front(frames) /\ nest' = nest
      BY <2>4, StepFacts, EmptySeq DEF Escape, Unwinding
    <3> QED
      BY <2>4, <3>1, StepFacts DEF Escape, Unwinding, Popped
  <2> QED
    BY <1>2, <2>1, <2>2, <2>3, <2>4 DEF Unwind
<1>3. CASE Native
  <2>1. CASE NativeCall
    BY <2>1, NormalFacts DEF NativeCall, Normal, Entered
  <2>2. CASE InvokeBlock
    BY <2>2 DEF InvokeBlock, AtNative, Pushed, FrameKinds
  <2>3. CASE NativeReturn
    BY <2>3 DEF NativeReturn, AtNative, Left
  <2> QED
    BY <1>3, <2>1, <2>2, <2>3
    DEF Native, InvokeTooDeep, InvokeRaises, NativeMisbehaves, NativeFails, Fault, AtNative
<1>4. ASSUME NEW f, ResolveImport(f) PROVE Goal
  BY <1>4 DEF ResolveImport, Resume, StartDrive, Pushed, FrameKinds
<1>5. ASSUME NEW d, NEW f, Run(d, f) \/ Resolve(f) \/ Reject(f) PROVE Goal
  BY <1>5 DEF Run, Resolve, Reject, Resume, StartDrive
<1>6. CASE Complete \/ EndSlice \/ TrapRaise \/ Configure \/ RequestCancel \/ RequestPause
           \/ UNCHANGED vars
  BY <1>6
  DEF Complete, EndSlice, TrapRaise, Configure, RequestCancel, RequestPause, vars
<1> QED
  BY <1>1, <1>2, <1>3, <1>4, <1>5, <1>6 DEF Next, Engine, Host, Answer, Ended

LEMMA PoppedFacts ==
  ASSUME TypeOK, Popped
  PROVE  /\ Depth \in Nat \ {0} /\ Depth' = Depth - 1
         /\ \A i \in 1 .. Depth - 1 : frames'[i] = frames[i]
         /\ nest # <<>> => Last(nest) < Depth
  BY StepFacts DEF Popped, Depth

LEMMA PushedFacts ==
  ASSUME TypeOK, NEW kind \in FrameKinds, Pushed(kind)
  PROVE  /\ Depth \in Nat /\ Depth' = Depth + 1
         /\ frames'[Depth + 1] = kind
         /\ \A i \in 1 .. Depth : frames'[i] = frames[i]
  BY AppendFacts, NestFacts DEF Pushed, TypeOK, Depth

LEMMA NestStep ==
  ASSUME TypeOK, NestInv, [Next]_vars
  PROVE  NestInv'
<1>1. CASE UNCHANGED <<frames, nest>>
  BY <1>1 DEF NestInv, Depth
<1>2. CASE nest' = <<>>
  BY <1>2 DEF NestInv
<1>3. CASE Popped
  <2>1. nest' = nest /\ \A i \in 1 .. Len(nest) : nest[i] <= Last(nest)
    BY <1>3, NestFacts DEF Popped, NestInv
  <2> QED
    BY <1>3, <2>1, PoppedFacts, NestFacts DEF NestInv
<1>4. ASSUME NEW kind \in FrameKinds, Pushed(kind) PROVE NestInv'
  <2>1. Depth \in Nat /\ Depth' = Depth + 1 /\ nest' = nest
    BY <1>4, PushedFacts, NestFacts DEF Pushed
  <2> QED
    BY <2>1 DEF NestInv
<1>5. CASE Entered
  <2>1. /\ Len(nest') = Len(nest) + 1 /\ nest'[Len(nest) + 1] = Depth
        /\ \A i \in 1 .. Len(nest) : nest'[i] = nest[i]
    BY <1>5, NestFacts, AppendFacts DEF Entered, TypeOK
  <2>2. Depth \in Nat \ {0} /\ Depth' = Depth
    BY <1>5, StepFacts DEF Entered, Depth
  <2>3. \A i \in 1 .. Len(nest) : nest[i] < Depth
    BY <1>5, StepFacts, NestFacts DEF Entered, NestInv
  <2> QED
    <3>1. Len(nest) \in Nat
      BY NestFacts
    <3>2. \A i \in 1 .. Len(nest') : nest'[i] \in 1 .. Depth'
      BY <2>1, <2>2, <3>1, NestFacts DEF NestInv
    <3>3. \A i, j \in 1 .. Len(nest') : i < j => nest'[i] < nest'[j]
      BY <2>1, <2>3, <3>1 DEF NestInv
    <3> QED
      BY <3>2, <3>3 DEF NestInv
<1>6. CASE Left
  <2>1. /\ Len(nest') = Len(nest) - 1 /\ Depth' = Depth
        /\ \A i \in 1 .. Len(nest) - 1 : nest'[i] = nest[i]
    BY <1>6, NestFacts DEF Left, InNative, Depth
  <2>2. Len(nest) \in Nat
    BY NestFacts
  <2> QED
    BY <2>1, <2>2 DEF NestInv
<1> QED
  BY <1>1, <1>2, <1>3, <1>4, <1>5, <1>6, StackMoves

----------------------------------------------------------------------------
(* Control: how the flags, the outcome and the transfer in flight relate.   *)

\* What the safety invariants need to be inductive: an outcome belongs to a
\* stopped instance, the resuming flag to an internal yield; slice fuel is spent
\* exactly when the flag says so; a cancel unwind was asked for; a raise armed
\* by the outer loop is never in flight inside a native call; and, unless it was
\* given at a slice end in place of another command, the anchor of the step in
\* force is the depth at which it was given.
ControlInv ==
  /\ state \in {"Ready", "Running"} => outcome = "None"
  /\ state = "Suspended" <=> outcome \in {"Capability", "Import"}
  /\ resuming <=> outcome \in {"SliceEnd", "Capability", "Import"}
  /\ exhausted <=> slice = 0
  /\ unwind.kind = "Cancel" => cancel
  /\ unwind.kind = "Raise" /\ ~unwind.nested => nest = <<>>
  /\ ~switched /\ directive \in DepthAnchored /\ (state = "Running" \/ resuming)
       => anchor = issued
  /\ StopsClean
  /\ StopsIntact

LEMMA SafePointFuel ==
  ASSUME TypeOK, exhausted <=> slice = 0, NEW fs, NEW kind, NEW s,
         SafePoint(fs, kind, s)
  PROVE  exhausted' <=> slice' = 0
<1>1. CASE UNCHANGED fuel
  BY <1>1 DEF fuel
<1>2. CASE Spend
  <2>1. slice' = 0 <=> slice = 0 \/ slice = 1
    <3>1. CASE slice = NoFuel
      BY <1>2, <3>1, DriveAssumption DEF Spend
    <3>2. CASE slice \in Nat
      BY <1>2, <3>2, DriveAssumption DEF Spend
    <3> QED
      BY <3>1, <3>2 DEF TypeOK, Fuel
  <2> QED
    BY <1>2, <2>1, Zenon DEF Spend
<1> QED
  BY <1>1, <1>2 DEF SafePoint

LEMMA SafePointControl ==
  ASSUME TypeOK, ControlInv, state = "Running", unwind.kind # "Raise",
         NEW fs, NEW kind, NEW s, SafePoint(fs, kind, s)
  PROVE  ControlInv'
<1>1. exhausted' <=> slice' = 0
  BY SafePointFuel DEF ControlInv
<1>2. /\ UNCHANGED <<pending, directive, anchor, resuming, issued, cancel>>
      /\ NoUnwind.kind = "None" /\ CancelUnwind.kind = "Cancel"
  BY SafePointEffect, TransferFacts
<1>3. CASE UNCHANGED <<state, outcome, nest>>
  BY <1>1, <1>2, <1>3, SafePointEffect DEF ControlInv, StopsClean, StopsIntact
<1>4. CASE /\ state' = "Paused" /\ outcome' \in {"HostPause", "Breakpoint", "Step"}
           /\ nest' = nest /\ nest = <<>> /\ unwind' = NoUnwind
  BY <1>1, <1>2, <1>4 DEF ControlInv, StopsClean, StopsIntact
<1>5. CASE /\ state' = "Faulted" /\ outcome' \in {"StepBudget", "Heap", "StackDepth"}
           /\ nest' = <<>> /\ unwind' = NoUnwind
  BY <1>1, <1>2, <1>5 DEF ControlInv, StopsClean, StopsIntact
<1> QED
  BY <1>3, <1>4, <1>5, SafePointEffect

LEMMA ControlStep ==
  ASSUME TypeOK, NestInv, ControlInv, [Next]_vars
  PROVE  ControlInv'
<1> USE TransferFacts DEF StopsClean, StopsIntact
<1>1. CASE UNCHANGED vars
  BY <1>1 DEF vars, ControlInv
<1>2. CASE Complete
  BY <1>2 DEF Complete, ControlInv, fuel, command, control
<1>3. CASE EndSlice
  BY <1>3 DEF EndSlice, Stop, ControlInv, fuel, control
<1>4. CASE TrapRaise
  BY <1>4 DEF TrapRaise, Stop, ControlInv, fuel, command, control, TypeOK
<1>5. CASE Execute
  <2>1. ASSUME NEW s \in Stmts \cup {NoStmt}, Statement(s) PROVE ControlInv'
    BY <2>1, NormalFacts, SafePointControl DEF Statement
  <2>2. CASE FallOff
    <3>1. Depth - 1 \in Nat
      BY <2>2, StepFacts DEF FallOff, Normal
    <3>2. CASE SafePoint(Front(frames), "Return", NoStmt)
      BY <2>2, <3>2, NormalFacts, SafePointControl DEF FallOff
    <3>3. CASE unwind' = RaiseFrom(Depth - 1)
               /\ UNCHANGED <<state, outcome, pending, nest, fuel, command, control>>
      BY <2>2, <3>1, <3>3, NormalFacts DEF FallOff, ControlInv, fuel, command, control
    <3> QED
      BY <2>2, <3>2, <3>3 DEF FallOff
  <2>3. ASSUME NEW kind \in {"Callable", "Block"}, Enter(kind) PROVE ControlInv'
    BY <2>3, NormalFacts, SafePointControl DEF Enter
  <2>4. CASE FinePoint
    BY <2>4, NormalFacts
    DEF FinePoint, Decide, Stop, KeepRunning, ControlInv, fuel, command
  <2>5. CASE RaiseHere
    <3>1. Depth \in Nat
      BY <2>5, StepFacts DEF RaiseHere, Normal
    <3> QED
      BY <2>5, <3>1, NormalFacts DEF RaiseHere, ControlInv, fuel, command, control
  <2>6. CASE Exit
    <3>1. unwind'.kind \in {"Return", "BlockBreak", "NativeBreak"}
      BY <2>6, StepFacts DEF Exit, ExitTargets, Normal, Transfers
    <3> QED
      BY <2>6, <3>1, NormalFacts DEF Exit, ControlInv, fuel, command, control
  <2>7. ASSUME NEW cost \in Affordable, Charge(cost) PROVE ControlInv'
    BY <2>7, NormalFacts DEF Charge, ControlInv, command, control
  <2>8. ASSUME NEW limit \in {"Heap", "OpResult", "StepBudget"}, Refuse(limit)
        PROVE  ControlInv'
    BY <2>8, NormalFacts DEF Refuse, Fault, ControlInv, fuel, command, control
  <2>9. ASSUME NEW kind \in {"Capability", "Import"}, Suspend(kind) PROVE ControlInv'
    BY <2>9, NormalFacts DEF Suspend, Fault, ControlInv, fuel, control
  <2> QED
    BY <1>5, <2>1, <2>2, <2>3, <2>4, <2>5, <2>6, <2>7, <2>8, <2>9 DEF Execute
<1>6. CASE Unwind
  <2>1. CASE Catch
    BY <2>1 DEF Catch, Unwinding, MayStep, ControlInv, fuel, command, control
  <2>2. CASE Escape
    <3>1. nest = <<>>
      BY <2>2, StepFacts, NestFacts DEF Escape, Unwinding, NestInv
    <3> QED
      BY <2>2, <3>1 DEF Escape, Unwinding, MayStep, ControlInv, fuel, command, control
  <2>3. CASE TornDown
    BY <2>3 DEF TornDown, Fault, Unwinding, MayStep, ControlInv, fuel, command, control
  <2>4. CASE DiscardForRaise \/ DiscardForCancel \/ DiscardForExit
    BY <2>4 DEF DiscardForRaise, DiscardForCancel, DiscardForExit, Discard, ControlInv,
                fuel, command, control
  <2>5. CASE Settle
    BY <2>5, SafePointControl DEF Settle, Unwinding, MayStep
  <2>6. CASE ReturnNothing
    <3>1. Depth - 1 \in Nat
      BY <2>6, StepFacts DEF ReturnNothing, Unwinding
    <3> QED
      BY <2>6, <3>1 DEF ReturnNothing, Unwinding, MayStep, ControlInv, fuel, command, control
  <2> QED
    BY <1>6, <2>1, <2>2, <2>3, <2>4, <2>5, <2>6 DEF Unwind
<1>7. CASE Native
  <2>1. Depth \in Nat
    BY LenProperties DEF Depth, TypeOK
  <2>2. CASE NativeCall
    BY <2>2, NormalFacts DEF NativeCall, ControlInv, fuel, command, control
  <2>3. CASE InvokeBlock
    BY <2>3 DEF InvokeBlock, AtNative, ControlInv, fuel, command, control
  <2>4. CASE InvokeTooDeep \/ NativeMisbehaves \/ NativeFails
    BY <2>4 DEF InvokeTooDeep, NativeMisbehaves, NativeFails, AtNative, Fault, ControlInv,
                fuel, command, control
  <2>5. CASE InvokeRaises
    BY <2>1, <2>5 DEF InvokeRaises, AtNative, InNative, ControlInv, fuel, command, control
  <2>6. CASE NativeReturn
    <3>1. /\ [Transfer("Raise", Depth) EXCEPT !.nested = (nest' # <<>>)].kind = "Raise"
          /\ [Transfer("Raise", Depth) EXCEPT !.nested = (nest' # <<>>)].nested = (nest' # <<>>)
      BY DEF Transfer
    <3>2. unwind'.kind = "Raise" /\ ~unwind'.nested => nest' = <<>>
      BY <2>6, <3>1 DEF NativeReturn, AtNative, InNative, ControlInv
    <3>3. unwind'.kind = "Cancel" => cancel
      BY <2>6, <3>1 DEF NativeReturn, ControlInv
    <3> QED
      BY <2>6, <3>2, <3>3 DEF NativeReturn, AtNative, ControlInv, fuel, command, control
  <2> QED
    BY <1>7, <2>2, <2>3, <2>4, <2>5, <2>6 DEF Native
<1>8. CASE Host
  <2>1. Depth \in Nat
    BY LenProperties DEF Depth, TypeOK
  <2>2. ASSUME NEW d, NEW f \in Fuels, StartDrive(d, f),
               state \in {"Ready", "Paused", "Suspended"}, pending' = "None",
               unwind'.kind = "Cancel" => cancel,
               ~switched' /\ d \in DepthAnchored => anchor' = issued'
        PROVE  ControlInv'
    <3>1. exhausted' <=> slice' = 0
      BY <2>2, Zenon DEF StartDrive
    <3>2. nest = <<>> /\ nest' = <<>> /\ cancel' = cancel
      BY <2>2 DEF StartDrive, ControlInv, control
    <3>3. /\ state' = "Running" /\ outcome' = "None" /\ ~resuming' /\ directive' = d
      BY <2>2, Zenon DEF StartDrive
    <3> QED
      BY <2>2, <3>1, <3>2, <3>3 DEF ControlInv
  <2>3. ASSUME NEW f \in Fuels, Resume(f), state = "Suspended",
               unwind'.kind = "Cancel" => cancel
        PROVE  ControlInv'
    <3>1. resuming
      BY <2>3 DEF ControlInv, TypeOK
    <3>2. ~switched' /\ directive \in DepthAnchored => anchor' = issued'
      BY <2>3, <3>1 DEF Resume, StartDrive, StepAnchor, ControlInv
    <3> QED
      BY <2>2, <2>3, <3>2 DEF Resume
  <2>4. ASSUME NEW d \in Directives, NEW f \in Fuels, Run(d, f) PROVE ControlInv'
    <3>1. Len(frames') = Depth /\ unwind' = unwind /\ pending' = pending
      BY <2>4 DEF Run, Depth
    <3>2. ~switched' /\ d \in DepthAnchored => anchor' = issued'
      <4> SUFFICES ASSUME ~switched', d \in DepthAnchored PROVE anchor' = issued'
        OBVIOUS
      <4>1. CASE Continues(d)
        BY <2>4, <4>1 DEF Run, Record, Continues, StartDrive, StepAnchor, ControlInv
      <4>2. CASE ~Continues(d)
        <5>1. outcome # "SliceEnd"
          BY <2>4, <4>2 DEF Run, Record
        <5>2. outcome \notin {"Capability", "Import"}
          BY <2>4 DEF Run, ControlInv
        <5> QED
          BY <2>4, <3>1, <4>2, <5>1, <5>2 DEF Run, Record, StartDrive, StepAnchor, ControlInv
      <4> QED
        BY <4>1, <4>2
    <3>3. pending = "None"
      BY <2>4 DEF Run, ControlInv
    <3> QED
      BY <2>2, <2>4, <3>1, <3>2, <3>3 DEF Run, ControlInv
  <2>5. ASSUME NEW f \in Fuels, Resolve(f) \/ Reject(f) \/ ResolveImport(f)
        PROVE  ControlInv'
    <3>1. unwind'.kind = "Cancel" => cancel
      BY <2>1, <2>5 DEF Resolve, Reject, ResolveImport, ControlInv
    <3> QED
      BY <2>3, <2>5, <3>1 DEF Resolve, Reject, ResolveImport
  <2>6. CASE Configure
    BY <2>6 DEF Configure, ControlInv, fuel, command
  <2>7. CASE RequestCancel
    BY <2>7 DEF RequestCancel, ControlInv, fuel, command
  <2>8. CASE RequestPause
    BY <2>8 DEF RequestPause, ControlInv, fuel, command
  <2> QED
    BY <1>8, <2>4, <2>5, <2>6, <2>7, <2>8 DEF Host, Answer
<1> QED
  BY <1>1, <1>2, <1>3, <1>4, <1>5, <1>6, <1>7, <1>8 DEF Next, Engine, Ended

LEMMA ControlInit == Init => NestInv /\ ControlInv
  BY TransferFacts, DriveAssumption
  DEF Init, NestInv, ControlInv, StopsClean, StopsIntact, DepthAnchored

LEMMA ControlCorrect == Spec => [](TypeOK /\ NestInv /\ ControlInv)
<1>1. Init /\ TypeOK => TypeOK /\ NestInv /\ ControlInv
  BY ControlInit
<1>2. TypeOK /\ NestInv /\ ControlInv /\ [Next]_vars
        => (TypeOK /\ NestInv /\ ControlInv)'
  BY TypeStep, NestStep, ControlStep
<1> QED
  BY <1>1, <1>2, TypeCorrect, PTL DEF Spec

\* A stopped instance has no native call on the host stack, is suspended exactly
\* when a request is parked, and a host pause, breakpoint or step leaves no
\* transfer in flight.
THEOREM StopsAreSound == Spec => []StopsSound
<1>1. ControlInv => StopsSound
  BY DEF ControlInv, StopsSound
<1> QED
  BY <1>1, ControlCorrect, PTL

----------------------------------------------------------------------------
(* The stack: who owns a frame, and what a transfer in flight points at.    *)

Owned == state # "Faulted" =>
  \A j \in 1 .. Depth : frames[j] = "NBlock" => \E i \in 1 .. Len(nest) : nest[i] = j - 1

LEMMA OwnedStep ==
  ASSUME TypeOK, NestInv, Owned, [Next]_vars
  PROVE  Owned'
<1> SUFFICES ASSUME state' # "Faulted", state # "Faulted",
                    NEW j \in 1 .. Depth', frames'[j] = "NBlock"
             PROVE  \E i \in 1 .. Len(nest') : nest'[i] = j - 1
  BY StackMoves DEF Owned
<1>1. CASE UNCHANGED <<frames, nest>>
  BY <1>1 DEF Owned, Depth
<1>2. CASE Popped
  <2>1. j \in 1 .. Depth /\ frames[j] = "NBlock" /\ nest' = nest
    BY <1>2, PoppedFacts DEF Popped
  <2> QED
    BY <2>1 DEF Owned
<1>3. ASSUME NEW kind \in FrameKinds, Pushed(kind)
      PROVE  \E i \in 1 .. Len(nest') : nest'[i] = j - 1
  <2>1. nest' = nest /\ j \in 1 .. Depth + 1 /\ Depth \in Nat
    BY <1>3, PushedFacts DEF Pushed
  <2>2. CASE j \in 1 .. Depth
    BY <1>3, <2>1, <2>2, PushedFacts DEF Owned
  <2>3. CASE j = Depth + 1
    <3>1. nest # <<>> /\ Depth = Last(nest)
      BY <1>3, <2>3, PushedFacts DEF Pushed, InNative
    <3> QED
      BY <2>1, <2>3, <3>1, NestFacts
  <2> QED
    BY <2>1, <2>2, <2>3
<1>4. CASE Entered
  <2>1. /\ Len(nest') = Len(nest) + 1
        /\ \A i \in 1 .. Len(nest) : nest'[i] = nest[i]
    BY <1>4, NestFacts, AppendFacts DEF Entered, TypeOK
  <2>2. \E i \in 1 .. Len(nest) : nest[i] = j - 1
    BY <1>4 DEF Entered, Owned, Depth
  <2> QED
    BY <2>1, <2>2, NestFacts
<1>5. CASE Left
  <2>1. /\ Len(nest') = Len(nest) - 1 /\ nest[Len(nest)] = Depth
        /\ \A i \in 1 .. Len(nest) - 1 : nest'[i] = nest[i]
    BY <1>5, NestFacts DEF Left, InNative
  <2>2. PICK i \in 1 .. Len(nest) : nest[i] = j - 1
    BY <1>5 DEF Left, Owned, Depth
  <2>3. j - 1 # Depth
    BY <1>5, NestFacts DEF Left, Depth
  <2> QED
    BY <2>1, <2>2, <2>3, NestFacts
<1> QED
  BY <1>1, <1>2, <1>3, <1>4, <1>5, StackMoves

LEMMA CallsStep ==
  ASSUME TypeOK, NestInv, CallsWithinLimit, [Next]_vars
  PROVE  CallsWithinLimit'
<1> SUFFICES ASSUME state' # "Faulted", state # "Faulted",
                    NEW i \in 1 .. Depth', frames'[i] \in {"Callable", "Block"}
             PROVE  i <= StackLimit
  BY StackMoves DEF CallsWithinLimit
<1>1. CASE frames' = frames
  BY <1>1 DEF CallsWithinLimit, Depth
<1>2. CASE Popped
  <2>1. i \in 1 .. Depth /\ frames[i] = frames'[i]
    BY <1>2, PoppedFacts
  <2> QED
    BY <2>1 DEF CallsWithinLimit
<1>3. ASSUME NEW kind \in FrameKinds, Pushed(kind) PROVE i <= StackLimit
  <2>1. CASE i \in 1 .. Depth
    BY <1>3, <2>1, PushedFacts DEF CallsWithinLimit
  <2>2. CASE i = Depth + 1
    BY <1>3, <2>2, PushedFacts, DriveAssumption DEF Pushed, TooDeep, Depth
  <2> QED
    BY <1>3, <2>1, <2>2, PushedFacts
<1> QED
  BY <1>1, <1>2, <1>3, StackMoves DEF Entered, Left

\* Short of a fault, a step arms an exit, carries the transfer over a stack move
\* its target survives, or leaves none that has a target.
Carried == /\ unwind' = unwind
           /\ Popped /\ unwind.kind \in {"Return", "BlockBreak"} => Depth # unwind.mark
           /\ Left => ~EndsHere(Depth)

LEMMA TransferMoves ==
  ASSUME TypeOK, NestInv, [Next]_vars
  PROVE  \/ state' = "Faulted" \/ Carried \/ Exit
         \/ unwind'.kind \in {"None", "Cancel", "Raise"}
<1> USE TransferFacts
<1> DEFINE Goal == \/ state' = "Faulted" \/ Carried \/ Exit
                   \/ unwind'.kind \in {"None", "Cancel", "Raise"}
<1>1. /\ Popped \/ Left => nest # <<>> \/ frames' # frames
      /\ Popped => frames' # frames
      /\ Left => nest' # nest
  <2>1. CASE Popped
    BY <2>1, PoppedFacts, NestFacts DEF Left, InNative, Depth
  <2>2. CASE Left
    BY <2>2, NestFacts, PoppedFacts DEF Left, InNative, Depth
  <2> QED
    BY <2>1, <2>2
<1>2. CASE frames' = frames /\ nest' = nest /\ unwind' = unwind
  BY <1>1, <1>2 DEF Carried
<1>3. CASE Normal /\ unwind' = unwind
  BY <1>3, NormalFacts
<1>4. CASE Execute
  <2>1. ASSUME NEW fs, NEW kind, NEW s, SafePoint(fs, kind, s) PROVE Goal
    BY <2>1, SafePointEffect
  <2>2. CASE FallOff
    BY <2>1, <2>2, StepFacts DEF FallOff, Normal
  <2>3. CASE RaiseHere
    BY <2>3, StepFacts DEF RaiseHere, Normal
  <2> QED
    BY <1>3, <1>4, <2>1, <2>2, <2>3
    DEF Execute, Statement, Enter, FinePoint, Charge, Refuse, Suspend
<1>5. CASE Unwind
  <2>1. CASE Settle
    BY <2>1, SafePointEffect DEF Settle
  <2>2. CASE ReturnNothing
    BY <2>2, StepFacts DEF ReturnNothing, Unwinding
  <2>3. CASE DiscardForRaise \/ DiscardForCancel
    BY <2>3 DEF DiscardForRaise, DiscardForCancel, Discard
  <2>4. CASE DiscardForExit
    <3>1. ~Left
      BY <2>4, StepFacts, NestFacts DEF DiscardForExit, Unwinding, Left, InNative, Depth
    <3> QED
      BY <2>4, <3>1 DEF DiscardForExit, Discard, Carried
  <2>5. CASE Catch \/ Escape \/ TornDown
    BY <2>5 DEF Catch, Escape, TornDown
  <2> QED
    BY <1>5, <2>1, <2>2, <2>3, <2>4, <2>5 DEF Unwind
<1>6. CASE Native
  <2>1. CASE NativeCall
    BY <1>3, <2>1 DEF NativeCall
  <2>2. CASE InvokeBlock \/ NativeMisbehaves
    BY <2>2 DEF InvokeBlock, NativeMisbehaves
  <2>3. CASE InvokeRaises
    BY <2>3, NestFacts DEF InvokeRaises
  <2>4. CASE NativeReturn
    <3>1. [Transfer("Raise", Depth) EXCEPT !.nested = (nest' # <<>>)].kind = "Raise"
      BY DEF Transfer
    <3>2. ~Popped
      BY <2>4, <1>1 DEF NativeReturn
    <3> QED
      BY <2>4, <3>1, <3>2 DEF NativeReturn, Carried
  <2>5. CASE InvokeTooDeep \/ NativeFails
    BY <2>5 DEF InvokeTooDeep, NativeFails, Fault
  <2> QED
    BY <1>6, <2>1, <2>2, <2>3, <2>4, <2>5 DEF Native
<1>7. CASE Host
  <2>1. ASSUME NEW f, ResolveImport(f), UNCHANGED unwind PROVE Goal
    BY <2>1, <1>1, PoppedFacts, AppendFacts
    DEF ResolveImport, Resume, StartDrive, Carried, Popped, MayStep
  <2>2. CASE \E d \in Directives, f \in Fuels : Run(d, f)
    BY <1>2, <2>2, NestFacts DEF Run, StartDrive
  <2>3. CASE \E f \in Fuels : Resolve(f) \/ Reject(f)
    BY <1>2, <2>3, NestFacts DEF Resolve, Reject, Resume, StartDrive
  <2>4. CASE \E f \in Fuels : ResolveImport(f)
    <3>1. PICK f \in Fuels : ResolveImport(f)
      BY <2>4
    <3>3. unwind' = unwind \/ unwind' \in {CancelUnwind, RaiseFrom(Depth)}
      BY <3>1 DEF ResolveImport
    <3>4. CASE unwind' = unwind
      BY <2>1, <3>1, <3>4
    <3>5. CASE unwind' \in {CancelUnwind, RaiseFrom(Depth)}
      <4>1. Depth \in Nat
        BY LenProperties DEF Depth, TypeOK
      <4> QED
        BY <3>5, <4>1
    <3> QED
      BY <3>3, <3>4, <3>5
  <2>5. CASE Configure \/ RequestCancel \/ RequestPause
    BY <1>2, <2>5 DEF Configure, RequestCancel, RequestPause
  <2> QED
    BY <1>7, <2>2, <2>3, <2>4, <2>5 DEF Host, Answer
<1>8. CASE Complete \/ EndSlice \/ UNCHANGED vars
  BY <1>2, <1>8 DEF Complete, EndSlice, vars
<1>9. CASE TrapRaise
  BY <1>9 DEF TrapRaise, TrapDue, TypeOK
<1> QED
  BY <1>4, <1>5, <1>6, <1>7, <1>8, <1>9 DEF Next, Engine, Ended

LEMMA TargetsStep ==
  ASSUME TypeOK, NestInv, Owned, TargetsLive, [Next]_vars
  PROVE  TargetsLive'
<1> SUFFICES ASSUME state' # "Faulted", state # "Faulted" PROVE TargetsLive'
  BY StackMoves DEF TargetsLive
<1>1. CASE Exit
  <2>1. /\ MayStep /\ Owned /\ frames' = frames /\ nest' = nest
        /\ unwind' \in ExitTargets
    BY <1>1 DEF Exit, Normal
  <2>2. /\ Depth \in Nat \ {0} /\ Last(frames) = frames[Depth] /\ Depth' = Depth
    BY <2>1, StepFacts DEF Depth
  <2>3. \A i \in 1 .. Depth, k \in Transfers :
          Transfer(k, i).kind = k /\ Transfer(k, i).mark = i
    BY TransferFacts
  <2>4. CASE Last(frames) = "Callable"
    <3>1. unwind' = Transfer("Return", Depth)
      BY <2>1, <2>4 DEF ExitTargets
    <3>2. unwind'.kind = "Return" /\ unwind'.mark = Depth
      BY <3>1 DEF Transfer
    <3>3. Depth' = Depth /\ Depth \in 1 .. Depth /\ frames'[Depth] = "Callable"
      BY <2>1, <2>2, <2>4
    <3> QED
      BY <3>2, <3>3 DEF TargetsLive
  <2>5. CASE Last(frames) = "Block"
    BY <2>1, <2>2, <2>3, <2>5 DEF ExitTargets, TargetsLive, Transfers
  <2>6. CASE Last(frames) = "NBlock"
    <3>1. \E i \in 1 .. Len(nest) : nest[i] = Depth - 1
      <4>1. Depth \in 1 .. Depth /\ frames[Depth] = "NBlock"
        BY <2>2, <2>6
      <4> QED
        BY <2>1, <4>1 DEF Owned
    <3> QED
      BY <2>1, <2>2, <2>6, <3>1 DEF ExitTargets, TargetsLive, Transfer
  <2>7. CASE Last(frames) \notin {"Callable", "Block", "NBlock"}
    BY <2>1, <2>7 DEF ExitTargets
  <2> QED
    BY <2>4, <2>5, <2>6, <2>7
<1>2. CASE Carried
  <2>1. unwind' = unwind /\ Depth \in Nat /\ unwind.mark \in Nat
    BY <1>2, NestFacts DEF Carried, TypeOK, UnwindType
  <2>2. ASSUME unwind.kind \in {"Return", "BlockBreak"}
        PROVE  unwind.mark \in 1 .. Depth' /\ frames'[unwind.mark] = "Callable"
    <3>1. unwind.mark \in 1 .. Depth /\ frames[unwind.mark] = "Callable"
      BY <2>2 DEF TargetsLive
    <3>2. CASE Popped
      BY <1>2, <2>2, <3>1, <3>2, PoppedFacts DEF Carried
    <3>3. CASE frames' = frames
      BY <3>1, <3>3 DEF Depth
    <3>4. ASSUME NEW kind \in FrameKinds, Pushed(kind)
          PROVE  unwind.mark \in 1 .. Depth' /\ frames'[unwind.mark] = "Callable"
      BY <3>1, <3>4, PushedFacts
    <3> QED
      BY <3>2, <3>3, <3>4, StackMoves DEF Entered, Left
  <2>3. ASSUME unwind.kind = "NativeBreak"
        PROVE  \E i \in 1 .. Len(nest') : nest'[i] = unwind.mark
    <3>1. PICK i \in 1 .. Len(nest) : nest[i] = unwind.mark
      BY <2>3 DEF TargetsLive
    <3>2. CASE nest' = nest
      BY <3>1, <3>2
    <3>3. CASE Entered
      BY <3>1, <3>3, NestFacts, AppendFacts DEF Entered, TypeOK
    <3>4. CASE Left
      <4>1. nest[Len(nest)] # unwind.mark
        BY <1>2, <2>3, <3>4, NestFacts DEF Left, InNative, Carried, EndsHere
      <4> QED
        BY <3>1, <3>4, <4>1, NestFacts DEF Left, InNative
    <3> QED
      BY <3>2, <3>3, <3>4, StackMoves DEF Popped, Pushed
  <2> QED
    BY <2>1, <2>2, <2>3 DEF TargetsLive
<1>3. CASE unwind'.kind \in {"None", "Cancel", "Raise"}
  BY <1>3 DEF TargetsLive
<1> QED
  BY <1>1, <1>2, <1>3, TransferMoves

StackInv == NestInv /\ Owned /\ CallsWithinLimit /\ TargetsLive

LEMMA StackCorrect == Spec => [](TypeOK /\ StackInv)
<1>1. Init => StackInv
  BY TransferFacts, ControlInit DEF Init, StackInv, Owned, CallsWithinLimit, TargetsLive, Depth
<1>2. TypeOK /\ StackInv /\ [Next]_vars => StackInv'
  BY NestStep, OwnedStep, CallsStep, TargetsStep DEF StackInv
<1> QED
  BY <1>1, <1>2, TypeCorrect, PTL DEF Spec

\* A block frame driven by a native call lives only while that call does, a
\* return or break in flight names a live frame or a native call in progress, and
\* every call and block frame of a live instance is within the depth limit.
THEOREM StackIsSound == Spec => []StackSound
<1>1. StackInv => StackSound
  BY DEF StackInv, NestInv, Owned, NativeBlocksOwned, StackSound
<1> QED
  BY <1>1, StackCorrect, PTL

----------------------------------------------------------------------------
(* Steps.                                                                   *)

\* Nothing catches a cancellation.
THEOREM CancelIsUncatchable == Spec => CancelUncatchable
<1> DEFINE Kept == unwind.kind = "Cancel" => unwind'.kind = "Cancel" \/ state' = "Faulted"
<1>1. ASSUME TypeOK, ControlInv, [Next]_vars PROVE Kept
  <2> SUFFICES ASSUME unwind.kind = "Cancel"
               PROVE  unwind' = unwind \/ state' = "Faulted"
    OBVIOUS
  <2>1. ~Normal /\ unwind # NoUnwind
    BY TransferFacts DEF Normal
  <2>2. CASE Execute
    BY <2>1, <2>2
    DEF Execute, Statement, FallOff, Enter, FinePoint, RaiseHere, Exit, Charge, Refuse, Suspend
  <2>3. CASE Unwind
    BY <2>3
    DEF Unwind, Catch, DiscardForRaise, Escape, DiscardForCancel, TornDown, DiscardForExit,
        Settle, ReturnNothing, Discard, Fault
  <2>4. CASE Native
    BY <2>1, <2>4
    DEF Native, NativeCall, InvokeBlock, InvokeTooDeep, InvokeRaises, NativeReturn, EndsHere,
        NativeMisbehaves, NativeFails, Fault
  <2>5. CASE Host
    <3>1. state # "Suspended"
      BY <1>1, <2>1 DEF ControlInv, StopsClean
    <3> QED
      BY <2>5, <3>1
      DEF Host, Answer, Run, Resolve, Reject, ResolveImport, Configure, RequestCancel,
          RequestPause
  <2>6. CASE Complete \/ EndSlice \/ TrapRaise \/ UNCHANGED vars
    BY <2>6 DEF Complete, EndSlice, TrapRaise, TrapDue, vars
  <2> QED
    BY <1>1, <2>2, <2>3, <2>4, <2>5, <2>6 DEF Next, Engine, Ended
<1>2. TypeOK /\ NestInv /\ ControlInv /\ [Next]_vars => [Kept]_vars
  BY <1>1
<1> QED
  BY <1>2, ControlCorrect, PTL DEF Spec, CancelUncatchable

\* While raises are trapped no raise of the outer loop unwinds a frame unseen.
THEOREM RaisesAreSeenFirst == Spec => RaiseSeenFirst
<1> DEFINE Seen == unwind.kind = "Raise" /\ ~unwind.nested /\ settings.trapping
                     /\ directive # "RunToCompletion" /\ ~unwind.trapped
                   => frames' = frames \/ state' # "Running"
<1>1. ASSUME TypeOK, NestInv, ControlInv, [Next]_vars PROVE Seen
  <2> SUFFICES ASSUME TrapDue, ~unwind.nested
               PROVE  frames' = frames
    BY DEF TrapDue
  <2>1. nest = <<>> /\ unwind # NoUnwind /\ state # "Suspended"
    BY <1>1, TransferFacts DEF TrapDue, ControlInv, StopsClean
  <2>2. ~MayStep /\ ~InNative
    BY <2>1 DEF MayStep, OuterStep, Nested, InNative
  <2>3. ~Execute /\ ~Unwind
    BY <2>2
    DEF Execute, Statement, FallOff, Enter, FinePoint, RaiseHere, Exit, Charge, Refuse,
        Suspend, Normal, Unwind, Catch, DiscardForRaise, Escape, DiscardForCancel, TornDown,
        DiscardForExit, Settle, ReturnNothing, Unwinding
  <2>4. ~Native
    BY <2>2
    DEF Native, NativeCall, InvokeBlock, InvokeTooDeep, InvokeRaises, NativeReturn,
        NativeMisbehaves, NativeFails, AtNative, Normal
  <2>5. CASE Complete \/ EndSlice \/ TrapRaise \/ UNCHANGED vars
    BY <2>5 DEF Complete, EndSlice, TrapRaise, vars
  <2>6. CASE Host
    BY <2>1, <2>6
    DEF Host, Answer, Run, Resolve, Reject, ResolveImport, Configure, RequestCancel,
        RequestPause
  <2> QED
    BY <1>1, <2>3, <2>4, <2>5, <2>6 DEF Next, Engine, Ended
<1>2. TypeOK /\ NestInv /\ ControlInv /\ [Next]_vars => [Seen]_vars
  BY <1>1
<1> QED
  BY <1>2, ControlCorrect, PTL DEF Spec, RaiseSeenFirst

\* Only the outer loop stops for a step, and where should_pause says.
LEMMA StepStops ==
  ASSUME TypeOK, NestInv, [Next]_vars, state = "Running", state' = "Paused",
         outcome' = "Step"
  PROVE  /\ \E q : ShouldPause(Len(frames'), q)
         /\ directive' = directive /\ Len(frames') \in Nat
<1>1. ASSUME NEW depth, NEW r, NEW s, Decide(depth, r, s)
      PROVE  (\E q : ShouldPause(depth, q)) \/ state' = state
  BY <1>1, Zenon DEF Decide, Stop, KeepRunning
<1>2. ASSUME NEW fs, NEW kind, NEW s, SafePoint(fs, kind, s)
      PROVE  frames' = fs /\ directive' = directive /\ \E q : ShouldPause(Len(fs), q)
  <2>1. frames' = fs /\ directive' = directive /\ state' # state
    BY <1>2 DEF SafePoint, command
  <2>2. Decide(Len(fs), kind \in {"Return", "Settle"}, s)
    BY <1>2, <2>1 DEF SafePoint, Fault, KeepRunning
  <2> QED
    BY <1>1, <2>1, <2>2
<1>3. Len(frames') \in Nat
  BY TypeStep, LenProperties DEF TypeOK
<1>4. CASE Execute
  <2>1. CASE FinePoint
    <3>1. Decide(Depth, FALSE, NoStmt) /\ Len(frames') = Depth /\ directive' = directive
      BY <2>1 DEF FinePoint, command, Depth
    <3>2. \E q : ShouldPause(Depth, q)
      BY <1>1, <3>1
    <3> QED
      BY <1>3, <3>1, <3>2, Zenon
  <2>2. CASE FallOff
    BY <1>2, <2>2 DEF FallOff
  <2> QED
    BY <1>2, <1>4, <2>1, <2>2
    DEF Execute, Statement, Enter, RaiseHere, Exit, Charge, Refuse, Suspend, Fault
<1>5. CASE Unwind
  BY <1>2, <1>5, StepFacts
  DEF Unwind, Catch, DiscardForRaise, Escape, DiscardForCancel, TornDown, DiscardForExit,
      Settle, ReturnNothing, Discard, Fault
<1>6. ~Native
  BY DEF Native, NativeCall, InvokeBlock, InvokeTooDeep, InvokeRaises, NativeReturn,
         NativeMisbehaves, NativeFails, Fault
<1>7. ~Host
  BY DEF Host, Answer, Run, Resolve, Reject, ResolveImport, Resume, StartDrive, Configure,
         RequestCancel, RequestPause
<1>8. ~Complete /\ ~EndSlice /\ ~TrapRaise /\ ~UNCHANGED vars
  BY DEF Complete, EndSlice, TrapRaise, Stop, vars
<1> QED
  BY <1>3, <1>4, <1>5, <1>6, <1>7, <1>8 DEF Next, Engine, Ended

\* However the drive was interrupted, a step over or out stops only where the
\* host's command says, unless the step was given at a slice end in place of
\* another command.
THEOREM StepsAreHonest == Spec => StepHonest
<1>1. ASSUME TypeOK, NestInv, ControlInv, [Next]_vars, ~switched PROVE StopsWhereGiven
  <2> SUFFICES ASSUME state = "Running", state' = "Paused", outcome' = "Step",
                      directive \in DepthAnchored
               PROVE  /\ directive = "StepOver" => Len(frames') <= issued
                      /\ directive = "StepOut" => Len(frames') < issued
    BY DEF DepthAnchored, StopsWhereGiven
  <2>1. anchor = issued
    BY <1>1 DEF ControlInv
  <2>2. PICK q : ShouldPause(Len(frames'), q)
    BY <1>1, StepStops
  <2> QED
    BY <2>1, <2>2 DEF ShouldPause
<1>2. TypeOK /\ NestInv /\ ControlInv /\ [Next]_vars => [~switched => StopsWhereGiven]_vars
  BY <1>1
<1> QED
  BY <1>2, ControlCorrect, PTL DEF Spec, StepHonest

----------------------------------------------------------------------------
(* The drive implements the lifecycle.                                      *)

LEMMA SpendBounded ==
  ASSUME TypeOK, Spend
  PROVE  slice' # NoFuel <=> slice # NoFuel
  BY DriveAssumption DEF Spend, TypeOK, Fuel

LEMMA SafePointPromise ==
  ASSUME TypeOK, state = "Running", NEW fs, NEW kind, NEW s, SafePoint(fs, kind, s)
  PROVE  [Promise!Next]_Promise!vars
<1>1. /\ UNCHANGED <<directive, cancel>>
      /\ (slice' # NoFuel) = (slice # NoFuel)
  BY SpendBounded DEF SafePoint, command, fuel
<1>2. CASE UNCHANGED <<state, outcome, pause>>
  BY <1>1, <1>2 DEF Promise!vars
<1>3. CASE \E o \in {"StepBudget", "Heap", "StackDepth"} : Fault(o) /\ UNCHANGED pause
  BY <1>1, <1>3 DEF Fault, Promise!Next, Promise!Fault, Promise!Stop, Promise!Faults
<1>4. CASE Decide(Len(fs), kind \in {"Return", "Settle"}, s) /\ ~UNCHANGED <<state, outcome, pause>>
  <2>1. CASE pause /\ Stop("HostPause") /\ pause' = FALSE
    BY <1>1, <2>1 DEF Stop, Promise!Next, Promise!HonourPause, Promise!Stop
  <2>2. CASE Stop("Breakpoint") /\ directive # "RunToCompletion" /\ UNCHANGED pause
    BY <1>1, <2>2 DEF Stop, Promise!Next, Promise!Yield, Promise!Stop
  <2>3. CASE Stop("Step") /\ directive \in Steps /\ UNCHANGED pause
    BY <1>1, <2>3 DEF Stop, Steps, Promise!Next, Promise!Yield, Promise!Stop, Promise!Steps
  <2> QED
    BY <1>4, <2>1, <2>2, <2>3 DEF Decide, KeepRunning, AtBreakpoint, ShouldPause, Steps
<1> QED
  BY <1>2, <1>3, <1>4 DEF SafePoint, KeepRunning

LEMMA PromiseStep ==
  ASSUME TypeOK, NestInv, ControlInv, [Next]_vars
  PROVE  [Promise!Next]_Promise!vars
<1> DEFINE Goal == [Promise!Next]_Promise!vars
<1>1. CASE UNCHANGED <<state, outcome, directive, slice, cancel, pause>>
  BY <1>1 DEF Promise!vars
<1>2. ASSUME NEW o \in {"StepBudget", "Heap", "StackDepth", "OpResult", "NestedSuspend",
                        "Internal"},
             state = "Running", Fault(o), UNCHANGED <<directive, slice, cancel, pause>>
      PROVE  Goal
  BY <1>2 DEF Fault, Promise!Next, Promise!Fault, Promise!Stop, Promise!Faults
<1>3. CASE Complete
  BY <1>3 DEF Complete, fuel, command, control, Promise!Next, Promise!Complete, Promise!Stop
<1>4. CASE EndSlice
  <2>1. slice # NoFuel
    BY <1>4, DriveAssumption DEF EndSlice, ControlInv
  <2> QED
    BY <1>4, <2>1 DEF EndSlice, Stop, fuel, control, Promise!Next, Promise!Yield, Promise!Stop
<1>5. CASE TrapRaise
  BY <1>5 DEF TrapRaise, TrapDue, Stop, fuel, command, control, Promise!Next, Promise!Yield,
              Promise!Stop
<1>6. CASE Execute
  <2>1. CASE FinePoint
    <3>1. Decide(Depth, FALSE, NoStmt) /\ state = "Running"
          /\ UNCHANGED <<directive, slice, cancel>>
      BY <2>1, NormalFacts DEF FinePoint, fuel, command
    <3>2. CASE UNCHANGED <<state, outcome, pause>>
      BY <1>1, <3>1, <3>2
    <3>3. CASE pause /\ Stop("HostPause") /\ pause' = FALSE
      BY <3>1, <3>3 DEF Stop, Promise!Next, Promise!HonourPause, Promise!Stop
    <3>4. CASE Stop("Breakpoint") /\ directive # "RunToCompletion" /\ UNCHANGED pause
      BY <3>1, <3>4 DEF Stop, Promise!Next, Promise!Yield, Promise!Stop
    <3>5. CASE Stop("Step") /\ directive \in Steps /\ UNCHANGED pause
      BY <3>1, <3>5 DEF Stop, Steps, Promise!Next, Promise!Yield, Promise!Stop, Promise!Steps
    <3> QED
      BY <3>1, <3>2, <3>3, <3>4, <3>5
      DEF Decide, KeepRunning, AtBreakpoint, ShouldPause, Steps
  <2>2. CASE FallOff
    BY <1>1, <2>2, NormalFacts, SafePointPromise DEF FallOff, fuel, command, control
  <2>3. CASE RaiseHere \/ Exit
    BY <1>1, <2>3 DEF RaiseHere, Exit, fuel, command, control
  <2>4. ASSUME NEW s, NEW kind, Statement(s) \/ Enter(kind) PROVE Goal
    BY <2>4, NormalFacts, SafePointPromise DEF Statement, Enter
  <2>5. ASSUME NEW cost, Charge(cost) PROVE Goal
    BY <1>1, <2>5 DEF Charge, command, control
  <2>6. ASSUME NEW limit \in {"Heap", "OpResult", "StepBudget"}, Refuse(limit) PROVE Goal
    BY <1>2, <2>6, NormalFacts DEF Refuse, fuel, command, control
  <2>7. ASSUME NEW kind \in {"Capability", "Import"}, Suspend(kind) PROVE Goal
    BY <1>2, <2>7, NormalFacts
    DEF Suspend, fuel, control, Promise!Next, Promise!Suspend, Promise!Suspensions, Promise!Stop
  <2> QED
    BY <1>6, <2>1, <2>2, <2>3, <2>4, <2>5, <2>6, <2>7 DEF Execute
<1>7. CASE Unwind
  <2>1. CASE Settle
    BY <2>1, StepFacts, SafePointPromise DEF Settle, Unwinding
  <2>2. CASE Escape
    BY <2>2, StepFacts
    DEF Escape, Unwinding, fuel, command, control, Promise!Next, Promise!Uncaught, Promise!Stop
  <2>3. CASE TornDown
    BY <2>3, StepFacts
    DEF TornDown, Unwinding, Fault, fuel, command, control, ControlInv, Promise!Next,
        Promise!Fault, Promise!Faults, Promise!Stop
  <2> QED
    BY <1>1, <1>7, <2>1, <2>2, <2>3
    DEF Unwind, Catch, DiscardForRaise, DiscardForCancel, DiscardForExit, Discard,
        ReturnNothing, fuel, command, control
<1>8. CASE Native
  <2>1. CASE NativeCall \/ InvokeBlock \/ InvokeRaises \/ NativeReturn
    BY <1>1, <2>1
    DEF NativeCall, InvokeBlock, InvokeRaises, NativeReturn, fuel, command, control
  <2>2. CASE InvokeTooDeep \/ NativeMisbehaves \/ NativeFails
    BY <1>2, <2>2
    DEF InvokeTooDeep, NativeMisbehaves, NativeFails, AtNative, fuel, command, control
  <2> QED
    BY <1>8, <2>1, <2>2 DEF Native
<1>9. CASE Host
  <2>1. ASSUME NEW d, NEW f, StartDrive(d, f),
               \/ state \in {"Ready", "Paused"} /\ d \in Directives
               \/ state = "Suspended" /\ d = directive
        PROVE  Goal
    <3>1. (slice' # NoFuel) \in BOOLEAN
      OBVIOUS
    <3> QED
      BY <2>1, <3>1 DEF StartDrive, control, Promise!Next, Promise!Begin
  <2>2. ASSUME NEW d \in Directives, NEW f, Run(d, f) PROVE Goal
    BY <2>1, <2>2 DEF Run
  <2>3. ASSUME NEW f, Resolve(f) \/ Reject(f) \/ ResolveImport(f) PROVE Goal
    BY <2>1, <2>3 DEF Resolve, Reject, ResolveImport, Resume
  <2>4. CASE Configure
    BY <1>1, <2>4 DEF Configure, fuel, command
  <2>5. CASE RequestCancel
    BY <2>5 DEF RequestCancel, fuel, command, Promise!Next, Promise!RequestCancel
  <2>6. CASE RequestPause
    BY <2>6 DEF RequestPause, fuel, command, Promise!Next, Promise!RequestPause
  <2> QED
    BY <1>9, <2>2, <2>3, <2>4, <2>5, <2>6 DEF Host, Answer
<1>10. CASE UNCHANGED vars
  BY <1>1, <1>10 DEF vars
<1> QED
  BY <1>3, <1>4, <1>5, <1>6, <1>7, <1>8, <1>9, <1>10 DEF Next, Engine, Ended

\* Every behaviour of the drive is one the lifecycle allows: outcomes match
\* states, a slice end needs fuel, a cancellation a request, a host pause one too.
THEOREM DriveImplementsLifecycle == Spec => KeepsPromise
<1>1. Init => Promise!Init
  BY DEF Init, Promise!Init
<1>2. TypeOK /\ NestInv /\ ControlInv /\ [Next]_vars => [Promise!Next]_Promise!vars
  BY PromiseStep
<1> QED
  BY <1>1, <1>2, ControlCorrect, PTL DEF Spec, KeepsPromise, Promise!Spec
=============================================================================
