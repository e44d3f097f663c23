----------------------------- MODULE Lifecycle -----------------------------
(* What the engine promises the host about the life of one instance: which  *)
(* outcome a drive call may report, from which state, under which directive *)
(* and after which host request.  Nothing here says how a program runs; the *)
(* module Drive is shown to implement this specification.                   *)

CONSTANTS Directives        \* the directives the host uses

Steps == {"Step", "StepInto", "StepOver", "StepOut"}
PlainDirectives == {"RunToCompletion", "Continue"}

States == {"Ready", "Running", "Paused", "Suspended",
           "Completed", "Raised", "Faulted"}
Terminal == {"Completed", "Raised", "Faulted"}
PauseReasons == {"SliceEnd", "RaiseTrap", "HostPause", "Breakpoint", "Step"}
Suspensions == {"Capability", "Import"}
Faults == {"StepBudget", "Heap", "StackDepth", "OpResult",
           "Cancelled", "NestedSuspend", "Internal"}
Outcomes == PauseReasons \cup Suspensions \cup Faults
              \cup {"None", "Completed", "Raised"}

VARIABLES state,      \* Instance::state()
          outcome,    \* what the last drive call returned; "None" inside one
          directive,  \* the directive in force
          bounded,    \* whether the drive call in force was given slice fuel
          cancel,     \* a cancellation has been requested
          pause       \* a host pause has been requested and not yet honoured

vars == <<state, outcome, directive, bounded, cancel, pause>>

Init ==
  /\ state = "Ready" /\ outcome = "None"
  /\ directive = "RunToCompletion" /\ bounded = FALSE
  /\ cancel = FALSE /\ pause = FALSE

\* A drive call is accepted only by a stopped, live instance; one that resumes
\* a suspension runs under the directive that was in force.
Begin ==
  /\ \/ state \in {"Ready", "Paused"} /\ directive' \in Directives
     \/ state = "Suspended" /\ directive' = directive
  /\ state' = "Running" /\ outcome' = "None"
  /\ bounded' \in BOOLEAN
  /\ UNCHANGED <<cancel, pause>>

Stop(s, o) ==
  /\ state = "Running"
  /\ state' = s /\ outcome' = o
  /\ UNCHANGED <<directive, bounded, cancel>>

Complete == Stop("Completed", "Completed") /\ UNCHANGED pause
Uncaught == Stop("Raised", "Raised") /\ UNCHANGED pause
Suspend == (\E o \in Suspensions : Stop("Suspended", o)) /\ UNCHANGED pause

\* A slice end is reported only by a call that was given fuel, a breakpoint or
\* raise trap never to a run-to-completion, a step stop only to a step.
Yield == /\ \/ Stop("Paused", "SliceEnd") /\ bounded
            \/ Stop("Paused", "RaiseTrap") /\ directive # "RunToCompletion"
            \/ Stop("Paused", "Breakpoint") /\ directive # "RunToCompletion"
            \/ Stop("Paused", "Step") /\ directive \in Steps
         /\ UNCHANGED pause

\* A host pause answers one request and uses it up.
HonourPause == pause /\ Stop("Paused", "HostPause") /\ pause' = FALSE

Fault == /\ \E o \in Faults : Stop("Faulted", o) /\ (o = "Cancelled" => cancel)
         /\ UNCHANGED pause

RequestCancel ==
  /\ cancel' = TRUE
  /\ UNCHANGED <<state, outcome, directive, bounded, pause>>

RequestPause ==
  /\ pause' = TRUE
  /\ UNCHANGED <<state, outcome, directive, bounded, cancel>>

Next == \/ Begin \/ Complete \/ Uncaught \/ Suspend \/ Yield \/ HonourPause
        \/ Fault \/ RequestCancel \/ RequestPause

Spec == Init /\ [][Next]_vars
=============================================================================
