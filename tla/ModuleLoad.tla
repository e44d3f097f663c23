----------------------------- MODULE ModuleLoad -----------------------------
(* Module loading: import targets (machine/modload.rs), the answers to an   *)
(* import request (machine/import.rs), and the two places where a frame that *)
(* goes settles the load state of its module (step.rs, unwind/cleanup.rs).  *)
(*                                                                          *)
(* Imports stand at module level only, so while a module imports, the stack *)
(* holds nothing but module top-level frames; calls, which come and go above *)
(* them, are left out.  Names are too: a member either is exported or not.  *)
(* An import statement of several targets is as many Imports in a row; a     *)
(* breakpoint stands for one at a line that has a statement at or after it.  *)
EXTENDS Integers, Sequences, SequencesExt

CONSTANTS
  Paths,       \* dotted paths a program may name, as sequences of segments
  Canonicals,  \* canonical ids
  Entry,       \* canonical id the entry module was loaded under
  Preloaded,   \* the native modules and the prelude: <<[path, canonical], ...>>
  Missing,     \* the host's answer NotFound
  Locate,      \* Locate[c][p]: what the host may answer module c's import of p
  Values,      \* exception values
  Breakable,   \* bound: canonical ids the host sets breakpoints for
  NoValue, NoPath, NoTarget

Targets == [path : Paths, wildcard : BOOLEAN]

ASSUME LoadAssumption ==
  /\ Paths \subseteq Seq(STRING) /\ <<>> \notin Paths
  /\ \A p \in Paths : Len(p) > 1 => Front(p) \in Paths
  /\ Entry \in Canonicals /\ Missing \notin Canonicals
  /\ Preloaded \in Seq([path : Paths, canonical : Canonicals \ {Entry}])
  /\ \A i, j \in 1 .. Len(Preloaded) : i # j =>
       /\ Preloaded[i].path # Preloaded[j].path
       /\ Preloaded[i].canonical # Preloaded[j].canonical
  /\ Locate \in [Canonicals -> [Paths -> SUBSET (Canonicals \cup {Missing})]]
  /\ NoValue \notin Values /\ NoPath \notin Paths /\ NoTarget \notin Targets

VARIABLES
  state,      \* "Running", "Suspended" on an import, or a terminal state
  table,      \* the module table with the load states, in load order
  byPath,     \* ModuleLoad::by_path, as pairs
  notModules, \* ModuleLoad::not_modules
  stack,      \* module frames, each with the import target it is processing
  pending,    \* the path of the parked import request
  raised,     \* the exception in flight, and later the one that escaped
  uses,       \* what has been bound: importer, path and module
  breaks      \* breakpoints by canonical id: unset, pending or resolved

vars == <<state, table, byPath, notModules, stack, pending, raised, uses, breaks>>
caches == <<byPath, notModules>>

Live == state \in {"Running", "Suspended"}
Source == 1 + Len(Preloaded)
Module(canonical, load) == [canonical |-> canonical, load |-> load, value |-> NoValue]
Frame(module) == [module |-> module, target |-> NoTarget]
Top == Last(stack)
Quiet == state = "Running" /\ raised = NoValue

Init ==
  /\ state = "Running"
  /\ table = <<Module(Entry, "Loading")>>
       \o [i \in 1 .. Len(Preloaded) |-> Module(Preloaded[i].canonical, "Loaded")]
  /\ byPath = {<<Preloaded[i].path, i + 1>> : i \in 1 .. Len(Preloaded)}
  /\ notModules = {}
  /\ stack = <<Frame(1)>>
  /\ pending = NoPath /\ raised = NoValue /\ uses = {}
  /\ breaks = [c \in Canonicals |-> "Unset"]

----------------------------------------------------------------------------
(* Processing an import target.                                             *)

Knows(p) == \E i \in 1 .. Len(table) : <<p, i>> \in byPath
ByPath(p) == CHOOSE i \in 1 .. Len(table) : <<p, i>> \in byPath

Settle == stack' = Append(Front(stack), Frame(Top.module))

\* suspend_for: the target stays on the frame, to be tried again.
Ask(p) ==
  /\ state' = "Suspended" /\ pending' = p
  /\ UNCHANGED <<table, caches, stack, raised, uses, breaks>>

Raise ==
  /\ raised' \in Values
  /\ UNCHANGED <<state, table, caches, stack, pending, uses, breaks>>

Bind(p, i) ==
  /\ Settle
  /\ uses' = uses \cup {[importer |-> Top.module, path |-> p, module |-> i]}
  /\ UNCHANGED <<state, table, caches, pending, raised, breaks>>

\* Defect: a module that is still loading is handed out.
ResolveEarly(p, i, member) ==
  \/ table[i].load # "Failed" /\ Bind(p, i)
  \/ table[i].load = "Loaded" /\ member /\ Raise
  \/ /\ table[i].load = "Failed"
     /\ raised' = table[i].value
     /\ UNCHANGED <<state, table, caches, stack, pending, uses, breaks>>

\* resolve_loaded: bind a loaded module, or raise -- a cycle while it loads, the
\* retained exception once it has failed, a miss for a member it does not export.
ResolveLoaded(p, i, member) ==
  \/ table[i].load = "Loaded" /\ Bind(p, i)
  \/ table[i].load = "Loaded" /\ member /\ Raise
  \/ /\ table[i].load # "Loaded"
     /\ raised' \in IF table[i].load = "Failed" THEN {table[i].value} ELSE Values
     /\ UNCHANGED <<state, table, caches, stack, pending, uses, breaks>>

\* step_import_targets, for the target on the top frame: the whole path as a
\* module; for a path known to be none, the member of its prefix; else ask.
Process ==
  /\ Quiet /\ Top.target # NoTarget
  /\ LET p == Top.target.path IN
     \/ Knows(p) /\ ResolveLoaded(p, ByPath(p), FALSE)
     \/ /\ ~Knows(p) /\ Len(p) > 1 /\ p \in notModules
        /\ \/ Top.target.wildcard /\ Raise
           \/ /\ ~Top.target.wildcard /\ Knows(Front(p))
              /\ ResolveLoaded(Front(p), ByPath(Front(p)), TRUE)
           \/ ~Top.target.wildcard /\ ~Knows(Front(p)) /\ Ask(Front(p))
     \/ ~Knows(p) /\ ~(Len(p) > 1 /\ p \in notModules) /\ Ask(p)

----------------------------------------------------------------------------
(* The body of a module.                                                    *)

Import(t) ==
  /\ Quiet /\ Top.target = NoTarget
  /\ stack' = Append(Front(stack), [Top EXCEPT !.target = t])
  /\ UNCHANGED <<state, table, caches, pending, raised, uses, breaks>>

RaiseInBody == Quiet /\ Top.target = NoTarget /\ Raise

\* The top level completes: of the entry module, and the program is done.
Finish ==
  /\ Quiet /\ Top.target = NoTarget
  /\ stack' = Front(stack)
  /\ IF Len(stack) = 1
       THEN state' = "Completed" /\ UNCHANGED table
       ELSE table' = [table EXCEPT ![Top.module].load = "Loaded"] /\ UNCHANGED state
  /\ UNCHANGED <<caches, pending, raised, uses, breaks>>

\* raise_unwind abandons a module frame: its load has failed with the exception.
Abandon ==
  /\ state = "Running" /\ raised # NoValue
  /\ stack' = Front(stack)
  /\ IF Len(stack) = 1
       THEN state' = "Raised" /\ UNCHANGED table
       ELSE /\ table' = [table EXCEPT ![Top.module].load = "Failed",
                                      ![Top.module].value = raised]
            /\ UNCHANGED state
  /\ UNCHANGED <<caches, pending, raised, uses, breaks>>

----------------------------------------------------------------------------
(* The host.                                                                *)

Answer ==
  /\ state = "Suspended"
  /\ state' = "Running" /\ pending' = NoPath

Located(c) == c \in Locate[table[Top.module].canonical][pending]

\* A canonical id already in the table: the path becomes another name of it.
Alias(c) ==
  /\ Answer /\ Located(c)
  /\ \E i \in 1 .. Len(table) :
       table[i].canonical = c /\ byPath' = byPath \cup {<<pending, i>>}
  /\ UNCHANGED <<table, notModules, stack, raised, uses, breaks>>

\* ModuleLoad::begin, for a canonical id that is not in the table.
Register(c, load, value) ==
  /\ \A i \in 1 .. Len(table) : table[i].canonical # c
  /\ table' = Append(table, [canonical |-> c, load |-> load, value |-> value])
  /\ byPath' = byPath \cup {<<pending, Len(table) + 1>>}

\* The source of a new module: its top level goes on the importer's.
Load(c) ==
  /\ Answer /\ Located(c)
  /\ Register(c, "Loading", NoValue)
  /\ stack' = Append(stack, Frame(Len(table) + 1))
  /\ breaks' = [breaks EXCEPT ![c] = IF @ = "Unset" THEN @ ELSE "Resolved"]
  /\ UNCHANGED <<notModules, raised, uses>>

\* Defect: the failed module is recorded and nothing raised.
RejectQuietly(c) ==
  /\ Answer /\ Located(c)
  /\ \E v \in Values : Register(c, "Failed", v)
  /\ UNCHANGED <<notModules, stack, raised, uses, breaks>>

\* enter_failed_module: the source has static errors.
Reject(c) ==
  /\ Answer /\ Located(c)
  /\ raised' \in Values
  /\ Register(c, "Failed", raised')
  /\ UNCHANGED <<notModules, stack, uses, breaks>>

\* Defect: a path without a prefix is noted, and tried again.
NotFoundRetries ==
  /\ Answer /\ Located(Missing)
  /\ notModules' = notModules \cup {pending}
  /\ UNCHANGED <<table, byPath, stack, raised, uses, breaks>>

\* resolve_import_not_found: a path with a prefix may still name a member.
NotFound ==
  /\ Answer /\ Located(Missing)
  /\ \/ /\ Len(pending) > 1
        /\ notModules' = notModules \cup {pending} /\ UNCHANGED raised
     \/ /\ Len(pending) = 1
        /\ raised' \in Values /\ UNCHANGED notModules
  /\ UNCHANGED <<table, byPath, stack, uses, breaks>>

\* raise_import_value.
HostRaise ==
  /\ Answer /\ raised' \in Values
  /\ UNCHANGED <<table, caches, stack, uses, breaks>>

\* set_breakpoint; the modules of Preloaded have no statement to stop at.
SetBreakpoint(c) ==
  /\ Live /\ c \in Breakable /\ breaks[c] = "Unset"
  /\ \A i \in 1 .. Len(Preloaded) : Preloaded[i].canonical # c
  /\ breaks' = [breaks EXCEPT ![c] =
       IF \E i \in 1 .. Len(table) : table[i].canonical = c
       THEN "Resolved" ELSE "Pending"]
  /\ UNCHANGED <<state, table, caches, stack, pending, raised, uses>>

ClearBreakpoint(c) ==
  /\ Live /\ breaks[c] # "Unset"
  /\ breaks' = [breaks EXCEPT ![c] = "Unset"]
  /\ UNCHANGED <<state, table, caches, stack, pending, raised, uses>>

\* A cancellation or a limit ends the instance wherever it is; its frames are of no
\* consequence then.
Fault ==
  /\ Live /\ state' = "Faulted" /\ pending' = NoPath
  /\ UNCHANGED <<table, caches, stack, raised, uses, breaks>>

Ended == ~Live /\ UNCHANGED vars

----------------------------------------------------------------------------
Body == (\E t \in Targets : Import(t)) \/ RaiseInBody \/ Finish
Respond == \/ \E c \in Canonicals : Alias(c) \/ Load(c) \/ Reject(c)
           \/ NotFound \/ HostRaise
Next ==
  \/ Process \/ Body \/ Abandon \/ Respond
  \/ \E c \in Canonicals : SetBreakpoint(c) \/ ClearBreakpoint(c)
  \/ Fault \/ Ended

Spec == Init /\ [][Next]_vars

\* The engine runs, the host answers, and a module's body is finite.
FairSpec == /\ Spec /\ WF_vars(Process) /\ WF_vars(Abandon) /\ WF_vars(Respond)
            /\ SF_vars(Finish)

----------------------------------------------------------------------------
(* Safety.                                                                  *)

Ids == 1 .. Len(table)

TypeOK ==
  /\ state \in {"Running", "Suspended", "Completed", "Raised", "Faulted"}
  /\ table \in Seq([canonical : Canonicals, load : {"Loading", "Loaded", "Failed"},
                    value : Values \cup {NoValue}])
  /\ byPath \subseteq Paths \X Ids /\ notModules \subseteq Paths
  /\ stack \in Seq([module : Ids, target : Targets \cup {NoTarget}])
  /\ pending \in Paths \cup {NoPath} /\ raised \in Values \cup {NoValue}
  /\ uses \subseteq [importer : Ids, path : Paths, module : Ids]
  /\ breaks \in [Canonicals -> {"Unset", "Pending", "Resolved"}]

\* A module is loading exactly while its top-level frame is on the stack, so a
\* circular import is reported exactly for a cycle (modload.rs LoadState).
LoadingIsOnStack ==
  Live => \A i \in Ids :
    table[i].load = "Loading" <=> \E j \in 1 .. Len(stack) : stack[j].module = i

\* A path and a canonical id name one module each, for good (L 11.3): no module
\* is loaded twice, whatever names reach it.
OneModulePerName ==
  /\ \A i, j \in Ids : table[i].canonical = table[j].canonical => i = j
  /\ \A p \in Paths, i, j \in Ids : <<p, i>> \in byPath /\ <<p, j>> \in byPath => i = j

Dependencies(i) == {u.module : u \in {v \in uses : v.importer = i}}

\* What is bound has run its top level to the end, and no module has come to
\* depend on itself, so modules are initialised in order of dependency.
InitialisedFirst ==
  /\ \A u \in uses : table[u.module].load = "Loaded"
  /\ \A S \in SUBSET Ids : S # {} => \E i \in S : Dependencies(i) \cap S = {}

\* A failed load ends the program with the exception the module retains: nothing
\* runs on after it (modload.rs LoadState::Failed).
FailureIsFinal ==
  \A i \in Ids : table[i].load = "Failed" =>
    /\ table[i].value = raised /\ raised # NoValue
    /\ state \in {"Running", "Raised", "Faulted"}

\* A breakpoint set before its module was loaded has been resolved by the time
\* the module's first statement can run (breakpoint.rs reresolve_breakpoints).
BreakpointsFollow ==
  \A j \in 1 .. Len(stack) : breaks[table[stack[j].module].canonical] # "Pending"

\* What the table, the caches and the stack say of each other: see LoadingIsOnStack,
\* OneModulePerName, InitialisedFirst and BreakpointsFollow.
RegistrySound ==
  /\ TypeOK /\ LoadingIsOnStack /\ OneModulePerName
  /\ InitialisedFirst /\ BreakpointsFollow

----------------------------------------------------------------------------
(* Liveness, stated for the first modules of the table: the preloaded ones,  *)
(* the entry module and two more.                                           *)

Importing(i) ==
  Live /\ \E j \in 1 .. Len(stack) : stack[j].module = i /\ stack[j].target # NoTarget

\* The target on top is a member of a path, and the host has said of both that
\* they are no module.
AskedAgain ==
  /\ Live /\ stack # <<>> /\ Top.target # NoTarget /\ ~Top.target.wildcard
  /\ Len(Top.target.path) > 2 /\ {Top.target.path, Front(Top.target.path)} \subseteq notModules

Settles(i) == i \in Ids /\ Importing(i) ~> ~(i \in Ids /\ Importing(i))
FirstModules == 1 .. (Len(Preloaded) + 3)

\* Every import is settled: it binds, or the program ends (L 11.3); unless the
\* host is asked for ever, and keeps denying it, for the prefix of a path of at
\* least three segments, both of which it has denied (modload.rs
\* step_import_targets asks whatever not_modules says of the prefix).
ImportsSettle == <>[]AskedAgain \/ \A i \in FirstModules : Settles(i)

\* A path that a host has denied is not asked for again: it is recorded "so a
\* later attempt at the same path takes the S-7 member fallback [...] instead of
\* re-suspending" (modload.rs 174-176), so every import is settled.
EveryImportSettles == \A i \in FirstModules : Settles(i)
=============================================================================
