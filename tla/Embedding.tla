----------------------------- MODULE Embedding -----------------------------
(* The C ABI around one instance (crates/doodle-capi): who owns a builder,  *)
(* a handle and a pending request; which pointer the host may follow while  *)
(* its own callbacks run inside a drive; and which stack a frame token      *)
(* stands for.                                                              *)
(*                                                                          *)
(* acts is the native call stack, the engine and the host taking turns on   *)
(* it: an entry point, the callback of a foreign function, the nested drive *)
(* of its block, a finalizer.  A call context is a local of the trampoline, *)
(* so its address is its place on that stack and a later call can reuse it. *)
(*                                                                          *)
(* What the engine does between two of these calls is left open: Drive,     *)
(* HandleTable and ModuleLoad model it.  A call that is refused, or that is *)
(* given a NULL where it stores a result, changes nothing and is left out   *)
(* unless the order of its checks matters.  A panic of the engine itself is *)
(* left out; one of a callback is a status other than Ok.                   *)
(*                                                                          *)
(* A call that is let in while the engine holds the instance makes a second *)
(* reference to it, which has no defined meaning: it is an action of its    *)
(* own, Alias, after which there is nothing left to model.                  *)
EXTENDS Integers, Sequences, FiniteSets, SequencesExt

CONSTANTS
  Builtins, Foreigns, \* names of built-ins and of host functions
  Generations, \* width of DoodleInstance::generation (2^32)
  MaxParams,   \* bound: parameters of a descriptor
  MaxHandles,  \* bound: handles minted
  MaxRefs,     \* bound: references the host keeps on one handle
  MaxRuns,     \* bound: calls that move the stack
  MaxActs      \* bound: depth of the native stack

Names == Builtins \cup Foreigns
Entries == {"drive", "import", "aux", "free"}
Builders == {"registry", "desc"}
NoCtx == 0

ASSUME EmbeddingAssumption ==
  /\ Builtins \cap Foreigns = {}
  /\ Generations \in Nat \ {0} /\ MaxParams \in Nat /\ MaxHandles \in Nat /\ MaxRefs \in Nat
  /\ MaxRuns \in Nat /\ MaxRuns < Generations /\ MaxActs \in Nat

VARIABLES
  boxes,      \* the builders allocated
  owns,       \* history: those the host has to free or hand over
  names,      \* names registered, in the registry or in the instance
  desc,       \* the descriptor being built
  phase,      \* "None" before a load, then Instance::state()
  frames,     \* history: which stack the engine holds; 0 that of an aux drive
  generation, \* DoodleInstance::generation
  tokens,     \* history: generations the host was given, with the stack meant
  pending,    \* DoodleInstance::{pending_args, pending_import, last_raised}
  handles,    \* of each handle minted: its count, and how it comes about
  acts,       \* the native stack
  inDrive,    \* IN_DRIVE
  currentCtx, \* CURRENT_CTX
  stash,      \* history: the contexts the host was ever given
  parked      \* an exit or a fault that waits for the foreign call to end

vars == <<boxes, owns, names, desc, phase, frames, generation, tokens, pending,
          handles, acts, inDrive, currentCtx, stash, parked>>
builders == <<boxes, owns, names, desc>>
instance == <<phase, frames, generation, pending>>
natives == <<acts, inDrive, currentCtx, stash, parked>>

ParamKinds == {"Required", "Default", "Block"}
NoDesc == [name |-> "", params |-> <<>>, callback |-> FALSE]
NothingPending == [args |-> <<>>, capability |-> FALSE, import |-> FALSE, raised |-> FALSE]
NoReply == 0

Host == "host"
Top == IF acts = <<>> THEN Host ELSE Last(acts).kind
HostRuns == Top \in {Host, "callback", "finalizer"}
EngineRuns == Top \in Entries \cup {"block"}
Loaded == phase \notin {"None", "Freed"}

\* di_mut and di_ref: refused while a drive that says so holds the instance.
PointerAccepted == ~inDrive

\* Where the host can use the pointer to the instance it kept.
PointerUsed == Loaded /\ HostRuns

\* A call through it that is let in while nothing holds the instance.
LetIn == PointerUsed /\ PointerAccepted /\ acts = <<>>

\* current_ctx: only the innermost context, compared by address.
CtxAccepted(p) == p = currentCtx

Init ==
  /\ boxes = {} /\ owns = {} /\ names = {} /\ desc = NoDesc
  /\ phase = "None" /\ frames = 1 /\ generation = 0 /\ tokens = {}
  /\ pending = NothingPending /\ handles = <<>>
  /\ acts = <<>> /\ inDrive = FALSE /\ currentCtx = NoCtx /\ stash = {}
  /\ parked = "None"

----------------------------------------------------------------------------
(* Handles.  Of each: refs is the count in the table; owed, history, how    *)
(* many of them the host must give back; leaked, history, those that a call *)
(* took from the host and nobody will.                                      *)

Ids == DOMAIN handles
Fresh == [refs |-> 1, owed |-> 1, leaked |-> 0]
Minted(n) == handles \o [i \in 1 .. n |-> Fresh]
Room(n) == Len(handles) + n <= MaxHandles

\* Bug: the handle is minted before the place to store it is checked.
MintThenStore(stored) ==
  /\ Room(1)
  /\ handles' = Append(handles, [Fresh EXCEPT !.owed = IF stored THEN 1 ELSE 0])

\* value.rs emit, inspect.rs minted: a handle is minted only to be stored.
Emit(stored) ==
  IF stored THEN Room(1) /\ handles' = Minted(1) ELSE UNCHANGED handles

Given(h) == handles[h].owed > 0
Stale(h) == handles[h].refs = 0
Release(h) == [handles EXCEPT ![h].refs = @ - 1, ![h].owed = @ - 1]
Retain(h) == [handles EXCEPT ![h].refs = @ + 1, ![h].owed = @ + 1]

\* The host hands h over, for the engine to release in its stead.
HandOver(hs, h) == IF hs[h].owed > 0 THEN [hs EXCEPT ![h].owed = @ - 1] ELSE hs
\* A handle that was handed over and is forgotten.
Leak(hs, h) ==
  IF h = NoReply \/ hs[h].refs = 0 THEN hs ELSE [hs EXCEPT ![h].leaked = @ + 1]
Consume(h) == [handles EXCEPT ![h].refs = @ - 1]

----------------------------------------------------------------------------
(* Builders and loading.                                                    *)

Building == phase = "None" /\ UNCHANGED <<instance, tokens, handles, natives>>

RegistryNew ==
  /\ Building /\ "registry" \notin boxes
  /\ boxes' = boxes \cup {"registry"} /\ owns' = owns \cup {"registry"}
  /\ names' = {} /\ UNCHANGED desc

RegistryFree ==
  /\ Building /\ "registry" \in owns
  /\ boxes' = boxes \ {"registry"} /\ owns' = owns \ {"registry"}
  /\ UNCHANGED <<names, desc>>

\* A name registers once.
AddBuiltin ==
  /\ Building /\ "registry" \in owns
  /\ \E n \in Builtins \ names : names' = names \cup {n}
  /\ UNCHANGED <<boxes, owns, desc>>

DescNew ==
  /\ Building /\ "desc" \notin boxes
  /\ \E n \in Foreigns : desc' = [NoDesc EXCEPT !.name = n]
  /\ boxes' = boxes \cup {"desc"} /\ owns' = owns \cup {"desc"}
  /\ UNCHANGED names

DescParam ==
  /\ Building /\ "desc" \in owns /\ Len(desc.params) < MaxParams
  /\ \E kind \in ParamKinds : desc' = [desc EXCEPT !.params = Append(@, kind)]
  /\ UNCHANGED <<boxes, owns, names>>

SetCallback ==
  /\ Building /\ "desc" \in owns
  /\ desc' = [desc EXCEPT !.callback = TRUE]
  /\ UNCHANGED <<boxes, owns, names>>

DescFree ==
  /\ Building /\ "desc" \in owns
  /\ boxes' = boxes \ {"desc"} /\ owns' = owns \ {"desc"}
  /\ desc' = NoDesc /\ UNCHANGED names

\* Bug: a NULL registry is refused before the descriptor is taken.
FreedIfRegistered(registry) == IF registry THEN boxes \ {"desc"} ELSE boxes

Freed(registry) == boxes \ {"desc"}

\* A function needs a callback; a name registers once.
Registered(registry) ==
  IF registry /\ desc.callback THEN names \cup {desc.name} ELSE names

\* The descriptor is consumed whatever becomes of it: a NULL registry, no
\* callback, or a name that is taken.
AddForeign ==
  /\ Building /\ "desc" \in owns
  /\ \E registry \in BOOLEAN :
       /\ registry => "registry" \in owns
       /\ boxes' = Freed(registry)
       /\ names' = Registered(registry)
  /\ owns' = owns \ {"desc"} /\ desc' = NoDesc

\* load_program: an instance, or none for a mismatched Unicode version or an
\* error of the parser or the resolver.
Programs == {"Ready", "None"}

\* The registry is taken before anything can fail, bad pointers and bad UTF-8
\* included, and moves into the instance or is dropped.
Load ==
  /\ phase = "None" /\ "registry" \in owns /\ "desc" \notin owns
  /\ boxes' = boxes \ {"registry"} /\ owns' = owns \ {"registry"}
  /\ phase' \in Programs /\ names' = IF phase' = "Ready" THEN names ELSE {}
  /\ UNCHANGED <<desc, frames, generation, pending, tokens, handles, natives>>

----------------------------------------------------------------------------
(* Entry points.                                                            *)

Enter(act) == acts' = Append(acts, act)
Leave == acts' = Front(acts)
Deep == Len(acts) < MaxActs

\* A drive may replace every frame there is, so the stack it leaves is another.
Moves == frames' = frames + 1 /\ frames <= MaxRuns


\* DriveScope::enter: drive_and_fill and resolve_and_fill mark the drive.
Scope(entry) == IF entry = "drive" THEN TRUE ELSE inDrive

Begin(entry) ==
  /\ LetIn /\ Deep
  /\ Enter([kind |-> entry, was |-> inDrive, frames |-> frames])
  /\ inDrive' = Scope(entry)
  /\ UNCHANGED <<builders, generation, tokens, pending, handles, currentCtx, stash, parked>>

Drive ==
  /\ phase \in {"Ready", "Paused"}
  /\ Begin("drive") /\ Moves /\ phase' = "Running"

\* doodle_resolve and doodle_resolve_raise borrow a handle, and a stale one is
\* refused.  They mark the drive; resolve_import_and_fill does not.
Resolve ==
  /\ phase = "Capability" /\ \E h \in Ids : ~Stale(h)
  /\ Begin("drive") /\ Moves /\ phase' = "Running"

ResolveImport ==
  /\ phase = "Import"
  /\ Begin("import") /\ Moves /\ phase' = "Running"

\* doodle_eval_to_string: on a stack of its own, whatever the phase.
Eval ==
  /\ \E h \in Ids : ~Stale(h)
  /\ Begin("aux") /\ frames' = 0 /\ UNCHANGED phase

\* doodle_free: the drop runs the finalizers that are left.
Free == Begin("free") /\ UNCHANGED <<phase, frames>>

\* doodle_drive_slice with no fuel yields before anything runs.
ZeroFuel ==
  /\ LetIn /\ phase \in {"Ready", "Paused"}
  /\ phase' \in {"Paused", "Completed"}
  /\ pending' = NothingPending
  /\ UNCHANGED <<builders, frames, generation, tokens, handles, natives>>

----------------------------------------------------------------------------
(* The outcome of a drive.                                                  *)

\* Bug: a resolve of an import leaves the generation alone.
BumpAfterDrive(entry) ==
  IF entry = "drive" THEN (generation + 1) % Generations ELSE generation

Bump(entry) == (generation + 1) % Generations

\* Bug: what was pending is kept until the next request replaces it.
Kept(p) == [p EXCEPT !.args = pending.args, !.capability = @ \/ pending.capability]

\* fill_outcome drops the earlier request before it stores the next.
Stored(p) == p

Requests(n) ==
  [NothingPending EXCEPT !.capability = TRUE,
                         !.args = [i \in 1 .. n |-> Len(handles) + i]]

\* What the accessors of a pending request answer (doodle_capability_arg,
\* doodle_import_path_segment, doodle_raised_kind and _message).
CapabilityArg(i) ==
  IF ~pending.capability THEN "Contract"
  ELSE IF i \in DOMAIN pending.args THEN "Ok" ELSE "OutOfBounds"
ImportSegment == IF pending.import THEN "Ok" ELSE "Contract"
Described == IF pending.raised THEN "Ok" ELSE "Contract"

\* How many handles an outcome mints: of a result, an argument, an exception.
Outcome(kind, n, p) ==
  /\ Room(n)
  /\ phase' = kind /\ handles' = Minted(n) /\ pending' = Stored(p)

EndDrive ==
  /\ Top \in {"drive", "import"}
  /\ inDrive' = Last(acts).was
  /\ generation' = Bump(Top)
  /\ \/ parked # "Fault" /\ \E n \in {0, 1} : Outcome("Completed", n, NothingPending)
     \/ parked # "Fault" /\ \E n \in {0, 1} : Outcome("Capability", n, Requests(n))
     \/ parked # "Fault"
        /\ Outcome("Import", 0, [NothingPending EXCEPT !.import = TRUE])
     \/ parked # "Fault" /\ Outcome("Paused", 0, NothingPending)
     \/ parked # "Fault"
        /\ Outcome("Raised", 1, [NothingPending EXCEPT !.raised = TRUE])
     \/ Outcome("Faulted", 0, NothingPending)
  /\ Leave /\ parked' = "None"
  /\ UNCHANGED <<builders, frames, tokens, currentCtx, stash>>

\* An aux drive puts the stack back; a rendering or a raise is minted.
EndEval ==
  /\ Top = "aux"
  /\ frames' = Last(acts).frames
  /\ Emit(TRUE) \/ UNCHANGED handles
  /\ Leave /\ parked' = "None"
  /\ UNCHANGED <<builders, phase, generation, tokens, pending, inDrive, currentCtx, stash>>

EndFree ==
  /\ Top = "free"
  /\ phase' = "Freed" /\ Leave
  /\ pending' = NothingPending /\ handles' = <<>> /\ tokens' = {}
  /\ UNCHANGED <<builders, frames, generation, inDrive, currentCtx, stash, parked>>

----------------------------------------------------------------------------
(* Callbacks.                                                               *)

\* The trampoline: the new context is current until it returns.
CallForeign ==
  /\ EngineRuns /\ Top # "free" /\ parked = "None" /\ Deep
  /\ names \cap Foreigns # {}
  /\ Enter([kind |-> "callback", previous |-> currentCtx, reply |-> NoReply, raises |-> FALSE])
  /\ currentCtx' = Len(acts) + 1 /\ stash' = stash \cup {Len(acts) + 1}
  /\ UNCHANGED <<builders, instance, tokens, handles, inDrive, parked>>

\* A collection reclaims a foreign value.
FireFinalizer ==
  /\ EngineRuns /\ Deep /\ Enter([kind |-> "finalizer"])
  /\ UNCHANGED <<builders, instance, tokens, handles, inDrive, currentCtx, stash, parked>>

ReturnFinalizer ==
  /\ Top = "finalizer" /\ Leave
  /\ UNCHANGED <<builders, instance, tokens, handles, inDrive, currentCtx, stash, parked>>

\* Bug: the context of the caller is forgotten on return.
ForgetPrevious(act) == NoCtx

Previous(act) == act.previous

\* What the callback replied counts only with an Ok status, and when no fault
\* and no exit waits; otherwise the handle it gave is never released.
Reply(act, ok) ==
  LET h == act.reply IN
  \/ ~ok /\ parked' = "Fault" /\ handles' = Leak(handles, h)
  \/ ok /\ parked = "Fault" /\ handles' = Leak(handles, h) /\ UNCHANGED parked
  \/ ok /\ parked = "Exit" /\ h # NoReply
     /\ parked' = "Fault" /\ handles' = Leak(handles, h)
  \/ ok /\ parked = "Exit" /\ h = NoReply
     /\ parked' \in {"None", "Exit"} /\ UNCHANGED handles
  \/ ok /\ parked = "None" /\ h = NoReply /\ UNCHANGED <<parked, handles>>
  \/ ok /\ parked = "None" /\ h # NoReply /\ Stale(h)
     /\ parked' = "Fault" /\ UNCHANGED handles
  \/ ok /\ parked = "None" /\ h # NoReply /\ ~Stale(h)
     /\ handles' = Consume(h) /\ parked' = IF act.raises THEN "Exit" ELSE "None"

ReturnCallback ==
  /\ Top = "callback"
  /\ currentCtx' = Previous(Last(acts))
  /\ \E ok \in BOOLEAN : Reply(Last(acts), ok)
  /\ Leave
  /\ UNCHANGED <<builders, instance, tokens, inDrive, stash>>

----------------------------------------------------------------------------
(* Through a context.  Every call of this kind asks for the innermost one.  *)

InCallback ==
  /\ Top = "callback" /\ \E p \in stash : CtxAccepted(p)
  /\ UNCHANGED <<builders, instance, tokens, inDrive, currentCtx, stash>>

CtxMake ==
  /\ InCallback /\ \E stored \in BOOLEAN : Emit(stored)
  /\ UNCHANGED <<acts, parked>>

\* An argument of the call, or an element of a list the callback holds.
CtxInspect ==
  /\ InCallback
  /\ \E stored \in BOOLEAN : Emit(stored)
  /\ UNCHANGED <<acts, parked>>

CtxRelease ==
  /\ InCallback /\ \E h \in Ids : Given(h) /\ handles' = Release(h)
  /\ UNCHANGED <<acts, parked>>

\* A second reply takes the place of the first.
SetReply ==
  /\ InCallback
  /\ \E h \in {i \in Ids : Given(i) \/ Stale(i)}, raises \in BOOLEAN :
       /\ handles' = HandOver(Leak(handles, Last(acts).reply), h)
       /\ acts' = Front(acts) \o <<[Last(acts) EXCEPT !.reply = h, !.raises = raises]>>
  /\ UNCHANGED parked

\* A fault or an exit already parked, a stale argument or no depth left is a
\* fault, and nothing runs under it.
InvokeBlock ==
  \/ parked = "None" /\ Deep /\ Enter([kind |-> "block"]) /\ UNCHANGED parked
  \/ parked' = "Fault" /\ UNCHANGED acts

CallBlock ==
  /\ InCallback /\ InvokeBlock
  /\ UNCHANGED handles

\* The nested drive ends: normally, on a break, return or raise that crosses
\* the boundary, or on a fault.
EndBlock ==
  /\ Top = "block" /\ Leave
  /\ parked' \in IF parked = "Fault" THEN {"Fault"} ELSE {"None", "Exit", "Fault"}
  /\ UNCHANGED <<builders, instance, tokens, handles, inDrive, currentCtx, stash>>

----------------------------------------------------------------------------
(* Through the instance pointer.                                            *)

ByPointer ==
  /\ LetIn /\ UNCHANGED <<builders, instance, natives>>

\* The constructors; the fallible ones look at their argument before they mint.
MakeValue ==
  /\ ByPointer /\ \E stored \in BOOLEAN : Emit(stored) /\ UNCHANGED tokens

\* The readers answer for a live handle, and change nothing.
Reads(h) == ~Stale(h)

\* The readers that mint: elements, fields, keys and values.
Inspect ==
  /\ ByPointer /\ \E h \in Ids, stored \in BOOLEAN : Reads(h) /\ Emit(stored)
  /\ UNCHANGED tokens

ReleaseValue ==
  /\ ByPointer /\ \E h \in Ids : Given(h) /\ handles' = Release(h)
  /\ UNCHANGED tokens

RetainValue ==
  /\ ByPointer
  /\ \E h \in Ids : Given(h) /\ handles[h].refs < MaxRefs /\ handles' = Retain(h)
  /\ UNCHANGED tokens

\* The result of the last statement, or the exception a raise trap shows.
PauseValue ==
  /\ ByPointer /\ UNCHANGED tokens
  /\ \E stored, some \in BOOLEAN : Emit(stored /\ some)

\* Callables of the frames and tail calls in the trace of the last raise.
TraceAccess ==
  /\ ByPointer /\ phase = "Raised"
  /\ \E stored, some \in BOOLEAN : Emit(stored /\ some)
  /\ UNCHANGED tokens

\* doodle_stack_frame_count gives out the generation with the count.
StackWalk ==
  /\ ByPointer /\ tokens' = tokens \cup {[generation |-> generation, of |-> frames]}
  /\ UNCHANGED handles

\* checked_ref and checked_mut compare before anything is looked up.
Current(t) == t.generation = generation

\* Callables, tail calls, locals, dynamics and globals; an unset one has no
\* handle.
FrameAccess ==
  /\ ByPointer /\ UNCHANGED tokens
  /\ \E t \in tokens, stored, some \in BOOLEAN : Current(t) /\ Emit(stored /\ some)

----------------------------------------------------------------------------
(* Where the engine holds the instance, and lets the host in all the same.  *)

\* Through the pointer, under a call that leaves IN_DRIVE as it is; or through
\* the context of a callback whose block runs, from a finalizer fired by it.
\* The call stays on the native stack, and nothing is known of what follows.
Alias ==
  /\ \/ PointerUsed /\ PointerAccepted /\ acts # <<>>
     \/ Top = "finalizer" /\ \E p \in stash : CtxAccepted(p)
  /\ Enter([kind |-> "alias"])
  /\ UNCHANGED <<builders, instance, tokens, handles, inDrive, currentCtx, stash, parked>>

----------------------------------------------------------------------------
Next ==
  \/ RegistryNew \/ RegistryFree \/ AddBuiltin
  \/ DescNew \/ DescParam \/ SetCallback \/ DescFree \/ AddForeign \/ Load
  \/ Drive \/ Resolve \/ ResolveImport \/ Eval \/ Free \/ ZeroFuel
  \/ EndDrive \/ EndEval \/ EndFree
  \/ CallForeign \/ FireFinalizer \/ ReturnFinalizer \/ ReturnCallback
  \/ CtxMake \/ CtxInspect \/ CtxRelease \/ SetReply \/ CallBlock \/ EndBlock
  \/ MakeValue \/ Inspect \/ ReleaseValue \/ RetainValue
  \/ PauseValue \/ TraceAccess
  \/ StackWalk \/ FrameAccess \/ Alias

Spec == Init /\ [][Next]_vars
=============================================================================
