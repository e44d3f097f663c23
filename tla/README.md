# A verification of the doodle engine

TLA+ modules, TLC runs and TLAPS proofs for the doodle language engine
(`crates/` and `tools/` of this repository; every path below is relative to the
repository root, `core` is `crates/doodle-core/src`).

The engine is a deterministic CESK machine that a host drives: `run`, `run_slice`,
`resolve` and `resolve_import` run an instance until it completes, raises, faults,
pauses or suspends. There is no engine thread. What makes it hard is not
parallelism but *re-entry and interruption*: any drive may stop at any safe point,
two flags are set by other threads at any time, native functions drive blocks in
nested loops on the host's stack, and a transfer of control (return, break, raise,
cancellation) may cross all of these.

## 1. The system

| part | source | state | operations | hard about it |
|---|---|---|---|---|
| drive loop | `core/drive.rs`, `core/drive/pump.rs` | instance state, outcome, directive in force | `run`, `run_slice`, `resolve`, `resolve_import`; one turn of the loop | precedence of the ways to stop; stopping without losing a transfer or a request |
| stepping, unwinding | `core/machine/step.rs`, `unwind*.rs`, `cont.rs`, `frame.rs` | frame stack, continuations, register, transfer in flight | one transition; discard, settle, catch | transfers name frames by index; frames are pushed and popped in between |
| limits | `core/machine/limits.rs`, `ops.rs` | step budget, slice, exhausted flag, heap threshold | `safe_point`, `spend`, `check_stack_depth` | one meter for all loops, order of the checks |
| host controls | `cancel.rs`, `pause.rs`, `breakpoint.rs`, `raise_trap.rs`, `controls.rs`, `lifecycle.rs` (all `core/machine`) | two shared flags, breakpoint table, settings, step anchor, resuming flag | request, poll, configure | asynchronous requests; an anchor that outlives the call that set it |
| native calls | `core/machine/intrinsic/*`, `foreign.rs` | native calls on the host stack, parked exits | apply, invoke block, reply, return | nested drives that must not suspend, and must hand parked transfers back |
| modules | `core/machine/modload.rs`, `import.rs`, `load.rs` | load states, path and canonical caches, namespaces, wildcards | import targets, answer an import | aliasing, cycles, fallback to members, failed loads |
| calls, blocks, protection | `call/`, `block.rs`, `control/`, `protect.rs`, `dynamic.rs`, `ring.rs` (`core/machine`) | static links, serials, continuations, dynamic-binding stack, handling stack, tail ring | call, tail call, loop, exit, with, try, rescue | frame reuse under links, restoring on every way out |
| handles | `core/machine/handle.rs`, `boundary.rs`, `values.rs` | slots, generations, reference counts, free list | intern, retain, release, resolve | stale handles, wrap-around |
| heap and collector | `core/heap*`, `core/machine/gc.rs` | slabs, marks, free lists, byte account | allocate, collect | completeness of the roots |
| observation | `observe*.rs`, `inspect.rs`, `aux_eval.rs` (`core/machine`) | saved machine during an auxiliary evaluation | walk, evaluate aside | saving and restoring everything, under collection |
| protocols | `core/machine/protocol/*` | registry of protocols and implementations | register, dispatch, bind | what a later declaration does to earlier calls; checks and binding against different declarations |
| values | `arith.rs`, `compare.rs`, `hash.rs`, `strop.rs`, `dict/*`, `record.rs`, `assign.rs`, `types.rs` (`core/machine`) | records, lists, dictionary entries and index, operations parked for a driven hash | operators, stores, reads | agreement of equality and hash, promotion at the integer limits, copies and aliases |
| front end | `core/lex`, `core/parse*`, `core/ast*`, `core/resolve*` | - | text to resolved tree | sequential; the machine relies on what the resolver decided about tails, exits and missing values |
| C ABI | `crates/doodle-capi` | builders, pause generation, pending requests, the innermost call context, the drive guard | mirrors the engine's calls | who frees what; tokens, contexts and pointers used at the wrong time |
| other hosts | `crates/doodle-wasm`, `crates/doodle-cli`, `tools/conformance-runner` | - | shells over the same entry points | none of their own |

Interaction: a host calls an entry point; the entry point installs a directive and a
slice and runs the drive loop; the loop runs transitions; a transition may push
frames, arm a transfer, call native code (which may run a nested loop), park a
request, or reach a safe point, where limits are counted, flags polled and stops
decided. Stops return to the host, which may configure, answer, or drive on.

## 2. Modules

### Lifecycle - what the host is promised

The abstract specification: which outcomes a drive call may report, from which
state and under which directive, and what requests they answer. It has no frames,
no fuel and no program. A slice end needs a bounded call, a step stop a stepping
directive, a host pause a request (which it uses up), a cancellation a request;
terminal states are final.

### Drive - the drive loop and everything that interrupts it

| variable | code |
|---|---|
| `state`, `outcome` | `Instance::state()`, the value the drive call returned |
| `frames` | `Machine::frames`, each frame as its kind; `NBlock` is a block frame whose consumer is `Consumer::Native` |
| `unwind` | `Machine::unwind`; `mark` is the frame index or boundary the transfer names |
| `pending` | `Machine::pending` |
| `nest` | the frame depths at which native calls are executing on the host stack: the `boundary` locals of `intrinsic/ctx.rs` |
| `budget`, `slice`, `exhausted` | `FusedCounter` |
| `directive`, `anchor`, `resuming` | the fields of the same purpose in `machine/lifecycle.rs` |
| `cancel`, `pause` | the flags behind `CancelToken` and `PauseToken` |
| `settings` | raise trapping, observation mode, breakpoints |
| `issued`, `switched` | history: the depth at which the host gave the step in force; whether it gave it at a slice end in place of another command |

An action is one turn of a loop. `Complete`, `EndSlice` and `TrapRaise` are the ways
the outer loop (`pump.rs`) stops before it steps, and `Decide` the ways it stops
after a safe point, in its order of precedence. `Nested` is the loop of
`invoke_block_inner` in `intrinsic/ctx.rs`, which asks none of these questions. The
transitions of `step.rs` are grouped by what they do to the stack, the transfer and
the meter: `Statement`, `FallOff`, `Enter`, `FinePoint`, `RaiseHere`, `Exit`,
`Charge`, `Refuse`, `Suspend`, and the unwinding ones. `SafePoint` is `limits.rs`
`safe_point` with the checks of `step.rs` and `ops.rs` around it: budget, heap,
depth, cancellation, then the loop's decision.

*Why a turn may be atomic.* Only the two flags are written by other threads. A turn
reads each of them at most once (`poll_cancel` at the safe point, the pause flag at
the end of the turn), and all else belongs to the thread that drives. A request that
arrives within a turn is therefore the same as one that arrives just before it or
just after it, and the model has both orders.

*What is left open.* The program: from every stack, any transition the machine can
make may be the next. `safe_point_stmt` is not a variable: every transfer is armed
by a transition that has cleared it, so a settling unwind has no statement
(`NoStmt`), and otherwise it is the statement just dispatched.

### ModuleLoad - imports, load states and what waits for a module

| variable | code |
|---|---|
| `state` | `Instance::state()`, with pauses left out and a suspension on an import only |
| `table` | the module table with `ModuleLoad::states`, `by_canonical` and the value a `Failed` state retains; the entry module is 1 |
| `byPath`, `notModules` | the caches of `ModuleLoad` |
| `stack` | the module top-level frames of `Machine::frames`, each with the target its `ImportTargets` continuation is at |
| `pending` | the path of the `PendingImport` |
| `raised` | the value of the `Raise` in flight, later `raised_value` |
| `uses` | history: which module has been bound by which (namespaces and wildcard lists) |
| `breaks` | the breakpoint table, one breakpoint for each canonical id |

`Process` is `step_import_targets`: the whole path as a module, then, for a path the
host said is none, the member of its prefix. `Alias`, `Load`, `Reject`, `NotFound`
and `HostRaise` are the answers (`import.rs`); `Finish` and `Abandon` are the two
places where a frame that goes settles its module's load state (`step.rs`
`return_from_top_frame`, `cleanup.rs` `raise_unwind`). Which answer the host may give
is the constant `Locate`, by importer and path. Imports stand at module level, so the
frames of calls, which come and go above the importer, are left out, and an exception
that reaches a module's top level has no handler. The names in a namespace are left
out: whether a member is exported, private or absent is a choice between binding and
raising. The branch of `resolve_loaded` that raises a retained exception again is in
the model and is never taken in one run of a program, as the comment on
`LoadState::Failed` says; `FailureIsFinal` is the reason.

### References and HandleTable - what keeps a value for the host

`References` is the contract: each value that crosses to the host is a reference of its
own, with a count the host moves; it yields its value while the count is above zero and
is refused ever after. `HandleTable` is the table that implements it (`HandleBounds` has its sizes):

| variable | code |
|---|---|
| `slots` | `HandleTable::slots`; an index counts from 1, so that 0 ends the free list |
| `freeHead` | `free_head` |
| `answer` | what the operation returned, and for which reference |
| `minted` | history: every handle given to the host, with its value, the count the host holds and the turn of the slot at which it was minted |
| `turn` | history: how often each slot has been freed, unwrapped; the generation is this modulo its width |

`Reuse` and `Grow` are the two branches of `intern`, `Drop` the body of `release`,
`Own` and `Refusal` the outcome of `live_index`. `Consume` is the reply of a host
callback, which is read and released in one go (`intrinsic/ctx.rs` `apply`); the fault
a stale reply parks belongs to `Drive`. The build is a debug build, which stamps an
instance id into a handle; a release build has none and takes a handle of another
instance for its own, as the comment on `HandleError` says. Ids wrap after 256
instances; the model's other instances are those with another id.

The module has one assumption on the host, `Recent`: a handle is forgotten before its
slot has been freed as often as there are generations (2^32 - 1). A handle kept longer
would read the slot's new value, and no property of the table could say otherwise.
`MaxRefs` is the same kind of bound on a 32-bit count.

### Heap and Roots - what keeps an object alive

`Heap` has the heap as operators on a record: the slots of a slab, its free list, the
account of bytes, mark and sweep. A reference in the code is a slot; here it also
carries the serial of the object it was taken to, so that a property can say of a
reference that it is still to the same object. What marking computes is written as the
smallest set that holds the roots and is closed under children, not as a traversal.

`Roots` is the machine as the collector sees it:

| variable | code |
|---|---|
| `heap`, `threshold` | `Instance::heap`, `Machine::gc_threshold`; `stress` is `gc_every_safe_point` |
| `frames` | `Machine::frames`: the callable, one local, and the continuations that hold a value or a mark |
| `reg`, `unwind`, `handling`, `dyn`, `ring` | the fields `reg`, `unwind` (a raise, with its trace), `handling`, `dyn_stack`, `ring` |
| `param` | the module cell of one dynamic parameter, which `module_root_cells` roots |
| `foreignRoots`, `pending` | the fields of these names: arguments of running native calls, and of the parked request |
| `handles`, `traced` | the values the host holds, those it has read from a trace apart |
| `raised` | `raised_value`, `raised_trace` |
| `turn` | whether a drive runs and what stopped it; `Panicked` is the `unreachable!` of a slab asked for a free slot |
| `aux` | the locals of `drive_aux_to_string`, with a history copy of what must be restored |
| `finalized` | history: how often each foreign value's finalizer has run |

`RootRefs` lists the roots as `gc.rs` does and `SafePoint` is the part of `limits.rs`
that collects; the transitions that end in a safe point (a statement, a call, a return, a
block, a settling exit) end in it. All others may only allocate. Which transition comes
next is open, within what the code's scheduling of continuations permits: an operand is
pending only under the call it belongs to. An auxiliary evaluation moves the machine
into `aux` (`BeginAux`), runs the program's own transitions above the frames of the stop,
and puts all back (`EndAux`), whether it returned, raised or faulted.

`MCRoots` runs two parts of the repertoire that overlap in all that makes objects, collects,
binds and unwinds: `ProgramNext` with collections when they are due, `HostNext` with one at
every safe point.

### Syntax, Resolver, Places, Calls, Meaning - how control moves in a program

`Drive` leaves the program open. These five run whole programs: `Syntax` has the trees
(`ast.rs`) of the forms that move control, `Resolver` what the resolver decides about
them, `Places` what it promises of the trees it accepts, node by node, `Calls` the machine
that runs them, `Meaning` what the language says the tree means.

| definition | code |
|---|---|
| `Resolve`, `ExitErrors` | exit targets and static hops: `resolve/walk.rs`, `exits.rs` |
| `Mark` | tail calls: `tailmark.rs` |
| `TailOf`, `FallsOffEnd` | how the body of a `fn` ends: `tailcheck.rs` |
| `Void`, `VoidSites` | places that need a value: `voidcheck.rs` |
| `Passes` | a module with an error is never run (`into_loadable`) |
| `Place` | what the passes carry down a tree (`Ctrl`, `Frame` in `resolve/walk.rs`): the callable's kind, the blocks and loops around, whether the node is in tail position and what is made of its value |
| `NodePlaced`, `ExitPlaced`, `BodyPlaced` | what each check asks of a node or body in such a place: `exits.rs`, `tailmark.rs`, `tailcheck.rs`, `voidcheck.rs` |
| `frames` | `Machine::frames`: kind, continuations, static link, consumer and block descriptor |
| `reg`, `unwind` | the fields of these names; an empty register carries, as history, what left it empty |
| `param`, `dyn`, `handling` | the cell of one dynamic parameter, `dyn_stack`, `handling` |
| `coins`, `log` | history: how each condition came out, what each `let` bound |

An action of `Calls` is one dispatched continuation (`step/dispatch.rs`) or one step of an
unwind (`unwind.rs`, `arms.rs`, `cleanup.rs`). Conditions come out either way. `Meaning` is
a big-step evaluation without frames: an exit is an outcome that travels outwards, a
binding is part of the environment, a handler is a case. It is written from the rules the
documentation comments state and is not the machine read again, so the comparison says
something. Every frame carries, as history, the activation it runs (a reused frame is a
new one), and every link the activation it was made to: the code's serials and indices
are compared with those by `LinksLive`.

`Calls` knows of the resolver's work only the three assumptions of `Places`: every node below
a placed one is placed (`PlacedBelow`), every place keeps what the checks asked of it
(`NothingReported`), and the bodies of the callables stand in places of their kinds
(`CalleesPlaced`). The sets of placed nodes and bodies are constants; `MCCalls` computes them
from the trees `Resolver` has marked and accepted, and TLC evaluates the assumptions on all of
them, so that the two descriptions of the resolver are compared on every program of the run.

Left out: arguments, spans, and the locals and captures that the next three modules have. Values are those of one
dynamic parameter, which makes every binding that is not undone visible in what is logged.

### Scopes, Locals, Environments - what a name is

`Scopes` is the resolver's walk with an action per node: it opens and closes frames
(storage) and scopes (visibility) and gives every name a place. What has been walked is
the program, so a state is a program with its resolution. `Locals` runs it as the machine
does, `Environments` says what it means.

| definition | code |
|---|---|
| `frames`, `scopes`, `globals`, `pending`, `callables` | the fields of `Resolver` of these names (`resolve/walk.rs`) |
| `ResolveRef`, `ResolveCapture`, `Thread` | `resolve/walk/refs.rs`: slot, link, or a cell threaded inward |
| `DeclareBinding`, `ResolveCallable`, `ResolveBlockArg`, `ResolveLoopBody` | `decls.rs`, `walk.rs`, `exits.rs` |
| `Build`, `Write`, `Rebind`, `ReadLocal` | `core/machine/local.rs` |
| `Find`, `OuterFrame`, `BindDecl`, `AssignTo` | `control/mod.rs`, `assign.rs` |
| `MakeCallable`, `DefineCallable`, `BindDefault`, `RunBlock` | `call/frame.rs`, `call/mod.rs`, `block.rs` |

In `Environments` each execution of a declaration is a variable and a closure is its text
with its environment: no slots, no cells, no links. The statements are few (a number
counted up and stored, printed, a callable made, called, a loop or a block that runs
twice), but they nest freely, and each number is another, so that what is printed tells
which variable was read. Two of the code's decisions are what the comparison is about: a
slot becomes a cell *after* nearer names were resolved to it as a plain slot
(`refs.rs:69`), and a declaration takes a fresh cell where an assignment keeps the old one
(`local.rs:38`). Left out: constants (`let` with no assignment), records, imported names,
block parameters as names, `with` targets, tail calls, more than one parameter.

### Protocols - registry, dispatch and conformance

`reg` is `protocol::Registry` (protocols in load order with their members and parents,
implementations in load order), `file` the declarations executed so far, which is also
what the resolver has seen of the module. `DefineProtocol` and `DefineImplement` are
`protocol/load.rs`; `Resolve` is the dispatch of `protocol/mod.rs` `resolve` (candidates,
maximal candidates, the block's method, the nearest default, the native default),
`Signature` and `CallMember` the binding of a call (`dispatch.rs`), and `ProtocolOk` and
`ImplementOk` the checks of `resolve/walk/protocols.rs`, which see one module only. A
program is a sequence of declarations the resolver accepts; protocols of a second module
may be imported. Left out: default values of parameters, the texts of errors.

### Numbers and Operators - the numeric tower

`Numbers` is `arith.rs`, `compare.rs`, `strop.rs` and the numeric part of `hash.rs` as
operators, with the widths as constants: an integer is exact and `BigInt` when the word is
too small, a float is sign, exponent and fraction fields. The hardware's rounding is
modelled by its definition (nearest, ties to even). An operator's value is the set of its
possible outcomes; only the float power, a library's, has more than one. `Operators` is the
evaluation of operators one after another, as `eval.rs` schedules it. Strings are their
lengths.

### Statements, Store and Values - records, lists and dictionaries

`Statements` has what a program may write, `Store` what it means, `Values` what the
machine does.

| `Values` | code | `Store` |
|---|---|---|
| `vars`, `heap` | slots and the heap; every value is a scalar or a reference | `env`, `refs`: a record is its content, only lists, dicts and `ref` records have an identity |
| buckets of a `Dict` object | the dictionary's index from hash to positions | nothing: a key is found by equality |
| `parked` | the continuations that wait for a driven `hash`, with the bucket it is going to name | `pending` |
| `CopyOnBind` where a value is stored | `record.rs` `copy_on_bind` at each of its callers | nothing: content is copied by being content |
| `raised`, `next`, `program` | how the last statement ended, the statement to run | the same |

`Values` implements `Store` under the mapping that reads a record as its content
(`ImplementsStore`). A `hash` may run any of the statements that the instance lets it before
it returns, and other driven hashes within it. A collision is frequent, because `Squash` keeps
two values of a hash. A key waits for its own `hash` as a reference to the record it was taken
from (`dict/index.rs:246`, `dict/mod.rs:255`), not as a copy. A `hash` that assigns to a field of
that record changes the key it is hashing, and the key is then stored under the bucket it had
before. `astray` marks, as history, a dict that has stored such a key; `KeysFound` is about the
dicts that are not astray, and a step of `ImplementsStore` is free (`Stray`) when it changes
what a parked operand means, when a `hash` returns for a key that has changed, and as long as
an astray dict is in the heap. `EqualIsContent` is exact for values without driven keys; with
them it says that `==` never takes different contents for equal, takes two dicts with such
keys for different, and panics only over a key that has no native hash. Left out: an implementation of `hash` that breaks its
contract, strings and bytes as keys, slices, the capacity of collections.

### Embedding - the C ABI

| variable | code (`crates/doodle-capi/src`) |
|---|---|
| `boxes`, `owns` | the boxes behind registry and descriptor pointers; history: those the host must free or hand over |
| `names`, `desc` | the registry's names, the descriptor being built (`registry.rs`, `desc.rs`) |
| `phase`, `generation`, `pending` | `Instance::state()` and the fields of `DoodleInstance` |
| `frames`, `tokens` | history: which stack the engine holds, and for which one each token was given |
| `handles` | the table's count of each handle; history: how many the host owes, how many were dropped by a call |
| `acts` | the native call stack: entry points, callbacks, nested drives of blocks, finalizers |
| `inDrive`, `currentCtx` | `IN_DRIVE`, `CURRENT_CTX` |
| `parked` | the exit or fault that waits for a foreign call to end |

The engine and the host take turns on `acts`. What the engine does in between is open: it
may call a foreign function, drive its block, fire a finalizer, or end with any outcome. The
host may, wherever its code runs, use the pointers, contexts, handles and tokens it has
kept; a call that is refused changes nothing. A call that is let in although the engine
holds the instance (the pointer, under `doodle_resolve_import`, `doodle_eval_to_string` and
`doodle_free`, which leave `IN_DRIVE` as it is; the context of a callback, from a finalizer in
the drive of its block) makes a second reference to it, and what follows is undefined: it is
the action `Alias`, whose act stays on the native stack and which nothing follows. Left out:
a panic of the engine itself, `DoodleControl` (its flags are `Drive`'s), setters of breakpoints
and settings, the accessors of output and diagnostics, and the mirrored types of `abi.rs`.

## 3. Runs

| run | question | properties | instance |
|---|---|---|---|
| `drive_safety` | do the safety invariants hold for every interleaving of program, host and flags, and is every behaviour a Lifecycle behaviour | `TypeOK StopsSound StackSound CancelUncatchable StepHonest RaiseSeenFirst KeepsPromise` | 5 directives; slices 0, 2 and unbounded; step budget 2 or none; depth limit 3 with room for 4 frames; 1 re-entry; 1 statement; 3 settings |
| `drive_liveness` | does a cancellation end the instance, a bounded call return, a budget end the run, a pause stop it | `CancelEnds DriveCallsReturn PauseStops` | one directive; slices 0, 1 and unbounded; step budget 3 or none; depth limit 2; native calls |
| `drive_step_anchor` | does a step stop where it was given, whenever it is given | `StepAnchoredWhereGiven` (violated) | continue and step over; slices of 1 and unbounded; 3 frames |
| `load_safety` | are modules loaded once, in order and settled, whatever the host answers | `RegistrySound FailureIsFinal ImportsSettle` | an entry module, a native one and two to be loaded; paths `a`, `a.b`, `a.b.c` (never a module of its own) and `native`; a host that may answer anything; two exception values; breakpoints in one module |
| `load_deep_path` | is every import settled, paths of three segments included | `EveryImportSettles` (violated) | the same modules and paths; one exception value, no breakpoints |
| `heap` | does a collection free only what is not in use, by a program and at every stop of a host that holds, releases and evaluates aside; are the account, the finalizers, the bindings and the heap limit exact; is a stop as it was. And: do handles whose slots are reused and whose generations wrap ever show it | `NothingInUseIsFreed SlabSound BindingsUndone HeapFaultIsReal PauseIntact`; `TableSound Implements` | collections when threshold (floor 2) or limit (3) ask, or at every safe point; 3 objects, 2 frames, one continuation each, a ring of one, one value held. And: 3 slots, 3 generations, 5 references with a count up to 2, two values, one other instance |
| `calls` | does the machine do what the tree means; do links, tail calls and the resolver's checks hold; is every binding and exception undone. And: do slots, cells, captures and links give every name its lexical meaning | `FramesSound MeansTheSame ProperTails StaticChecksSound`; `SlotsMeanNames` | every accepted `fn` of two constructs around one of 17 statements, and `to` or `fn` of one; a library of seven callables; depth limit 5; three free conditions. And: every module of up to six statements of one of five mixes, bodies 4 deep, 3 calls in a run; one number name, one function name, a parameter with or without the number's name, defaulted or not |
| `calls_bare_raise` | does a bare raise always find an exception | `ReraiseHasException` (violated) | one program |
| `protocols` | do dispatch, the checks and later declarations keep what they promise a call | `ErrorsHaveRemedies RegistrySound ConformingCallsEnter CallsKeepRunning` | any 4 accepted declarations of three protocols, a well-known one, two types and an umbrella; one may be imported |
| `values` | are results canonical, division lawful, the order one order. And: does the heap with copies, buckets and driven hashes mean what the language says | `ResultsSound DivisionLaw OneOrder`; `HeapSound KeysFound EqualIsContent ImplementsStore` | words of 4 bits, every float of 2 fraction bits and 3 exponent bits; every operator on every pair. And: two variables, six programs of 5 to 12 statements in any order; 4 objects (5 in one program), dicts of 2 entries, 2 hashes in progress |
| `embedding` | is what the C ABI hands out and takes back used and freed exactly once and at the right time | `TokensResolveTheirStack OwnershipExact RequestsMatchPhase OneBorrower` | one built-in, one foreign function, 2 handles with up to 2 references, 2 drives, a native stack of 4 |
| `embedding_reentry` | is a callback refused when it goes back in through the pointer | `CallbacksRefused` (violated) | one foreign function, no handles, 2 drives, a native stack of 3 |

`heap`, `calls` and `values` each run two models side by side: `MCHeap` the collector and the
table of handles, `MCPrograms` the programs of `MCCalls` and the resolver's scopes, `MCData` the
operators and the statements. A behaviour chooses one of them at its start (`part`) and the other keeps its
initial state, so that the states are those of the two models and no more.

The exact constants are in the `.cfg` files. Bounds of `Drive`: four frames give a native
call's boundary with a driven block and a callable above it, or a step's anchor with
frames on either side, and one frame more than the depth limit; a re-entry limit of one
gives an outer loop, a nested loop and the refusal of a second; a slice of two ends between
two safe points of one command and a slice of zero before the first. A budget is chosen at
the start, finite or none: a finite one may run out anywhere, and without one nothing ends
by exhaustion. `MaxFrames` bounds only the model; the engine's own bound is `StackLimit`.

`load_safety` needs no bound on its state: the table is bounded by the canonical ids.
Two modules beside the entry give a chain of three frames, a cycle that does not go
through the entry, two paths to one module, and a module that loads and then fails
its importer; `a.b` beside `a` gives the member fallback with its prefix unknown,
loading or loaded, and `a.b.c` a fallback whose prefix is not a module either, after which an
import need not be settled (`AskedAgain`, see `load_deep_path`). `Breakable` bounds the canonical
ids that the host sets breakpoints for; what a breakpoint waits for does not depend on which.

Five references over three generations let a slot go through all of its generations and
wrap while handles of the turns before are still in use, and let a free list of three
slots be emptied and refilled in any order. The two values may be exchanged (symmetry);
every property of the run is a safety property.

Three objects in `Roots` are the implementation of Stringable, which is always there, and
two more: a value that something holds, and one that takes the slot the first has left, or
is held by it, or holds it. What `NothingInUseIsFreed` could miss with so few is a chain of
more than two objects; marking does not depend on the length of chains, and its definition
is the closure itself. Two frames with a continuation each give every holder of a value
its turn as the only one. With a limit of 3 any two objects and what they hold may be
beyond it, so a heap that is full of garbage and one that is full of values in use both
occur.

Two constructs around a statement in `calls` put every exit under every pair of loop, block,
handler, binding and condition, across a library that itself has a block inside a block, a
binding around a block call and tail calls to both kinds; three frames of the program's own
and two of the library fit the depth limit, and a fourth condition is always false so that
loops end. The mixes of names in `calls` are what a capture can meet: a local of a loop
captured through two callables, a closure kept from one pass and called in another, a local
shared by a block and a callable, a callable in a block in a block, and one that names
itself; in each the resolver's order (declared, used plainly, captured later) comes in all
permutations and nestings. Four bodies are the module's and three more, so a capture may
cross two callables or two blocks; three calls let a recursion come back once more than a
loop runs. Four declarations of protocols give a chain of two with two implementations,
two unrelated protocols implemented for one type, and a redeclared member. Of the operators' operands the
integers (up to 17) go past the word (7) and the floats' exact integers, the floats
underflow, overflow and tie, and the cap on a result is met; one operator is applied to
every pair of literals, and a result outside them is no operand. In `values` two unequal
keys meet in one bucket, an equal Int and Float name one key, a key's variable changes
while its hash runs, be it bound to another record or the record's field assigned to (and the key
with it), two dicts have equal keys of a driven type with and without a native hash, and two
objects hold each other. In `embedding` two drives on a
generation of eight never wrap, which `EmbeddingAssumption` states: after 2^32 drives a
kept token would be taken for a new one.

### Fairness

`FairSpec` assumes: the engine takes a step when a drive call is in progress (it is a
loop); a program that keeps running keeps crossing polled safe points
(`CrossPolled`), and the outer loop does so whenever control keeps coming back to it
(`CrossOuter`), because a statement is a finite number of transitions; and the host
keeps driving with some fuel and answers suspensions (`DriveOn`, `Answer`). The
strong fairness of `CrossPolled` is the assumption that native callbacks and
handlers do not keep the machine between two safe points for ever; without it
neither a cancellation nor a limit could be noticed by any engine that polls.
`DriveCallsReturn` (for a slice; a budget needs it not) and `PauseStops` carry the proviso `[]<>(nest = <<>>)`: the
nested loop of a native call looks at neither the slice nor the pause flag, so a
native function that drives its block for ever is stopped by a cancellation or by
the budget only. That is what the code does; the proviso makes it visible.

In `ModuleLoad`, the engine processes a target and abandons a frame (weak fairness),
the host answers an import (weak fairness of `Respond`), and the top level of a module
is finite (strong fairness of `Finish`: a module that gets to run again and again comes
to its end).

`Calls`, `Scopes`, `Protocols`, `Operators`, `Values`, `Roots` and `Embedding` state no fairness: they
have safety properties only, and their runs check no deadlock, because a program ends and
the bounds stop a host.

### What the violated runs show

`calls_bare_raise`: neither the parser nor the resolver asks whether a bare `raise` stands in
a rescue body. `to main() ... raise end` passes every check, and `raise_apply` panics when it
takes the exception that is being handled (`core/machine/protect.rs:123`), against the comment
two lines above it.

`drive_step_anchor`: `lifecycle.rs:96` takes the stored anchor again whenever the last drive ended
in a slice end, whatever directive it ran under; the comment at `lifecycle.rs:92` says a fresh step
anchors at the current depth. In the run a slice under `Continue` begins in an imported module
and ends in its importer, and the `StepOver` that is given there stops inside the next call. A
slice that ends deeper than it began makes the step run past its place instead, which no stop
shows. `StepHonest` holds for all other steps (`~switched`), without a restriction on the host.

`load_deep_path`: `modload.rs:259` suspends for a prefix without looking whether it is recorded as
no module (`modload.rs:174`). `import a.b.c`, with neither `a.b.c` nor `a.b` a module, asks for
`a.b` after every denial. `ImportsSettle` is that every import is settled unless this is what goes
on for ever.

`embedding_reentry`: `resolve_import_and_fill` (`doodle-capi/src/instance/import.rs:142`) and
`doodle_eval_to_string` (`inspect/aux_eval.rs:38`) enter no `DriveScope`, nor does `doodle_free`. The
instance pointer is let in from a callback or finalizer under them, against `instance.rs:241`.
`OneBorrower` says exactly when the pointer is refused, and `TokensResolveTheirStack` that a token
accepted under the first two is of another stack.

### Known disagreements without a violated run

Met while modelling. The first three are stated by the property that is named; the others can
be seen by the change of a run that is named.

* *A key changed by its own hash.* See `Values` above. `dict/mod.rs:57` says the copy on store keeps
  a key in its bucket; the copy is made when `hash` has returned. `KeysFound` without `~astray`, and
  `ImplementsStore` without `Stray`, are violated in `values`.
* *Dicts with driven keys.* `value_for_key` (`dict/mod.rs:109`) hashes natively a key that was stored
  under a driven hash, so equal dicts compare unequal, and a key that has no native hash reaches
  `unreachable!` (`hash.rs:177`), against `compare.rs:3`. `EqualIsContent` states both.
* *Contexts in finalizers.* A finalizer fired inside a nested block drive is let in through the
  callback's context, against `call.rs:25`. `OneBorrower` states it.
* *Raise trap in a nested drive.* `pump.rs:44` is the only place that looks for a raise to trap;
  in a block a native call drives, frames are unwound to the boundary first, against
  `raise_trap.rs:2`. `drive_safety` with the invariant
  `state = "Paused" /\ outcome = "RaiseTrap" => Depth = unwind.mark`.
* *Traces are not rooted.* `gc.rs:115` roots the value of each exception in hand and not its
  trace, whose callables are freed by a collection in the rescue body; a bare raise then
  publishes that trace, which `machine.rs:167` calls a root. `heap` with
  `\A r \in TraceRefs(raised.trace) : Live(heap, r)`.
* *The ring is not rooted during an auxiliary evaluation.* `aux_eval.rs:122` keeps it in a local;
  `ring.rs:21` says its callables must survive. `heap` with tail calls in `HostNext` and
  `\A r \in ToSet(ring) : Live(heap, r)`.
* *A consumer of another module.* `consumer_is_proc` (`unwind/arms.rs:272`) looks the consumer's
  callable up in the table of the module that is running, which need not be the consumer's: a
  `break` with a value out of a block given to a library callable is judged by a stranger's kind or
  panics. The library of `MCCalls` is in the program's own module for this reason.
* *A default beats an implementation.* With `implement Parent for T` giving a method, executing
  `implement Child for T` without it makes the child's chain the one that supplies the member, and
  the default runs (`protocol/mod.rs:379`); `tests/protocols.rs:333` says an explicit implementation
  beats every default.
* *Replies that leak.* A handle given to `doodle_set_result` or `_raise` is never released when it is
  replaced, when the callback returns another status than Ok, or when an exit or fault is
  parked (`call.rs`); `OwnershipExact` counts these as `leaked`.

Smaller ones: native block frames and module frames are pushed without `check_stack_depth`, so
a stack may exceed the depth limit by them. The path caches of module loading have no
importer in their keys. `Parent.m(x)` raises for a type that implements only a child of
`Parent`, though `x is Parent`. `resolve/walk/protocols.rs:8` says conformance across modules is
checked when they are loaded; `protocol/load.rs` checks nothing. A user protocol's member named `hash` or
`to_string` gets the native default where it is not implemented. A `with` whose body leaves is
valueless to `voidcheck.rs` and diverging to `tailcheck.rs`. `list_append` (`values.rs:131`) stores
without the copy every other store makes. `implement Hashable` executed after a dict has
been filled leaves its keys unfindable. Float `//` is the floor of a rounded quotient and may
disagree with `%`. `doodle_set_breakpoint` and `doodle_call_block` act before they report a NULL
result pointer.

## 4. Proofs

`DriveProofs` proves, for every value of the constants that satisfies
`DriveAssumption` (any directives, fuels, budget, limits, statements, settings):

| theorem | property |
|---|---|
| `TypeCorrect` | `TypeOK` |
| `StopsAreSound` | `StopsSound`: no stop leaves a native call, an unreported request or, for pauses, a transfer behind |
| `StackIsSound` | `StackSound`: native frames belong to running native calls, transfers name frames that exist, calls and blocks are within the depth limit |
| `CancelIsUncatchable`, `RaisesAreSeenFirst`, `StepsAreHonest` | action properties |
| `DriveImplementsLifecycle` | `Spec => Promise!Spec` |

The argument. No property is inductive alone. `NestInv` says that the boundaries of
the native calls in progress increase strictly, are within the stack, and that there
are none unless the instance runs; it makes "the nested loop runs" and "control is in
native code" exclusive and is needed wherever a frame is popped. `ControlInv` ties
outcome, suspension, fuel and step command to the state: a stop with outcome X left
the variables as X requires. `StackInv` adds ownership of native frames, the depths
of call frames, and live targets. Popping a frame is harmless for a transfer because
it never pops past its mark (`Exit` names a callable frame at or below the top, and
settling ends the transfer when it is reached); pushing is, because no frame is
pushed while a transfer is in flight. The lemmas `StackMoves`, `PoppedFacts` and
`PushedFacts` reduce every action to one of four moves of the stack, so these
arguments are made once. The refinement is by cases on the actions: each is a step of
`Lifecycle` or leaves its variables alone.

`ModuleLoadProofs` proves, from `LoadAssumption` (paths closed under prefixes, distinct
names for the preloaded modules; the host's answers are arbitrary):

| theorem | property |
|---|---|
| `RegistryIsSound` | `RegistrySound`, the conjunction of `TypeCorrect` and the next four |
| `LoadingStandsOnStack` | loading exactly while on the stack |
| `ModulesAreSingletons` | one module for a path, one for a canonical id |
| `ModulesInitialiseInOrder` | only loaded modules are bound; no cycle of dependencies |
| `BreakpointsAreResolved` | no module on the stack has a breakpoint waiting for it |
| `FailuresAreFinal` | `FailureIsFinal` |

The inductive invariant adds to the properties: `Shape` (a parked path is not known and
nothing is raised while it waits; without it an answer could give a path a second
module), `Distinct` (no module has two frames; without it a pop could leave a loaded
module with a frame), and `Acyclic`, which states the order of dependency for every set
of numbers and so does not change as the table grows. `Moves` sorts the steps into five
moves of table, caches and stack. A new dependency keeps `Acyclic` because it leads from
a loading module to a loaded one: of any set of modules, the loaded ones have, if there
are any, a member that depended on none of them before, and it is not the importer; if
there are none, no member depends on another. `StackLemmas` has the facts about
sequences that the proof modules share.

`HandleTableProofs` proves, from `HandleAssumption` (any number of slots, any width of the
generation field):

| theorem | property |
|---|---|
| `TableIsSound` | `TableSound`, the conjunction of `TypeCorrect` and the next three |
| `FreeListIsExact` | the links from the head visit the free slots, each once, and end |
| `HandlesStayExact`, `RootsStayHeld` | a handle reads its own value while held and is stale after; the roots are what is held |
| `TableImplementsReferences` | `Spec => References!Spec` under the mapping |

The inductive invariant adds `Counting` (a held handle is of its slot's present turn,
with the host's count in the slot; a released one is of an earlier turn), `HeldOnce` and
`Backed` (slots in use and references held correspond one to one), and `Generations`:
the generation of a slot is a handle's own plus the turns passed since, or that less one
cycle. It says only this much for recent handles, which keeps it linear; a handle of an
earlier turn then differs from its slot because fewer turns than a cycle have passed,
and `AcceptedIsHeld` follows: what the table accepts, the host holds. `FreeListExact`
is inductive by itself; a list that grows still fits the table because it repeats no slot
(`PigeonHole`).

`RootsProofs` proves, from `RootsAssumption` (any number of objects, frames, continuations
and held values, any ring, threshold floor and heap limit), after lemmas about the heap and
the frames:

| theorem | property |
|---|---|
| `Invariance` | the inductive invariant `Inv` |
| `NothingFreed` | `NothingInUseIsFreed` |
| `Slab` | `SlabSound`: free list, account of bytes, finalizers, and the types |
| `Undoing` | `BindingsUndone` |
| `PauseKept`, `HeapFault` | the action properties `PauseIntact` and `HeapFaultIsReal` |

`NothingInUseIsFreed` says only of the references in use that they are live. It is not
inductive: what a transition reads next it reads out of an object, and a sweep puts holes
among the slots that are allocated next. `Inv` is the conjunction of

* `Sound(heap)`: free list and account are exact, no two objects have a serial and none has
  one that is still to come (else a freed reference could come to life again), and what any
  object holds is alive, garbage included;
* `MachineOver(Alive(heap))`: every field of machine, host and evaluation has its type over
  the references that are alive, so that "has its type" and "is alive" are one statement and
  each transition is shown once to keep it, over any set `G` that it may read from;
* `Balanced` and `Arguments`: the `mark` of the n-th pending `With` is n - 1 and likewise for
  rescue bodies, and each running native call has its arguments within the native roots above
  what is set aside. Without the numbers a `discard_cont` that truncates to its mark could cut
  too much or too little;
* `AuxTyped` and `AuxIntact`: what an evaluation has set aside is a prefix of what is there
  while it runs, and the value that the parameter had at the stop is the one that undoing the
  evaluation's own bindings ends with.

Allocation takes a hole and a new serial, so nothing that was alive changes.
A collection keeps what is marked; `SafePointSound` is the case that matters:
`UsedAreRoots` shows, field by field of `gc.rs`, that what is in use is among the roots, a
marked object's children are marked, so all of `MachineOver(Alive(heap))` holds of the smaller
heap (`NarrowOver`). During an evaluation the register, the value in flight and the parked
arguments of the stop are out of their fields; they are in the native roots (`SetAside`), and
the balance of marks says that no native call of the evaluation gives them up. For the
account, a sum over slots is a function of partial sums; that two such functions for the same
slots agree is shown with the least number at which they do not, in place of an induction.
`SlabSound` needs `Bounded` and `Accounted` besides: an object that still awaits its finalizer
has it (`Awaited`), so a sweep runs each finalizer for the first time.

`EmbeddingProofs` proves, from `EmbeddingAssumption` (any names, bounds and width of the
generation, fewer drives than generations):

| theorem | property |
|---|---|
| `Invariance` | the inductive invariant `Inv` |
| `Owned` | `OwnershipExact` |
| `Requested` | `RequestsMatchPhase` |
| `Tokens` | `TokensResolveTheirStack` |
| `Borrows` | `OneBorrower` |

`Inv` adds to the properties what the native stack says of the thread locals: the current
context is the innermost callback that runs, and each callback keeps the one that was current
when it was called (`Linked`, without which the return of a nested callback could leave a
context of a dead frame in force); at most one drive or import is on the stack, and exactly
when the phase is `Running` (`Driven`, without which a second drive could overwrite a pending
request); a callback's reply is a handle of the table, and of each handle as many references
are neither owed nor leaked as callbacks on the stack have handed it over (`Balanced`), which
is counted over the stack and changes by one with each reply, pop and consumption.

The last two need no hypothesis on the host: what is let in while the engine holds the instance
is part of both statements. `Outside` joins the invariant for them: an entry point is only ever
the outermost act and the mark is set exactly under a drive (`Alone`); the stack that the engine
holds is one ahead of the generation between the calls of the host and under `doodle_free`, two
ahead in a drive or an import's resolve, and an evaluation's own in an evaluation (`Moved`), so
a token of the current generation names the first and not the others; `MaxRuns < Generations`
keeps the generation from coming round.

`CallsProofs` proves, from `CallsAssumption` and the assumptions of `Places` (any library, any
program that the resolver accepts, any stack limit, any number of values):

| theorem | property |
|---|---|
| `ControlInvariant` | the inductive invariant `ControlOK` |
| `TailCallsTakeNoStack` | `ProperTails` |
| `ChecksFailForCause` | the action property `StaticChecksSound` |
| `DataInvariant` | the inductive invariant `DataOK` |
| `FramesAreSound` | `FramesSound`: the links, the depth limit, the types, and that a run leaves no binding or exception behind (`NothingLeft`) |

None of these is inductive: what a step pushes is decided by a tree, and whether that is
harmless by what the resolver made of the tree. The proof gives every continuation a place.
`Stands(conts, b, t)` says that the continuations of a frame stand one upon the other from the
place `b` of its body on, each in the place that the one below it leaves (`AbovePlace`), and
that what runs next stands in `t`. `FrameOK` adds the links of a frame to activations below it
that are of the right kind, that a block's body stands in the place of the frame it is
written in (so that a static hop counted in the tree leads to a callable, `OuterFacts`,
`HomeFacts`), that the caller can do with what its callee may hand back (`Served`), and that no
frame is kept that a tail call should have replaced (`Wasted`). `Going` says that the register
serves the place that is next or, while something unwinds, that its target is there: a loop
that the place counts has its continuation in this frame (`LoopAround`), the consumer of a block
and the home of a `return` are callables below. An action then has to show only that what it
schedules stands where the current node stood, and the assumptions say just that of the tree.
The two functions that the machine computes down the stack (`Outer`, `Home`) are shown to exist
by a least counterexample, in place of an induction (`ChaseExists`, `HomewardExists`).

A step that replaces a frame is the case that matters: `Reuses` looks at the resolver's mark, and
the place of a marked call shows that the frame holds nothing open (`TailPlain`), while the
links of the new callee lead below it and its caller is served by the new callee as by the old
one (`ReuseKeeps`).

`DataOK` counts. From the bottom of the stack up, each `WithRestore` takes the number of saved
bindings from its mark to one more and each `PopHandler` the number of exceptions in hand to one
more (`Levels`, `Rising`); the tops of both counts are the lengths of `dyn` and `handling`. Only
with the mark in the invariant does restoring down to the least mark of what is discarded
(`Restore`) leave exactly what the remaining continuations hold open (`Discarded`), whether one
continuation, a frame or many frames go. A stack that is empty counts to nothing, and the oldest
saved value is the parameter's first one; that is `NothingLeft`.

The proof changed one property. `StaticChecksSound` is about the exceptions `NoValue` and
`FellOff`; a bare `raise` throws again whatever was caught, these included, with anything in the
register. It checks no value, and the property now excepts it (`Rethrows`). The run
never showed it: no construct of its family catches what its statement raises and raises that
again.

`ProtocolsProofs` proves, from `ProtocolsAssumption` (any declarations whose bodies, if the
engine made none of them, have the parameters of their members) and a finite set of member
names:

| theorem | property |
|---|---|
| `Invariance` | the inductive invariant `Inv` |
| `Soundness` | `RegistrySound` |
| `CallsEnter` | `ConformingCallsEnter` |
| `Remedies` | `ErrorsHaveRemedies` |
| `KeepRunning` | the action property `CallsKeepRunning` |

None of these is inductive: they compare what the resolver knew, from the declarations of one
module by name, with what the registry has, by id. `Inv` says how the two belong together.
`Registered`: the well-known protocol is the first, a parent has a lower id than its child, no
two protocols have a name. `Declared`: the resolver has accepted the program, names are
declared once and parents before children. `Recorded`: every declared protocol is one of the
registry with its members and its parent's name, and every block is of a declaration.

`Chain` and `ModuleChain` are recursive functions, which exist because a parent comes before
its child (`ClimbExists`), and everything about chains is shown up to a number (`UpTo`, the
least number of `StackLemmas` in place of an induction). From `Recorded` the resolver's chain
and the registry's are `Alike` when all of it is in module 1, and its declarations of a member
have one shape (`AllKnown`, by `KnownLink` from the check of each protocol against those above
it). What was asked of a block (`BlockChecked`) then gives a body of the member's shape to each
call (`SeenSupplies`), whatever declares the shape that the call is bound against; this is the
lemma the first three properties share. Of the candidates the one with the highest id is
maximal, for only descendants have higher ids (`MaximalFacts`). A declaration leaves the chains
that there are as they are (`GrownChain`), so that a call changes only with a new block for its
type (`SameRun`). The hypothesis `AllSeen` of the properties is needed: without it TLC finds
`RegistrySound` violated, first by an implementation of the well-known protocol that gives no
method, which the resolver does not check, and whose call runs the native default.
`ConformingCallsEnter` asks for a parameter, the one that a member call dispatches on.

Only model-checked:

* the liveness properties `CancelEnds`, `DriveCallsReturn`, `PauseStops` and `ImportsSettle`:
  fairness, and `ENABLED` with it, is out of the prover's reach;
* `MeansTheSame`, `SlotsMeanNames` and the properties of `Values`: what they are compared with (`Meaning`, `Environments`,
  `Store`) is recursive over trees and values, and so are the resolver's passes. What a recursive
  definition computes for every input needs induction over data, with theorems that take an
  operator as a parameter, which the provers cannot instantiate. For the same reason it is not
  proved, but evaluated by TLC on every program of `calls`, that what `Resolver` accepts keeps the
  assumptions of `Places`;
* `Operators`: division, remainder, rounding and the bounds of words are nonlinear arithmetic
  with powers of two, which the SMT backend does not decide.

## 5. Plan

1. `Scopes`: that slots and cells are in bounds and cells shared as `SlotsMeanNames` needs, from
   what the resolver promises of the names of a tree, as `Places` has it for control.
2. `Calls` and `Locals` as one machine, with the binding of arguments; constants and imported
   names in `Scopes`.
3. The lexer's modes (interpolation, brackets, triple-quoted strings).

## 6. Not modelled

The lexer and the parser: sequential functions of the text without state between calls; the
trees they make are `Syntax`. Constants, records, imported names and the warnings in `Scopes`;
the binding of arguments to more than one parameter outside `Protocols`. The
text of diagnostics, rendering, and pure readers (they change no state). The names in a
namespace and the use of wildcards, in `ModuleLoad`. The values a program computes, in
`Drive`: they decide which transition is next, and the model allows all. Type tests, rendering
of values, slices. The WebAssembly facade and the command line host, other than as the
environment of `Drive`, `ModuleLoad`, `HandleTable`, `Roots` and `Embedding`. Test tooling, corpus,
fuzz targets and examples. The debug-build assertions.
