---------------------------- MODULE MCEmbedding ----------------------------
(* The C ABI, model-checked.                                                *)
EXTENDS Embedding

TypeOK ==
  /\ boxes \subseteq Builders /\ owns \subseteq Builders /\ names \subseteq Names
  /\ phase \in {"None", "Ready", "Running", "Capability", "Import", "Paused",
                "Completed", "Raised", "Faulted", "Freed"}
  /\ frames \in Nat /\ generation \in 0 .. Generations - 1
  /\ tokens \subseteq [generation : 0 .. Generations - 1, of : Nat]
  /\ inDrive \in BOOLEAN /\ currentCtx \in {NoCtx} \cup stash
  /\ parked \in {"None", "Exit", "Fault"}

\* A token that is not refused was given for the stack that the engine holds,
\* across drives, slices without fuel, resolves and evaluations: whenever the
\* host is let in between its calls or by a finalizer of doodle_free, and never
\* where doodle_resolve_import or doodle_eval_to_string let it in, which run on
\* another stack than any token that they accept was given for (observe/mod.rs
\* checked_ref, instance.rs fill_outcome).
TokensResolveTheirStack ==
  PointerUsed /\ PointerAccepted =>
    \A t \in tokens : Current(t) =>
      (t.of = frames <=> acts = <<>> \/ acts[1].kind = "free")

\* How many of the callbacks that run have handed h over.
Replies(h) ==
  Cardinality({i \in DOMAIN acts : acts[i].kind = "callback" /\ acts[i].reply = h})

\* A builder is allocated exactly as long as the host has to free it or hand it
\* over; and of every handle, each reference in the table is one that the host
\* still has to release, one the engine will release when a callback returns,
\* or one that a call was seen to forget (value.rs emit, registry.rs
\* doodle_registry_add_foreign, call.rs trampoline).
OwnershipExact ==
  /\ boxes = owns
  /\ \A h \in Ids : LET c == handles[h] IN
       \/ c.refs = c.owed + c.leaked + Replies(h)
       \/ c.refs = 0 /\ c.owed = 0 /\ c.leaked = 0

\* Between the calls of the host, what an instance keeps for it is what its
\* last outcome left: the arguments of a capability only while it waits for
\* that one, all minted; an import path or a raise only in those phases
\* (instance.rs fill_outcome).
RequestsMatchPhase ==
  /\ TypeOK
  /\ acts = <<>> =>
       /\ CapabilityArg(1) # "Contract" <=> phase = "Capability"
       /\ \A i \in 1 .. MaxHandles : CapabilityArg(i) = "Ok" => pending.args[i] \in Ids
       /\ ImportSegment = "Ok" <=> phase = "Import"
       /\ Described = "Ok" <=> phase = "Raised"

\* p is the innermost callback that runs.
InnermostCallback(p) ==
  /\ p \in DOMAIN acts /\ acts[p].kind = "callback"
  /\ \A i \in DOMAIN acts : acts[i].kind = "callback" => i <= p

\* Whatever the host runs in, the pointer is refused exactly under a call that
\* marks the drive, however deep the callbacks, blocks and finalizers between
\* them nest, and of all the contexts that were ever given only the one of the
\* innermost callback is taken, also by a finalizer above it (instance.rs
\* IN_DRIVE, call.rs CURRENT_CTX).
OneBorrower ==
  HostRuns =>
    /\ Loaded => (PointerAccepted <=> \A i \in DOMAIN acts : acts[i].kind # "drive")
    /\ \A p \in stash : CtxAccepted(p) <=> InnermostCallback(p)

\* A callback that goes back in through the instance pointer is refused
\* (instance.rs 243-247: "if it re-enters through any instance-pointer entry,
\* forming a second &mut/&Instance would alias the live &mut"; the accessors
\* "refuse (ErrContract) rather than form the aliasing reference").
CallbacksRefused == Loaded /\ Top = "callback" => ~PointerAccepted
=============================================================================
