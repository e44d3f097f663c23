----------------------------- MODULE MCProtocols -----------------------------
(***************************************************************************)
(* The protocol model on programs of up to MaxDecls declarations, and what *)
(* dispatch promises.                                                      *)
(***************************************************************************)
EXTENDS Protocols, TLC

CONSTANTS Types, Members \* the types and the member names that are asked about

ASSUME MembersAssumption == IsFiniteSet(Members)

One == <<"self">>
Two == <<"it", "by">>

Default(name, member, params) == <<Body(params, FALSE, <<name, member, "default">>)>>

MembersOf(name) ==
  {<<Member("m", One, FALSE, NoBody)>>,
   <<Member("m", One, FALSE, Default(name, "m", One))>>,
   <<Member("m", Two, FALSE, NoBody)>>,
   <<Member("n", One, TRUE, NoBody), Member("m", One, FALSE, Default(name, "m", One))>>}

\* P, Q and R, each extending an earlier one or none; a P that extends nothing
\* may be imported.
Extending(name, parents, forms) ==
  {Protocol(name, parent, members) : parent \in parents, members \in forms}
MCProtocolForms ==
  Extending("P", {"", "Known"}, MembersOf("P")) \cup Extending("Q", {"", "P"}, MembersOf("Q"))
  \cup Extending("R", {"P", "Q"}, {<<Member("m", One, FALSE, NoBody)>>,
                                   <<Member("m", One, FALSE, Default("R", "m", One))>>})
  \cup {[d EXCEPT !.mod = 2] : d \in Extending("P", {""}, MembersOf("P"))}

\* What an implementation of `name` may give: nothing, or methods of m and n.
MethodsOf(name, ty) ==
  LET M(member, params, blk) ==
        [name |-> member, body |-> Body(params, blk, <<name, ty, member>>)]
  IN {<<>>, <<M("m", One, FALSE)>>, <<M("n", One, TRUE)>>,
      <<M("m", One, FALSE), M("n", One, TRUE)>>}
       \cup (IF name = "P" THEN {<<M("m", Two, FALSE)>>} ELSE {})

MCImplementForms ==
  UNION {{Implement(name, "T", methods) : methods \in MethodsOf(name, "T")} : name \in {"P", "Q", "R"}}
  \cup {Implement("P", "Number", methods) : methods \in MethodsOf("P", "Number")}
  \cup {Implement("Known", "T", methods) :
          methods \in {<<>>, <<[name |-> "known", body |-> Body(One, FALSE, <<"Known", "T">>)]>>}}

----------------------------------------------------------------------------
\* The calls a program can write: a bare member some protocol declares, or a
\* qualified one of a protocol that has it.
Callable(m, filter) ==
  \E p \in Ids(reg) : filter \in {NoProtocol, p} /\ Declares(reg, p, m)

TypeOK ==
  /\ Len(file) <= MaxDecls
  /\ \A p \in Ids(reg) : reg.protos[p].parent \in 0..(p - 1)
  /\ \A i \in DOMAIN reg.impls : reg.impls[i].proto \in Ids(reg)

DeclaredBy(p) == {m \in Members : Declares(reg, p, m)}

\* The resolver sees the whole chain of p: nothing of it is imported or
\* well-known.
AllSeen(p) == \A q \in ToSet(Chain(reg, p)) : InModule(file, 1, reg.protos[q].name)

\* `implement P for ty`, giving every member P asks for.
Implementing(p, ty) ==
  [reg EXCEPT !.impls = Append(@, [proto |-> p, ty |-> ty, methods |->
     [i \in DOMAIN SetToSeq(DeclaredBy(p)) |->
        [name |-> SetToSeq(DeclaredBy(p))[i], body |-> Body(One, FALSE, <<"added">>)]]])]

\* The two dispatch errors point at what repairs them: the protocol that
\* `protocol-not-implemented` names makes the call enter once it is implemented,
\* and qualifying an ambiguous call with either protocol it names is never
\* ambiguous, and runs something when the resolver saw that protocol's whole
\* chain.
ErrorsHaveRemedies ==
  \A m \in Members, filter \in {NoProtocol} \cup Ids(reg) :
    Callable(m, filter) => \A ty \in Types :
       LET d == Resolve(reg, m, ty, filter)
       IN /\ d.k = "NotImplemented" =>
               Resolve(Implementing(d.proto, ty), m, ty, filter).k = "Call"
          /\ d.k = "Ambiguous" =>
               \A p \in d.protos :
                 LET q == Resolve(reg, m, ty, p)
                 IN q.k # "Ambiguous" /\ (AllSeen(p) => q.k = "Call")

\* `x is P` is a promise about members: for a type that implements P, through
\* P or a protocol extending it, a member of P's whole chain is never
\* not-implemented, when the resolver saw the chains.
IsAgrees ==
  \A ty \in Types : \A p \in Ids(reg) :
    /\ TypeImplements(reg, ty, p)
    /\ \A i \in DOMAIN reg.impls : AllSeen(reg.impls[i].proto)
    => \A m \in DeclaredBy(p) : Resolve(reg, m, ty, NoProtocol).k \in {"Call", "Ambiguous"}

\* The registry is well formed and keeps that promise.
RegistrySound == TypeOK /\ IsAgrees

\* The shape checks are enough for the run-time binding, which is done against
\* a declaration that need not be the one the implementation was checked
\* against: a qualified call with one positional argument per parameter, of which
\* there is at least the one dispatched on, and a block exactly when the member
\* takes one, enters its implementation.
ConformingCallsEnter ==
  \A ty \in Types : \A p \in Ids(reg) :
    AllSeen(p) /\ IsImplemented(reg, p, ty) =>
      \A m \in DeclaredBy(p) :
        LET s == Signature(reg, m, p)
        IN s.params # <<>> =>
             CallMember(reg, m, p, ty, [i \in DOMAIN s.params |-> Positional], s.blk).k = "Entered"

\* Running one more declaration never makes a member call that ran raise
\* not-implemented (as long as the resolver saw the implemented chains: an
\* implementation of a protocol with an imported parent may leave out what the
\* parent's implementation supplied), and never changes what a type it does not
\* implement for runs.
CallsKeepRunning ==
  [][reg' # reg =>
     \A m \in Members, ty \in Types, filter \in {NoProtocol} \cup Ids(reg) :
       Callable(m, filter) /\ Resolve(reg, m, ty, filter).k = "Call" =>
         LET d == Resolve(reg, m, ty, filter)
             e == Resolve(reg', m, ty, filter)
         IN /\ (\A i \in DOMAIN reg'.impls : reg'.impls[i].proto = 1 \/ AllSeen(reg'.impls[i].proto)) =>
                 e.k \in {"Call", "Ambiguous"} \cup (IF NativeDefault(reg, m) THEN {"Native"} ELSE {})
            /\ e # d => \E i \in DOMAIN reg'.impls \ DOMAIN reg.impls : reg'.impls[i].ty = ty ]_vars

=============================================================================
