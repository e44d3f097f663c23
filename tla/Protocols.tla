------------------------------ MODULE Protocols ------------------------------
(***************************************************************************)
(* Protocols: the instance's registry and single dispatch on the type of   *)
(* the first argument (machine/protocol), the `is` test of a protocol      *)
(* (types.rs) and the resolver's conformance checks                        *)
(* (resolve/walk/protocols.rs).                                            *)
(*                                                                         *)
(* A program is the declarations it has run so far.  Those of module 1 are *)
(* the program's own; those of module 2 are imported, and the resolver of  *)
(* module 1 does not see them.                                             *)
(***************************************************************************)
EXTENDS Integers, Sequences, SequencesExt, FiniteSets

CONSTANTS
  ProtocolForms,   \* the protocol declarations a program may run
  ImplementForms,  \* the implement declarations a program may run
  MaxDecls,        \* how many declarations a program runs
  MaxImports       \* how many of its protocols are imported

VARIABLES
  reg,   \* the registry (protocol::Registry)
  file   \* the declarations run so far, in order

vars == <<reg, file>>

NoProtocol == 0
NoParent == ""   \* it extends nothing
Positional == "" \* an argument without a keyword
NoBody == <<>>

\* A member: its ordinary parameters, whether it takes a block, its default
\* body if it has one, whether the engine supplies one.
Member(name, params, blk, default) ==
  [name |-> name, params |-> params, blk |-> blk, default |-> default,
   native |-> FALSE]

\* A declaration: protocol `name` extending the protocol named `parent`, or
\* the methods of an implementation.  A body is [params, blk, id].
Protocol(name, parent, members) ==
  [k |-> "Protocol", name |-> name, parent |-> parent, members |-> members, mod |-> 1]
Implement(name, ty, methods) ==
  [k |-> "Implement", name |-> name, ty |-> ty, methods |-> methods, mod |-> 1]
Body(params, blk, id) == [params |-> params, blk |-> blk, id |-> id]

Sequence(s) == s \in Seq(ToSet(s))

\* A default is the body of its member and has the member's parameters; only
\* the engine has natives.
Written(m) ==
  /\ Sequence(m.params) /\ m.native = FALSE
  /\ m.default # NoBody =>
       /\ Len(m.default) = 1
       /\ Len(m.default[1].params) = Len(m.params) /\ m.default[1].blk = m.blk

ASSUME ProtocolsAssumption ==
  /\ MaxDecls \in Nat /\ MaxImports \in Nat
  /\ \A d \in ProtocolForms :
       /\ d.k = "Protocol" /\ d.mod \in {1, 2} /\ Sequence(d.members)
       /\ \A i \in DOMAIN d.members : Written(d.members[i])
  /\ \A d \in ImplementForms :
       d.k = "Implement" /\ d.mod = 1 /\ Sequence(d.methods)

LowestOf(S) == CHOOSE p \in S : \A q \in S : p <= q

\* Where a sequence of declarations has those of a name, the first of them,
\* and where a chain of protocols has it first: the nearest declares it.
Places(decls, name) == {i \in DOMAIN decls : decls[i].name = name}
First(decls, name) == decls[LowestOf(Places(decls, name))]
Declarers(chain, name) == {n \in DOMAIN chain : Places(chain[n].members, name) # {}}
Nearest(chain, name) == First(chain[LowestOf(Declarers(chain, name))].members, name)

----------------------------------------------------------------------------
\* The registry: protocols in load order, their parents by id, and the
\* implement blocks in load order.
WellKnown ==
  [name |-> "Known", parent |-> NoProtocol,
   members |-> <<[Member("known", <<"self">>, FALSE, NoBody) EXCEPT !.native = TRUE]>>]
InitialRegistry == [protos |-> <<WellKnown>>, impls |-> <<>>]

Ids(r) == DOMAIN r.protos

IdOf(r, name) == CHOOSE p \in Ids(r) : r.protos[p].name = name
Defined(r, name) == \E p \in Ids(r) : r.protos[p].name = name

\* A protocol and its ancestors, nearest first.
Chain(r, p) ==
  LET Up[i \in Ids(r)] ==
        <<i>> \o (IF r.protos[i].parent = NoProtocol THEN <<>> ELSE Up[r.protos[i].parent])
  IN Up[p]

\* The definitions of a protocol's chain.
Lineage(r, p) == [n \in DOMAIN Chain(r, p) |-> r.protos[Chain(r, p)[n]]]

Declares(r, p, m) == Declarers(Lineage(r, p), m) # {}
Reaches(r, p, q) == q \in ToSet(Chain(r, p))

BlocksOf(r, p, ty) == {i \in DOMAIN r.impls : r.impls[i].proto = p /\ r.impls[i].ty = ty}
IsImplemented(r, p, ty) == BlocksOf(r, p, ty) # {}
TypeImplements(r, ty, p) ==
  \E i \in DOMAIN r.impls : r.impls[i].ty = ty /\ Reaches(r, r.impls[i].proto, p)

\* The blocks of (p, ty) that supply the member, and the method of the first.
Supplying(r, p, ty, m) == {i \in BlocksOf(r, p, ty) : Places(r.impls[i].methods, m) # {}}
Method(r, p, ty, m) == First(r.impls[LowestOf(Supplying(r, p, ty, m))].methods, m).body

\* The protocols of a chain that give the member a default, and the nearest one's.
Defaulting(chain, m) ==
  {n \in Declarers(chain, m) : First(chain[n].members, m).default # NoBody}
DefaultBody(chain, m) == First(chain[LowestOf(Defaulting(chain, m))].members, m).default[1]

NativeDefault(r, m) ==
  \E p \in Ids(r) : \E i \in Places(r.protos[p].members, m) : r.protos[p].members[i].native

\* An implemented ancestor is subsumed by an implemented descendant.
Maximal(r, candidates) ==
  {p \in candidates : \A q \in candidates \ {p} : ~Reaches(r, q, p)}

Call(b) == [k |-> "Call", body |-> b]
Native == [k |-> "Native"]
NotImplemented(p) == [k |-> "NotImplemented", proto |-> p]
Ambiguous(p, q) == [k |-> "Ambiguous", protos |-> {p, q}]

\* Mutant: the error names the protocol of the chain that declares the member.
DeclaringAncestor(r, m, filter) ==
  LowestOf({p \in Declarers(r.protos, m) : filter # NoProtocol => Reaches(r, filter, p)})

\* The protocol an error points at.
DeclaringProtocol(r, m, filter) ==
  IF filter # NoProtocol THEN filter ELSE LowestOf(Declarers(r.protos, m))

\* Mutant: no default stands in for a method the block leaves out.
SuppliedByBlocks(r, p, m, ty) ==
  IF Supplying(r, p, ty, m) # {} THEN Call(Method(r, p, ty, m))
  ELSE IF NativeDefault(r, m) THEN Native ELSE NotImplemented(p)

\* What the one implementing protocol supplies.
Supplied(r, p, m, ty) ==
  IF Supplying(r, p, ty, m) # {} THEN Call(Method(r, p, ty, m))
  ELSE IF Defaulting(Lineage(r, p), m) # {} THEN Call(DefaultBody(Lineage(r, p), m))
  ELSE IF NativeDefault(r, m) THEN Native ELSE NotImplemented(p)

\* How a member call resolves for a runtime type; filter is the protocol of a
\* qualified call.
Resolve(r, m, ty, filter) ==
  LET candidates == {p \in Ids(r) : /\ filter \in {NoProtocol, p}
                                    /\ Declares(r, p, m) /\ IsImplemented(r, p, ty)}
      best == Maximal(r, candidates)
      first == LowestOf(best)
  IN IF best = {}
     THEN IF NativeDefault(r, m) THEN Native
          ELSE NotImplemented(DeclaringProtocol(r, m, filter))
     ELSE IF Cardinality(best) = 1 THEN Supplied(r, first, m, ty)
     ELSE Ambiguous(first, LowestOf(best \ {first}))

----------------------------------------------------------------------------
\* Mutant: a qualified call binds against any declarer's signature.
SignatureOfAny(r, m, filter) == Nearest(r.protos, m)

\* The signature a call binds against: the member of the filter's chain, or of
\* the first protocol that declares it.
Signature(r, m, filter) ==
  Nearest(IF filter = NoProtocol THEN r.protos ELSE Lineage(r, filter), m)

\* Each argument's parameter: a positional one takes the next, a keyword one
\* the parameter of its name.
Position(params, args, i) ==
  IF args[i] = Positional THEN Cardinality({j \in 1..i : args[j] = Positional})
  ELSE IF args[i] \in ToSet(params) THEN CHOOSE j \in DOMAIN params : params[j] = args[i]
  ELSE NoProtocol

Error(e) == [k |-> "Error", e |-> e]
Entered(b) == [k |-> "Entered", id |-> b.id]

\* What is wrong with argument i, as the arguments before it are bound.
Wrong(params, args, i) ==
  LET at == Position(params, args, i)
  IN IF at > Len(params) THEN "TooMany"
     ELSE IF at = NoProtocol THEN "Unknown"
     ELSE IF \E j \in 1..(i - 1) : Position(params, args, j) = at THEN "Duplicate"
     ELSE "None"

\* Entering an implementation: it takes the bound values in order.
Enter(b, bound, blk) ==
  CASE Len(b.params) > bound -> Error("Missing")
    [] Len(b.params) < bound -> Error("TooMany")
    [] b.blk # blk -> Error("Block")
    [] OTHER -> Entered(b)

\* A call of a member: bind, dispatch on the first parameter's type, enter.
CallMember(r, m, filter, ty, args, blk) ==
  LET params == Signature(r, m, filter).params
      bad == {i \in DOMAIN args : Wrong(params, args, i) # "None"}
      given == {Position(params, args, i) : i \in DOMAIN args}
      d == Resolve(r, m, ty, filter)
  IN CASE bad # {} -> Error(Wrong(params, args, LowestOf(bad)))
       [] bad = {} /\ 1 \notin given -> Error("Missing")
       [] bad = {} /\ 1 \in given /\ d.k = "Call" ->
            IF given # DOMAIN params THEN Error("Missing")
            ELSE Enter(d.body, Len(params), blk)
       [] OTHER -> d

----------------------------------------------------------------------------
\* The resolver's view: the protocols of the same module, by name, in order.
Shape(d) == [arity |-> Len(d.params), blk |-> d.blk]
ProtocolsIn(f, mod) == {i \in DOMAIN f : f[i].k = "Protocol" /\ f[i].mod = mod}
InModule(f, mod, name) == \E i \in ProtocolsIn(f, mod) : f[i].name = name
DeclOf(f, mod, name) == CHOOSE i \in ProtocolsIn(f, mod) : f[i].name = name

\* The chain through protocols of the module, and whether it is cut short by
\* an imported parent (same_module_chain).  A parent precedes its child.
ModuleChain(f, mod, name) ==
  LET Up[i \in ProtocolsIn(f, mod)] ==
        <<f[i]>> \o (IF f[i].parent # NoParent /\ InModule(f, mod, f[i].parent)
                     THEN Up[DeclOf(f, mod, f[i].parent)] ELSE <<>>)
  IN Up[DeclOf(f, mod, name)]
CutShort(f, mod, name) ==
  LET c == ModuleChain(f, mod, name)
  IN c[Len(c)].parent # NoParent

\* The nearest declaration of each member of a chain (effective_members).
NamesIn(chain) == UNION {{d.name : d \in ToSet(chain[n].members)} : n \in DOMAIN chain}
Effective(chain) == {Nearest(chain, m) : m \in NamesIn(chain)}

WellKnownMembers(name) == IF name = WellKnown.name THEN ToSet(WellKnown.members) ELSE {}

\* A re-declared member keeps its ancestor's shape (check_protocol).
ProtocolOk(f, d) ==
  LET above == Tail(ModuleChain(f, d.mod, d.name))
  IN \A m \in ToSet(d.members) :
       m.name \in NamesIn(above) => Shape(Nearest(above, m.name)) = Shape(m)

\* Mutant: an inherited requirement is not asked for.
RequiredOfItself(f, d) ==
  {m \in ToSet(f[DeclOf(f, d.mod, d.name)].members) : m.default = NoBody}

\* What an implementation must provide (check_implement).
Required(f, d) ==
  {m \in Effective(ModuleChain(f, d.mod, d.name)) : m.default = NoBody}

\* Each method matches its member, every required member is provided; what an
\* imported protocol asks for is unknown.
ImplementOk(f, d) ==
  LET local == InModule(f, d.mod, d.name)
      members == IF local THEN Effective(ModuleChain(f, d.mod, d.name))
                 ELSE WellKnownMembers(d.name)
      cut == local /\ CutShort(f, d.mod, d.name)
      Named(x) == {m \in members : m.name = x.name}
  IN \/ ~local /\ members = {}
     \/ /\ \A x \in ToSet(d.methods) :
             IF Named(x) # {} THEN \A m \in Named(x) : Shape(m) = Shape(x.body) ELSE cut
        /\ local /\ ~cut =>
             {m.name : m \in Required(f, d)} \subseteq {x.name : x \in ToSet(d.methods)}

Accepted(f) ==
  \A d \in ToSet(f) : IF d.k = "Protocol" THEN ProtocolOk(f, d) ELSE ImplementOk(f, d)

----------------------------------------------------------------------------
\* Running a protocol declaration.  Its parent has been defined: a forward
\* reference raises and stops the load.
DefineProtocol ==
  \E d \in ProtocolForms :
    /\ Len(file) < MaxDecls
    /\ ~Defined(reg, d.name)
    /\ d.parent # NoParent => Defined(reg, d.parent)
    /\ d.mod = 2 => /\ Cardinality(ProtocolsIn(file, 2)) < MaxImports /\ ProtocolsIn(file, 1) = {}
                    /\ d.parent # NoParent => InModule(file, 2, d.parent)
    /\ Accepted(Append(file, d))
    /\ file' = Append(file, d)
    /\ reg' = [reg EXCEPT !.protos =
                 Append(@, [name |-> d.name, members |-> d.members,
                            parent |-> IF d.parent = NoParent THEN NoProtocol
                                       ELSE IdOf(reg, d.parent)])]

\* The runtime types a type value covers (type_keys): an umbrella its leaves.
TypeKeys(ty) == IF ty = "Number" THEN <<"Int", "Float">> ELSE <<ty>>

DefineImplement ==
  \E d \in ImplementForms :
    /\ Len(file) < MaxDecls
    /\ Defined(reg, d.name)
    /\ Accepted(Append(file, d))
    /\ file' = Append(file, d)
    /\ reg' = [reg EXCEPT !.impls =
                 @ \o [i \in DOMAIN TypeKeys(d.ty) |->
                         [proto |-> IdOf(reg, d.name), ty |-> TypeKeys(d.ty)[i],
                          methods |-> d.methods]]]

Init == reg = InitialRegistry /\ file = <<>>
Next == DefineProtocol \/ DefineImplement
Spec == Init /\ [][Next]_vars
=============================================================================
