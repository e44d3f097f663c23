----------------------------- MODULE Statements -----------------------------
(* The statements about values that Store and Values give a meaning to: what *)
(* a program may write, and the bounds. Every record type has one field.     *)
EXTENDS Numbers, Sequences, SequencesExt

CONSTANTS
  Names,        \* variables of the program
  ValTypes,     \* record types
  RefTypes,     \* `ref` record types
  Implements,   \* the types with an `implement Hashable`
  Programs,     \* what a program may run: [main |-> statements, hash |-> the ones
                \* its `hash` implementations run], in any order and any number,
                \* and [objects |-> bound: how many are alive at once]
  MaxLen,       \* bound: entries of a dict
  MaxParked     \* bound: `hash` calls in progress at once

Types == ValTypes \cup RefTypes

ASSUME StatementsAssumption ==
  /\ ValTypes \cap RefTypes = {} /\ Implements \subseteq Types
  /\ MaxLen \in Nat /\ MaxParked \in Nat

\* What is read where a value is wanted; reading copies nothing.
Lit(v) == [e |-> "lit", v |-> v]
Name(x) == [e |-> "name", x |-> x]
FieldOf(x) == [e |-> "field", x |-> x]
ItemOf(x) == [e |-> "item", x |-> x]                \* x[0]
ValueAt(x, k) == [e |-> "at", x |-> x, k |-> k]     \* x[k], k a literal

\* Statements.
Bind(x, e) == [s |-> "bind", x |-> x, e |-> e]             \* x = e
Record(x, t, e) == [s |-> "record", x |-> x, t |-> t, e |-> e]   \* x = t(e)
ListLit(x, es) == [s |-> "list", x |-> x, es |-> es]       \* x = [e, ...]
DictLit(x, kvs) == [s |-> "dict", x |-> x, lit |-> kvs]    \* x = {k: e, ...}
SetField(p, e) == [s |-> "field", p |-> p, e |-> e]        \* p.field = e
StoreAt(x, k, e) == [s |-> "store", x |-> x, k |-> k, e |-> e]     \* x[k] = e
Read(x, y, k) == [s |-> "read", x |-> x, y |-> y, k |-> k] \* x = y[k]
\* The end of the innermost `hash`, with an Int or another value.
Returns == [s : {"return"}, isInt : BOOLEAN]

NoStatement == [s |-> "none"]
OK == "ok"
IsRaise(v) == v.kind = "Raise"
FirstRaise(vs) == vs[Min({i \in DOMAIN vs : IsRaise(vs[i])})]
=============================================================================
