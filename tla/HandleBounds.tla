---------------------------- MODULE HandleBounds ----------------------------
(* The sizes of a handle table (machine/handle.rs), and what it is for.     *)
EXTENDS Integers

CONSTANTS
  Values,         \* values that cross to the host
  Id, OtherIds,   \* the id of this instance, and those of the others
  MaxSlots,       \* the indexes a handle can hold (2^24 in a debug build)
  LastGeneration, \* the last generation (2^32 - 1)
  MaxRefs,        \* bound: counts the host keeps on one reference (2^32 - 1)
  MaxMinted       \* bound: references the host is given

ASSUME HandleAssumption ==
  /\ Id \notin OtherIds
  /\ MaxSlots \in Nat /\ MaxMinted \in Nat
  /\ LastGeneration \in Nat \ {0} /\ MaxRefs \in Nat \ {0}
=============================================================================
