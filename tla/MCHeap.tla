------------------------------- MODULE MCHeap -------------------------------
(* The two keepers of what a host holds, each on its own: the collector with *)
(* the handles as a set of roots, and the table that is this set, at a small *)
(* size: three generations, so that slots wrap within the references minted, *)
(* and values that may be exchanged. One of them moves in each behaviour.    *)
EXTENDS MCRoots, HandleBounds

CONSTANTS v1, v2
MCValues == {v1, v2}
MCSymmetry == Permutations(MCValues)

VARIABLES part, slots, freeHead, answer, minted, freed

Handles == INSTANCE HandleTable WITH turn <- freed

HeapInit ==
  /\ part \in {"roots", "table"} /\ Init /\ Handles!Init
  /\ part = "table" => ~stress
HeapNext ==
  \/ part = "roots" /\ MCNext /\ UNCHANGED <<part, slots, freeHead, answer, minted, freed>>
  \/ part = "table" /\ Handles!Next /\ UNCHANGED <<part, vars>>
HeapSpec == HeapInit /\ [][HeapNext]_<<part, vars, slots, freeHead, answer, minted, freed>>

\* The table of handles is sound: its free list, its generations with their
\* wrap-around, its counts and the values it roots are exact in every order of
\* its operations (HandleTable).
TableSound == Handles!TableSound

\* The host cannot tell the table from references that are never used again
\* (References).
Implements == Handles!Implements
=============================================================================
