---------------------------- MODULE References ----------------------------
(* What the handles of an instance promise its host (the boundary contract  *)
(* of machine/handle.rs), without slots, generations or a free list: each   *)
(* interned value is a reference of its own, counted by the host, which     *)
(* yields that value while it is held and is refused ever after.            *)
EXTENDS Integers, Sequences

CONSTANTS
  Values,     \* values that cross to the host
  MaxMinted,  \* bound: references the host is given
  MaxRefs     \* bound: counts the host keeps on one reference

VARIABLES
  refs,   \* the references given out so far, in order, with their counts
  answer  \* of which reference the last operation was, and what it answered

vars == <<refs, answer>>

Held(n) == refs[n].held > 0

Answer(n, what) == [of |-> n, is |-> what]

Init == refs = <<>> /\ answer = Answer(0, "Done")

Intern(v) ==
  /\ Len(refs) < MaxMinted
  /\ refs' = Append(refs, [value |-> v, held |-> 1])
  /\ answer' = Answer(Len(refs'), "Done")

Retain(n) ==
  /\ Held(n) /\ refs[n].held < MaxRefs
  /\ refs' = [refs EXCEPT ![n].held = @ + 1]
  /\ answer' = Answer(n, "Done")

Release(n) ==
  /\ Held(n)
  /\ refs' = [refs EXCEPT ![n].held = @ - 1]
  /\ answer' = Answer(n, "Done")

Resolve(n) ==
  /\ Held(n)
  /\ answer' = Answer(n, refs[n].value)
  /\ UNCHANGED refs

\* A reply hands its reference over together with the value.
Consume(n) ==
  /\ Held(n)
  /\ refs' = [refs EXCEPT ![n].held = @ - 1]
  /\ answer' = Answer(n, refs[n].value)

Refuse(n) ==
  /\ ~Held(n)
  /\ answer' = Answer(n, "Stale")
  /\ UNCHANGED refs

\* A reference of another instance is no reference here, whatever it reads.
Mistake ==
  /\ answer' \in {Answer(0, "Stale"), Answer(0, "ForeignInstance")}
  /\ UNCHANGED refs

Next ==
  \/ \E v \in Values : Intern(v)
  \/ \E n \in 1 .. Len(refs) :
       Retain(n) \/ Release(n) \/ Resolve(n) \/ Consume(n) \/ Refuse(n)
  \/ Mistake

Spec == Init /\ [][Next]_vars
=============================================================================
