----------------------------- MODULE MCPrograms -----------------------------
(* What running a program means, in two parts: where control goes, for the   *)
(* programs of MCCalls; and which variable a name is, for modules of six     *)
(* statements of chosen kinds in every order and nesting. One of them moves  *)
(* in each behaviour.                                                        *)
EXTENDS MCCalls

CONSTANTS Data, Funs, Params, Heads, Budgets, MaxDepth, MaxCalls
VARIABLES part, walked, scopes, open, callables, globals, pending, budget

walk == <<walked, scopes, open, callables, globals, pending, budget>>

Scoping == INSTANCE Environments WITH frames <- walked

\* No parameter to speak of; one of a local's name; one that has the local of
\* that name as its default.
MCHeads == {<<"_", "">>, <<"x", "">>, <<"x", "x">>}

Ops == {"let", "set", "use", "call", "loop", "do", "fn", "letfn", "setfn"}
Of(bounds) == bounds @@ [k \in Ops |-> 0]

MCBudgets == {
  \* A local that two callables thread inward, its loop's second pass.
  Of([loop |-> 1, let |-> 1, fn |-> 2, use |-> 1, call |-> 1]),
  \* A closure that outlives the pass that made it.
  Of([loop |-> 1, let |-> 1, letfn |-> 1, setfn |-> 1, use |-> 1, call |-> 1]),
  \* A local that a block and a callable share.
  Of([do |-> 1, let |-> 1, fn |-> 1, use |-> 1, set |-> 1, call |-> 1]),
  \* A callable in a block in a block.
  Of([do |-> 2, let |-> 1, fn |-> 1, use |-> 1, call |-> 1]),
  \* A local callable that names itself.
  Of([loop |-> 1, let |-> 1, fn |-> 1, use |-> 1, call |-> 2])}

\* What the part that does not move stands at.
OneMain == CHOOSE p \in Mains : TRUE
OneBudget == CHOOSE b \in Budgets : TRUE

ProgramsInit ==
  /\ part \in {"control", "names"} /\ Scoping!Init /\ Init
  /\ part = "control" => budget = OneBudget
  /\ part = "names" => prog = OneMain
ProgramsNext ==
  \/ part = "control" /\ Next /\ UNCHANGED <<part, walk>>
  \/ part = "names" /\ Scoping!Next /\ UNCHANGED <<part, vars>>
ProgramsSpec == ProgramsInit /\ [][ProgramsNext]_<<part, vars, walk>>

\* Slots, cells, captures and links give every name its lexical meaning in
\* every module that the resolver accepts (Environments).
SlotsMeanNames == Scoping!SlotsMeanNames
=============================================================================
