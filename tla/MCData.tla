------------------------------- MODULE MCData -------------------------------
(* What a program computes with, in two parts: the operators on numbers and  *)
(* strings, over words of four bits and every float with two bits of         *)
(* fraction and three of exponent, so that the integers and the floats reach *)
(* past each other both ways; and the statements on variables, records,      *)
(* lists and dicts. One of them moves in each behaviour.                     *)
EXTENDS MCValues

CONSTANTS Literals, MaxSteps
VARIABLES part, reg, last, steps

Operators == INSTANCE Operators

MCLibmResults == {Float(FALSE, 0, 1), Float(TRUE, 4, 2)}

MCLiterals ==
  {IntValue(n) : n \in (-3 .. 3) \cup {-15, -9, -8, -7, 7, 8, 9, 13, 15, 17}} \cup Floats
  \cup {Str(0), Str(1), Str(3), Bool(TRUE), [kind |-> "List"]}

DataInit ==
  /\ part \in {"operators", "statements"} /\ Init /\ Operators!Init
  /\ part = "operators" => program.main = Copies
  /\ part = "statements" => reg = IntValue(1)
DataNext ==
  \/ part = "operators" /\ Operators!Next /\ UNCHANGED <<part, vvars>>
  \/ part = "statements" /\ Next /\ UNCHANGED <<part, reg, last, steps>>
DataSpec == DataInit /\ [][DataNext]_<<part, vvars, reg, last, steps>>

\* Every operator's result has one form and is finite, and no result is larger
\* than the cap of one operation (Operators).
ResultsSound == Operators!ResultsSound

\* Integer results are exact and floored division obeys its law (Operators).
DivisionLaw == Operators!DivisionLaw

\* Numbers of both kinds have one order, which hashing respects (Operators).
OneOrder == Operators!OneOrder
=============================================================================
