----------------------------- MODULE Operators -----------------------------
(* Evaluating a unary or binary operator: the left operand, then the right,  *)
(* then the application, whose result is the next left operand. The register *)
(* holds the last value; an outcome that is not a value ends the evaluation. *)
EXTENDS Numbers, Sequences

CONSTANTS
  Literals,   \* values a program writes or a host makes
  MaxSteps    \* bound: operators in one expression

VARIABLES
  reg,    \* the register: a value, or how the evaluation ended
  last,   \* the operator applied last and its operands
  steps

vars == <<reg, last, steps>>

None == [op |-> "none"]
IsValue(v) == v.kind \notin {"Raise", "Fault"}

Init == reg \in Literals /\ last = None /\ steps = 0

BinApply(op, rhs) ==
  /\ IsValue(reg) /\ steps < MaxSteps
  /\ reg' \in Binary(op, reg, rhs)
  /\ last' = [op |-> op, lhs |-> reg, rhs |-> rhs]
  /\ steps' = steps + 1

UnaryApply(op) ==
  /\ IsValue(reg) /\ steps < MaxSteps
  /\ reg' = Unary(op, reg)
  /\ last' = [op |-> op, rhs |-> reg]
  /\ steps' = steps + 1

Next ==
  \/ \E op \in Comparisons \cup Arithmetic, rhs \in Literals : BinApply(op, rhs)
  \/ \E op \in {"-", "+", "not"} : UnaryApply(op)

Spec == Init /\ [][Next]_vars

----------------------------------------------------------------------------
Binary_ == "lhs" \in DOMAIN last
OnNums == Binary_ /\ IsNum(last.lhs) /\ IsNum(last.rhs)
OnInts == Binary_ /\ IsInt(last.lhs) /\ IsInt(last.rhs)

\* Every value in the register has one form: an integer is a BigInt exactly
\* when the word is too small for it, and no operator makes a float that is
\* not finite (arith.rs:3-9).
ResultsCanonical ==
  /\ IsInt(reg) => ((reg.kind = "Int") = (reg.n \in -Pow2(IntBits - 1) .. Pow2(IntBits - 1) - 1))
  /\ (last # None /\ IsFloat(reg)) => Finite(reg)

\* Integer results are exact at every magnitude, across the promotion to and
\* from BigInt, and floored division obeys its law: the quotient times the
\* divisor plus the remainder is the dividend, and the remainder lies between
\* zero and the divisor; for floats the remainder has the divisor's sign and is
\* no larger (arith.rs:134-188).
DivisionLaw ==
  /\ (OnInts /\ IsInt(reg)) =>
       LET x == last.lhs.n
           y == last.rhs.n
       IN CASE last.op = "+" -> reg.n = x + y
            [] last.op = "-" -> reg.n = x - y
            [] last.op = "*" -> reg.n = x * y
            [] last.op = "**" -> reg.n = IF y = 0 THEN 1 ELSE x ^ y
            [] last.op = "//" -> LET r == x - reg.n * y IN
                                 IF y > 0 THEN 0 <= r /\ r < y ELSE y < r /\ r <= 0
            [] last.op = "%" -> /\ (x - reg.n) % Abs(y) = 0
                                /\ IF y > 0 THEN 0 <= reg.n /\ reg.n < y ELSE y < reg.n /\ reg.n <= 0
  /\ (OnNums /\ ~OnInts /\ last.op = "%" /\ IsFloat(reg)) =>
       LET y == NumToFloat(last.rhs) IN
       IsZero(reg) \/ (reg.neg = y.neg /\ PartialCmp([reg EXCEPT !.neg = FALSE], [y EXCEPT !.neg = FALSE]) # Greater)

\* Numbers of both kinds have one order, that of their exact values: it is
\* transitive through any third number, a NaN equals itself and has no order,
\* and numbers that are equal hash alike, so a key finds its entry whichever
\* kind it was written in (compare.rs:3-12, hash.rs:205-240).
OneOrder ==
  (OnNums /\ last.op = "<=") =>
    LET a == last.lhs
        b == last.rhs
    IN /\ NumericEqual(a, b) => HashNumber(a) = HashNumber(b)
       /\ NumericEqual(a, a)
       /\ NumericCmp(a, b) = Reverse_(NumericCmp(b, a))
       /\ (NumericCmp(a, b) = Unordered) = (a = NaN \/ b = NaN)
       /\ \A c \in {l \in Literals : IsNum(l)} :
            /\ (NumericCmp(a, b) \in {Less, Equal} /\ NumericCmp(b, c) \in {Less, Equal}) =>
                 NumericCmp(a, c) = Min({NumericCmp(a, b), NumericCmp(b, c)})
            /\ (NumericEqual(a, b) /\ NumericEqual(b, c)) => NumericEqual(a, c)

\* One operation never builds more than its cap: what was estimated before a
\* product, a power or a repetition bounds what was built (strop.rs:126-135,
\* arith.rs:106-113, 213-222).
NoOversizedResult ==
  /\ (OnInts /\ IsInt(reg) /\ last.op \in {"*", "**"}) => (Bits(reg.n) <= 1 \/ Admitted(Bytes(Bits(reg.n))))
  /\ (Binary_ /\ last.op = "*" /\ IsStr(reg)) => Admitted(reg.len)

\* What every operator's result is trusted with: see ResultsCanonical and
\* NoOversizedResult.
ResultsSound == ResultsCanonical /\ NoOversizedResult
=============================================================================
