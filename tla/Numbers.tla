------------------------------ MODULE Numbers ------------------------------
(* The numeric tower and the operators on numbers and strings: arith.rs,     *)
(* compare.rs, strop.rs and the number part of hash.rs. An integer is exact  *)
(* and is an Int when it fits the word and a BigInt otherwise; a float is    *)
(* its sign, exponent and fraction fields, with the widths as constants, so  *)
(* that every float of a narrow format can be enumerated. A string is a run  *)
(* of one letter, so that its length is its content. An operator gives the   *)
(* set of its possible outcomes, which has one member except where a library *)
(* computes the value.                                                       *)
EXTENDS Integers, FiniteSets, FiniteSetsExt

CONSTANTS
  IntBits,      \* width of the small integers (64 in the code)
  FracBits,     \* stored bits of a float's fraction (52)
  ExpMax,       \* the exponent field of infinities and NaNs (2047)
  Shift,        \* exponent of a normal float: field - Shift (1075)
  ByteBits,     \* bits of a byte (8)
  OpCap,        \* the largest result, in bytes, one operation may build
  ExpWord,      \* the largest exponent ** computes with (2^32 - 1)
  LibmResults   \* floats the mathematical library may give for a power

ASSUME NumbersAssumption ==
  /\ {IntBits, FracBits, ExpMax, ByteBits, OpCap, ExpWord} \subseteq Nat \ {0}
  /\ Shift \in FracBits .. ExpMax

Pow2(n) == 2 ^ n
Abs(n) == IF n < 0 THEN -n ELSE n

Int_(n) == [kind |-> "Int", n |-> n]
BigInt(n) == [kind |-> "BigInt", n |-> n]
Float(neg, exp, frac) == [kind |-> "Float", neg |-> neg, exp |-> exp, frac |-> frac]
Bool(b) == [kind |-> "Bool", b |-> b]
Str(len) == [kind |-> "Str", len |-> len]
Raise(what) == [kind |-> "Raise", what |-> what]
Fault == [kind |-> "Fault"]

IsInt(v) == v.kind \in {"Int", "BigInt"}
IsFloat(v) == v.kind = "Float"
IsNum(v) == IsInt(v) \/ IsFloat(v)
IsStr(v) == v.kind = "Str"

Finite(x) == x.exp < ExpMax
NaN == Float(FALSE, ExpMax, Pow2(FracBits - 1))
Infinity(neg) == Float(neg, ExpMax, 0)
IsNaN(x) == ~Finite(x) /\ x.frac # 0
FiniteFloats ==
  {Float(neg, e, f) : neg \in BOOLEAN, e \in 0 .. ExpMax - 1, f \in 0 .. Pow2(FracBits) - 1}
Floats == FiniteFloats \cup {Infinity(TRUE), Infinity(FALSE), NaN}

\* The canonical form of an integer.
IntValue(n) ==
  IF -Pow2(IntBits - 1) <= n /\ n < Pow2(IntBits - 1) THEN Int_(n) ELSE BigInt(n)

\* A finite float is mant * 2^exp.
Decompose(x) ==
  LET sig == IF x.exp = 0 THEN x.frac ELSE Pow2(FracBits) + x.frac
  IN [mant |-> IF x.neg THEN -sig ELSE sig,
      exp |-> IF x.exp = 0 THEN 1 - Shift ELSE x.exp - Shift]

----------------------------------------------------------------------------
(* Floating point as the hardware does it: the exact result, a fraction n/d, *)
(* rounded to the nearest float with ties to even, past the largest to       *)
(* infinity. Reals are measured in units of the smallest subnormal.          *)
Unit == Pow2(Shift - 1)
Real(x) ==
  LET mag == IF x.exp = 0 THEN x.frac ELSE (Pow2(FracBits) + x.frac) * Pow2(x.exp - 1)
  IN IF x.neg THEN -mag ELSE mag

Round(n, d, neg) ==
  LET minus == n < 0 \/ (n = 0 /\ neg)
      cands == {f \in FiniteFloats : f.neg = minus} \cup {Infinity(minus)}
      gap(f) == Abs(Real(f) * d - n)
      best == Min({gap(f) : f \in cands})
      near == {f \in cands : gap(f) = best}
  IN CHOOSE f \in near : Cardinality(near) = 1 \/ f.frac % 2 = 0

\* The signs differ.
Mixed(x, y) == x.neg # y.neg

FloatAdd(x, y) ==
  IF Finite(x) /\ Finite(y) THEN Round(Real(x) + Real(y), 1, x.neg /\ y.neg) ELSE NaN
FloatNeg(x) == IF IsNaN(x) THEN x ELSE [x EXCEPT !.neg = ~@]
FloatMul(x, y) ==
  IF Finite(x) /\ Finite(y) THEN Round(Real(x) * Real(y), Unit, Mixed(x, y)) ELSE NaN
FloatDiv(x, y) ==
  CASE ~Finite(x) \/ IsNaN(y) -> NaN
    [] Finite(x) /\ ~Finite(y) /\ ~IsNaN(y) -> Float(Mixed(x, y), 0, 0)
    [] OTHER -> Round((IF y.neg THEN -1 ELSE 1) * Real(x) * Unit, Abs(Real(y)), Mixed(x, y))
Floor(x) == IF Finite(x) THEN Round((Real(x) \div Unit) * Unit, 1, x.neg) ELSE x
\* The remainder of the division truncated to an integer, exact.
FloatRem(x, y) ==
  CASE ~Finite(x) \/ IsNaN(y) -> NaN
    [] Finite(x) /\ ~Finite(y) /\ ~IsNaN(y) -> x
    [] OTHER -> LET r == Abs(Real(x)) % Abs(Real(y)) IN Round(IF x.neg THEN -r ELSE r, 1, x.neg)

----------------------------------------------------------------------------
(* Comparison. *)
Less == -1
Equal == 0
Greater == 1
Unordered == 2
Cmp(a, b) == IF a < b THEN Less ELSE IF a = b THEN Equal ELSE Greater
Reverse_(o) == IF o = Unordered THEN o ELSE -o

\* Mutant: the integer is rounded to a float first.
CmpIntFloatLossy(n, x) ==
  IF IsNaN(x) THEN Unordered
  ELSE IF ~Finite(x) THEN IF x.neg THEN Greater ELSE Less
  ELSE Cmp(Real(Round(n * Unit, 1, FALSE)), Real(x))

CmpIntFloat(n, x) ==
  IF IsNaN(x) THEN Unordered
  ELSE IF ~Finite(x) THEN IF x.neg THEN Greater ELSE Less
  ELSE LET d == Decompose(x) IN
       IF d.exp >= 0 THEN Cmp(n, d.mant * Pow2(d.exp)) ELSE Cmp(n * Pow2(-d.exp), d.mant)

\* The hardware's comparison of two floats.
PartialCmp(x, y) ==
  CASE IsNaN(x) \/ IsNaN(y) -> Unordered
    [] ~IsNaN(x) /\ ~IsNaN(y) /\ x = y -> Equal
    [] ~Finite(x) /\ ~IsNaN(x) /\ ~IsNaN(y) /\ x # y -> IF x.neg THEN Less ELSE Greater
    [] Finite(x) /\ ~Finite(y) /\ ~IsNaN(y) -> IF y.neg THEN Greater ELSE Less
    [] OTHER -> Cmp(Real(x), Real(y))

NumericCmp(a, b) ==
  CASE IsInt(a) /\ IsInt(b) -> Cmp(a.n, b.n)
    [] IsFloat(a) /\ IsFloat(b) -> PartialCmp(a, b)
    [] IsInt(a) /\ IsFloat(b) -> CmpIntFloat(a.n, b)
    [] IsFloat(a) /\ IsInt(b) -> Reverse_(CmpIntFloat(b.n, a))

NumericEqual(a, b) ==
  \/ IsFloat(a) /\ IsFloat(b) /\ IsNaN(a) /\ IsNaN(b)
  \/ NumericCmp(a, b) = Equal

\* Mutant: each kind of number writes its own bits.
HashNumberByKind(v) == IF IsInt(v) THEN <<"int", v.n>> ELSE <<"bits", v.neg, v.exp, v.frac>>

\* What a number writes to the hasher: an integral float writes its integer.
HashNumber(v) ==
  IF IsInt(v) THEN <<"int", v.n>>
  ELSE IF Finite(v) /\ v = Round((Real(v) \div Unit) * Unit, 1, v.neg)
       THEN LET d == Decompose(v) IN
            <<"int", IF d.exp >= 0 THEN d.mant * Pow2(d.exp) ELSE d.mant \div Pow2(-d.exp)>>
       ELSE <<"bits", v.neg, v.exp, v.frac>>

Order(op, a, b) ==
  IF IsNum(a) /\ IsNum(b) THEN NumericCmp(a, b)
  ELSE IF IsStr(a) /\ IsStr(b) THEN Cmp(a.len, b.len) ELSE Unordered

Compare(op, a, b) ==
  LET eq == IF IsNum(a) /\ IsNum(b) THEN NumericEqual(a, b) ELSE a = b
      ord == Order(op, a, b)
  IN CASE op = "==" -> Bool(eq)
       [] op = "!=" -> Bool(~eq)
       [] op \in {"<", ">", "<=", ">="} ->
            IF ord = Unordered THEN Raise("UndefinedOrdering")
            ELSE Bool(CASE op = "<" -> ord = Less
                        [] op = ">" -> ord = Greater
                        [] op = "<=" -> ord # Greater
                        [] op = ">=" -> ord # Less)

----------------------------------------------------------------------------
(* Arithmetic. *)
FiniteResult(x) == IF Finite(x) THEN x ELSE Raise("NonFiniteFloat")

\* Widening; infinite when the magnitude is past the floats.
NumToFloat(v) == IF IsFloat(v) THEN v ELSE Round(v.n * Unit, 1, FALSE)
Widens(v) == IsFloat(v) \/ Finite(NumToFloat(v))

\* A float operation on widened operands.
OnFloats(a, b, F(_, _)) ==
  IF Widens(a) /\ Widens(b) THEN FiniteResult(F(NumToFloat(a), NumToFloat(b)))
  ELSE Raise("NonFiniteFloat")

Bits(n) == CHOOSE k \in 0 .. Abs(n) : Abs(n) < Pow2(k) /\ (k = 0 \/ Pow2(k - 1) <= Abs(n))
Bytes(bits) == (bits \div ByteBits) + 1
Admitted(bytes) == bytes <= OpCap

\* Mutant: the product is taken to be as long as its longer factor.
MulBytesShort(x, y) == Bytes(Max({Bits(x), Bits(y)}))
MulBytes(x, y) == Bytes(Bits(x) + Bits(y))

AddSubMul(op, a, b) ==
  IF IsInt(a) /\ IsInt(b)
  THEN CASE op = "+" -> IntValue(a.n + b.n)
         [] op = "-" -> IntValue(a.n - b.n)
         [] op = "*" -> IF Admitted(MulBytes(a.n, b.n)) THEN IntValue(a.n * b.n) ELSE Fault
  ELSE CASE op = "+" -> OnFloats(a, b, FloatAdd)
         [] op = "-" -> OnFloats(a, b, LAMBDA x, y : FloatAdd(x, FloatNeg(y)))
         [] op = "*" -> OnFloats(a, b, FloatMul)

IsZero(v) == IF IsInt(v) THEN v.n = 0 ELSE v.exp = 0 /\ v.frac = 0

Divide(a, b) == IF IsZero(b) THEN Raise("DivisionByZero") ELSE OnFloats(a, b, FloatDiv)

\* Integer division rounds down, for either sign of the divisor.
DivFloor(x, y) == IF y > 0 THEN x \div y ELSE (-x) \div (-y)
ModFloor(x, y) == x - y * DivFloor(x, y)

\* Mutant: the remainder keeps the dividend's sign.
RemFloorTruncated(x, y) == FloatRem(x, y)

\* The truncated remainder moved to the divisor's sign.
RemFloor(x, y) ==
  LET m == FloatRem(x, y) IN
  IF ~IsNaN(m) /\ ~IsZero(m) /\ m.neg # y.neg
  THEN IF Finite(y) THEN FloatAdd(m, y) ELSE y
  ELSE m

FloorDivRem(op, a, b) ==
  IF IsZero(b) THEN Raise("DivisionByZero")
  ELSE IF IsInt(a) /\ IsInt(b)
       THEN IF op = "//" THEN IntValue(DivFloor(a.n, b.n)) ELSE IntValue(ModFloor(a.n, b.n))
       ELSE IF op = "//" THEN OnFloats(a, b, LAMBDA x, y : Floor(FloatDiv(x, y)))
            ELSE OnFloats(a, b, RemFloor)

SmallBasePow(base, exp) ==
  CASE base = 0 -> IF exp = 0 THEN 1 ELSE 0
    [] base = 1 -> 1
    [] base = -1 -> IF exp % 2 = 0 THEN 1 ELSE -1

PowBytesOk(bits, exp) == exp <= ExpWord /\ Admitted(Bytes(exp * bits))

\* The float path is a library's.
Power(a, b) ==
  IF IsInt(a) /\ IsInt(b) /\ (IF IsInt(b) THEN b.n >= 0 ELSE FALSE)
  THEN IF Bits(a.n) <= 1 THEN {IntValue(SmallBasePow(a.n, b.n))}
       ELSE IF PowBytesOk(Bits(a.n), b.n) THEN {IntValue(a.n ^ b.n)} ELSE {Fault}
  ELSE IF Widens(a) /\ Widens(b) THEN LibmResults \cup {Raise("NonFiniteFloat")}
       ELSE {Raise("NonFiniteFloat")}

----------------------------------------------------------------------------
(* Strings. *)
Concat(a, b) == IF IsStr(a) /\ IsStr(b) THEN Str(a.len + b.len) ELSE Raise("TypeMismatch")

Repeat(a, b) ==
  LET s == IF IsStr(a) THEN a ELSE b
      count == IF IsStr(a) THEN b ELSE a
  IN IF ~IsInt(count) THEN Raise("TypeMismatch")
     ELSE IF count.n < 0 THEN Raise("NegativeCount")
     ELSE IF count.n = 0 \/ s.len = 0 THEN Str(0)
     ELSE IF Admitted(s.len * count.n) THEN Str(s.len * count.n) ELSE Fault

----------------------------------------------------------------------------
(* Operator application. *)
Comparisons == {"==", "!=", "<", ">", "<=", ">="}
Arithmetic == {"+", "-", "*", "/", "//", "%", "**"}

Arith(op, a, b) ==
  IF ~IsNum(a) \/ ~IsNum(b) THEN {Raise("TypeMismatch")}
  ELSE CASE op \in {"+", "-", "*"} -> {AddSubMul(op, a, b)}
         [] op = "/" -> {Divide(a, b)}
         [] op \in {"//", "%"} -> {FloorDivRem(op, a, b)}
         [] op = "**" -> Power(a, b)

\* What `a op b` may give.
Binary(op, a, b) ==
  IF op \in Comparisons THEN {Compare(op, a, b)}
  ELSE IF (IsStr(a) \/ IsStr(b)) /\ op \in {"+", "*"}
       THEN {IF op = "+" THEN Concat(a, b) ELSE Repeat(a, b)}
       ELSE Arith(op, a, b)

Unary(op, v) ==
  CASE op = "-" /\ IsInt(v) -> IntValue(-v.n)
    [] op = "-" /\ IsFloat(v) -> FiniteResult(FloatNeg(v))
    [] op = "+" /\ IsInt(v) -> v
    [] op = "+" /\ IsFloat(v) -> FiniteResult(v)
    [] op = "not" /\ v.kind = "Bool" -> Bool(~v.b)
    [] OTHER -> Raise("TypeMismatch")
=============================================================================
