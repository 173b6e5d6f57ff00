----------------------------- MODULE ExactRatio -----------------------------
(***************************************************************************)
(* Exact rational numbers, used for the float64 values of the telemetry    *)
(* package.  A value is a record [n, d] in lowest terms with d > 0.       *)
(* Every operation reduces its result, so that the numbers stay within    *)
(* TLC's 32-bit integers.                                                  *)
(* Rounding of float64 is not modelled: every value is exact.              *)
(***************************************************************************)
EXTENDS Integers

RECURSIVE GCD(_, _)
\* Euclid's algorithm, for a, b >= 0.
GCD(a, b) == IF b = 0 THEN a ELSE GCD(b, a % b)

AbsInt(k) == IF k < 0 THEN -k ELSE k

\* n / d in lowest terms, for d > 0.
Rat(n, d) ==
    LET g == GCD(AbsInt(n), d)
    IN  [n |-> n \div g, d |-> d \div g]

\* An integer, or a decimal constant of the code written as digits / 10^k.
Int2Q(k) == Rat(k, 1)

QZero == Int2Q(0)
QOne  == Int2Q(1)

\* Sums over the least common denominator, products of cross-reduced
\* factors: no intermediate value is larger than it must be.
QAdd(a, b) ==
    LET g == GCD(a.d, b.d)
    IN  Rat(a.n * (b.d \div g) + b.n * (a.d \div g), a.d * (b.d \div g))

QNeg(a) == [n |-> -a.n, d |-> a.d]

QSub(a, b) == QAdd(a, QNeg(b))

QMul(a, b) ==
    LET g1 == GCD(AbsInt(a.n), b.d)  g2 == GCD(AbsInt(b.n), a.d)
    IN  IF a.n = 0 \/ b.n = 0 THEN Rat(0, 1)
        ELSE Rat((a.n \div g1) * (b.n \div g2), (a.d \div g2) * (b.d \div g1))

\* Division by a value that is not zero.
QDiv(a, b) ==
    QMul(a, IF b.n > 0 THEN [n |-> b.d, d |-> b.n] ELSE [n |-> -b.d, d |-> -b.n])

QLt(a, b)  == QSub(b, a).n > 0
QLeq(a, b) == QSub(b, a).n >= 0
QEq(a, b)  == QSub(b, a).n = 0

\* The nearest integer, halves away from zero (Go's math.Round).
QRoundInt(a) ==
    IF a.n >= 0 THEN (2 * a.n + a.d) \div (2 * a.d)
                ELSE -((2 * (-a.n) + a.d) \div (2 * a.d))

\* math.Round(a * scale) / scale, for an integer scale.
QRoundTo(a, scale) == Rat(QRoundInt(QMul(a, Int2Q(scale))), scale)

InUnit(a) == QLeq(QZero, a) /\ QLeq(a, QOne)
=============================================================================
