------------------------------ MODULE Rationals -----------------------------
(***************************************************************************)
(* Exact fractions for the scores of the harness, which it computes with   *)
(* floating-point numbers and sums with fsum so that every path agrees.    *)
(***************************************************************************)
EXTENDS Integers, FiniteSets, Functions

Gcd[p \in Nat \X Nat] == IF p[2] = 0 THEN p[1] ELSE Gcd[<<p[2], p[1] % p[2]>>]
Magnitude(n) == IF n < 0 THEN -n ELSE n

Rational == [num : Int, den : Nat \ {0}]

\* n / d in lowest terms, for d > 0.
Reduced(n, d, g) == [num |-> n \div g, den |-> d \div g]
Q(n, d) == Reduced(n, d, Gcd[<<Magnitude(n), d>>])
Zero == [num |-> 0, den |-> 1]
One == [num |-> 1, den |-> 1]

QAdd(x, y) == Q(x.num * y.den + y.num * x.den, x.den * y.den)
QSub(x, y) == Q(x.num * y.den - y.num * x.den, x.den * y.den)
QMul(x, y) == Q(x.num * y.num, x.den * y.den)
\* for y > 0
QDiv(x, y) == Q(x.num * y.den, x.den * y.num)
QLeq(x, y) == x.num * y.den <= y.num * x.den
QLess(x, y) == x.num * y.den < y.num * x.den
QMax(x, y) == IF QLeq(x, y) THEN y ELSE x
QMin(x, y) == IF QLeq(x, y) THEN x ELSE y
QAbs(x) == QMax(x, QSub(Zero, x))
Clamped(x) == QMax(Zero, QMin(One, x))

\* The sum and the mean of the values of f; weights are naturals.
QSum(f) == FoldFunction(QAdd, Zero, f)
Mean(f) == IF DOMAIN f = {} THEN Zero ELSE QDiv(QSum(f), Q(Cardinality(DOMAIN f), 1))
Weight(w) == SumFunction(w)
\* f and w have one domain, and the total weight is positive.
WeightedMean(f, w) ==
    QDiv(QSum([s \in DOMAIN f |-> QMul(f[s], Q(w[s], 1))]), Q(Weight(w), 1))

=============================================================================
