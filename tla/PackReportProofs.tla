------------------------- MODULE PackReportProofs -------------------------
(***************************************************************************)
(* Proofs about module PackReport, for every pack, every plan and every    *)
(* answer: an inductive invariant of the suite and its report; that an     *)
(* answer which fails never scores more than the one that was given; that  *)
(* causal credit is earned; that the report and the bootstrap compute the  *)
(* same score; and that the verifier accepts the report as it is written   *)
(* and published, and no edit of its headline. The first part shows what   *)
(* the recursive functions of module Rationals compute: the greatest       *)
(* common divisor, sums and weighted means.                                *)
(***************************************************************************)
EXTENDS PackReport, FiniteSetTheorems, FunctionTheorems, WellFoundedInduction, TLAPS

----------------------------------------------------------------------------
(* Induction over the natural numbers *)

\* The least-number principle.
LEMMA LeastNumber ==
    ASSUME NEW T, T \subseteq Nat, T # {}
    PROVE  \E x \in T : \A y \in T : x <= y
<1> DEFINE R == {ss \in Nat \X Nat : ss[1] < ss[2]}
<1>1. IsWellFoundedOn(R, Nat)
  BY NatLessThanWellFounded DEF OpToRel
<1> HIDE DEF R
<1>2. PICK x \in T : \A y \in T : ~(<<y, x>> \in R)
  BY <1>1, WFMin
<1>3. \A y \in T : ~(y < x)
  BY <1>2 DEF R
<1> QED BY <1>3

\* What holds of 0 and of the successor of what it holds of, holds of every number.
LEMMA NatSetInduction ==
    ASSUME NEW N, N \subseteq Nat, 0 \in N, \A n \in N : n + 1 \in N
    PROVE  N = Nat
<1> SUFFICES ASSUME Nat \ N # {} PROVE FALSE
  OBVIOUS
<1>1. PICK x \in Nat \ N : \A y \in Nat \ N : x <= y
  BY LeastNumber
<1>2. x - 1 \in N
  BY <1>1
<1> QED BY <1>1, <1>2

----------------------------------------------------------------------------
(* Euclid's algorithm, and rational numbers in lowest terms *)

\* Euclid's algorithm on pairs whose second number is at most n.
Euclid(n, f) ==
    f = [p \in Nat \X (0..n) |-> IF p[2] = 0 THEN p[1] ELSE f[<<p[2], p[1] % p[2]>>]]

\* Division with remainder, of a natural number by a positive one.
LEMMA Remainder ==
    ASSUME NEW a \in Nat, NEW b \in Nat \ {0}
    PROVE  /\ a % b \in Nat /\ a % b < b /\ a \div b \in Nat
           /\ a = b * (a \div b) + (a % b)
<1>1. a % b \in Nat /\ a % b < b /\ a \div b \in Nat
  OBVIOUS
<1>2. \A q, r \in Int : q = a \div b /\ r = a % b => a = b * q + r
  OBVIOUS
<1> QED BY <1>1, <1>2

\* What one step of the algorithm gives.
LEMMA EuclidIs ==
    ASSUME NEW n \in Nat, NEW f, Euclid(n, f), NEW a \in Nat, NEW b \in Nat, b <= n
    PROVE  f[<<a, b>>] = IF b = 0 THEN a ELSE f[<<b, a % b>>]
<1>1. \A p \in Nat \X (0..n) : f[p] = IF p[2] = 0 THEN p[1] ELSE f[<<p[2], p[1] % p[2]>>]
  BY DEF Euclid
<1>2. <<a, b>> \in Nat \X (0..n) /\ <<a, b>>[1] = a /\ <<a, b>>[2] = b
  OBVIOUS
<1>3. PICK p \in Nat \X (0..n) : p = <<a, b>>
  BY <1>2
<1>4. f[p] = IF p[2] = 0 THEN p[1] ELSE f[<<p[2], p[1] % p[2]>>]
  BY <1>1
<1> QED BY <1>2, <1>3, <1>4

\* There is such a function up to every bound.
LEMMA EuclidUpTo ==
    ASSUME NEW n \in Nat
    PROVE  \E f : Euclid(n, f)
<1> DEFINE N == {m \in Nat : \E f : Euclid(m, f)}
<1>1. 0 \in N
  <2>1. Euclid(0, [p \in Nat \X (0..0) |-> p[1]])
    BY DEF Euclid
  <2> QED BY <2>1
<1>2. ASSUME NEW m \in N PROVE m + 1 \in N
  <2>1. PICK f : Euclid(m, f)
    OBVIOUS
  <2> DEFINE g == [p \in Nat \X (0..(m + 1)) |->
                     IF p[2] = m + 1 THEN f[<<p[2], p[1] % p[2]>>] ELSE f[p]]
             h == [p \in Nat \X (0..(m + 1)) |->
                     IF p[2] = 0 THEN p[1] ELSE g[<<p[2], p[1] % p[2]>>]]
  <2>2. \A p \in Nat \X (0..m) :
           f[p] = IF p[2] = 0 THEN p[1] ELSE f[<<p[2], p[1] % p[2]>>]
    BY <2>1, SMTT(60) DEF Euclid
  <2>3. ASSUME NEW a \in Nat, NEW b \in 0..(m + 1) PROVE g[<<a, b>>] = h[<<a, b>>]
    <3>1. CASE b = 0
      <4>0. m \in Nat /\ a \in Nat /\ 0 \in Nat /\ 0 <= m
        OBVIOUS
      <4>1. f[<<a, b>>] = a
        <5>0. b \in 0..m
          BY <3>1, <4>0
        <5>1. PICK p \in Nat \X (0..m) : p = <<a, b>>
          BY <5>0
        <5>2. p[2] = 0 /\ p[1] = a
          BY <3>1, <5>1
        <5>3. f[p] = a
          BY <2>2, <5>2
        <5> QED BY <5>1, <5>3
      <4>2. <<a, b>> \in Nat \X (0..(m + 1)) /\ b # m + 1
        BY <3>1, <4>0
      <4>3. g[<<a, b>>] = f[<<a, b>>] /\ h[<<a, b>>] = a
        BY <3>1, <4>2, SMTT(60)
      <4> QED BY <4>1, <4>3
    <3>2. CASE b # 0
      <4>1. a % b \in 0..m /\ b \in Nat
        BY <3>2, Remainder
      <4>2. g[<<b, a % b>>] = f[<<b, a % b>>]
        BY <4>1
      <4>3. g[<<a, b>>] = f[<<b, a % b>>]
        <5>1. CASE b = m + 1
          BY <5>1
        <5>2. CASE b # m + 1
          <6>1. <<a, b>> \in Nat \X (0..m)
            BY <5>2
          <6>2. g[<<a, b>>] = f[<<a, b>>]
            BY <5>2
          <6>3. f[<<a, b>>] = f[<<b, a % b>>]
            BY <2>2, <3>2, <6>1
          <6> QED BY <6>2, <6>3
        <5> QED BY <5>1, <5>2
      <4> QED BY <3>2, <4>2, <4>3, SMTT(60)
    <3> QED BY <3>1, <3>2, SMTT(60)
  <2>4. g = h
    <3> DEFINE D == Nat \X (0..(m + 1))
    <3>1. g = [p \in D |-> g[p]] /\ h = [p \in D |-> h[p]]
      OBVIOUS
    <3> HIDE DEF g, h
    <3>2. \A p \in D : g[p] = h[p]
      BY <2>3
    <3> QED BY <3>1, <3>2, Zenon
  <2>5. Euclid(m + 1, g)
    BY <2>4 DEF Euclid
  <2> QED BY <2>5
<1> HIDE DEF N
<1>3. N = Nat
  BY <1>1, <1>2, NatSetInduction DEF N
<1> QED BY <1>3 DEF N

\* Two such functions agree where both are defined.
LEMMA EuclidAgrees ==
    ASSUME NEW n \in Nat, NEW m \in Nat, NEW f, NEW g, Euclid(n, f), Euclid(m, g),
           NEW a \in Nat, NEW b \in Nat, b <= n, b <= m
    PROVE  f[<<a, b>>] = g[<<a, b>>]
<1> DEFINE T == {y \in Nat : y <= n /\ y <= m /\ \E x \in Nat : f[<<x, y>>] # g[<<x, y>>]}
<1>1. \A x, y \in Nat : y <= n => f[<<x, y>>] = IF y = 0 THEN x ELSE f[<<y, x % y>>]
  BY EuclidIs
<1>2. \A x, y \in Nat : y <= m => g[<<x, y>>] = IF y = 0 THEN x ELSE g[<<y, x % y>>]
  BY EuclidIs
<1>3. ASSUME T # {} PROVE FALSE
  <2>1. PICK y \in T : \A z \in T : y <= z
    BY <1>3, LeastNumber
  <2>2. PICK x \in Nat : f[<<x, y>>] # g[<<x, y>>]
    OBVIOUS
  <2>3. y # 0 /\ y \in Nat /\ y <= n /\ y <= m
    <3>1. y \in Nat /\ y <= n /\ y <= m
      OBVIOUS
    <3>2. y = 0 => f[<<x, y>>] = x
      BY <1>1, <3>1, Zenon
    <3>3. y = 0 => g[<<x, y>>] = x
      BY <1>2, <3>1, Zenon
    <3> QED BY <2>2, <3>1, <3>2, <3>3, Zenon
  <2>4. x % y \in Nat /\ x % y < y
    BY <2>3, Remainder
  <2>5. x % y \notin T
    <3> HIDE DEF T
    <3> QED BY <2>1, <2>3, <2>4
  <2>6. f[<<y, x % y>>] = g[<<y, x % y>>]
    BY <2>3, <2>4, <2>5
  <2> QED BY <1>1, <1>2, <2>2, <2>3, <2>6
<1> QED BY <1>3

\* Gcd computes by Euclid's rule.
LEMMA GcdIs ==
    ASSUME NEW a \in Nat, NEW b \in Nat
    PROVE  Gcd[<<a, b>>] = IF b = 0 THEN a ELSE Gcd[<<b, a % b>>]
<1> DEFINE R(f) == f = [p \in Nat \X Nat |-> IF p[2] = 0 THEN p[1] ELSE f[<<p[2], p[1] % p[2]>>]]
           e == [n \in Nat |-> CHOOSE f : Euclid(n, f)]
           F == [p \in Nat \X Nat |-> e[p[2]][p]]
           G == [p \in Nat \X Nat |-> IF p[2] = 0 THEN p[1] ELSE F[<<p[2], p[1] % p[2]>>]]
<1>1. \A n \in Nat : Euclid(n, e[n])
  BY EuclidUpTo
<1> HIDE DEF e
<1>2. ASSUME NEW x \in Nat, NEW y \in Nat PROVE F[<<x, y>>] = G[<<x, y>>]
  <2>1. F[<<x, y>>] = e[y][<<x, y>>]
    OBVIOUS
  <2>2. Euclid(y, e[y]) /\ <<x, y>> \in Nat \X (0..y)
    BY <1>1
  <2>3. e[y][<<x, y>>] = IF y = 0 THEN x ELSE e[y][<<y, x % y>>]
    BY <2>2, EuclidIs, SMTT(60)
  <2>4. CASE y # 0
    <3>1. x % y \in Nat /\ x % y < y
      BY <2>4, Remainder
    <3>2. Euclid(x % y, e[x % y])
      BY <1>1, <3>1
    <3>3. e[y][<<y, x % y>>] = e[x % y][<<y, x % y>>]
      BY <2>2, <3>1, <3>2, EuclidAgrees
    <3>4. F[<<y, x % y>>] = e[x % y][<<y, x % y>>]
      BY <3>1
    <3>5. G[<<x, y>>] = F[<<y, x % y>>]
      BY <2>4
    <3> QED BY <2>1, <2>3, <2>4, <3>3, <3>4, <3>5
  <2>5. CASE y = 0
    BY <2>1, <2>3, <2>5
  <2> QED BY <2>4, <2>5
<1>3. F = G
  <2>1. F = [p \in Nat \X Nat |-> F[p]] /\ G = [p \in Nat \X Nat |-> G[p]]
    OBVIOUS
  <2> HIDE DEF F, G
  <2>2. \A p \in Nat \X Nat : F[p] = G[p]
    BY <1>2
  <2> QED BY <2>1, <2>2, Zenon
<1>4. R(F)
  BY <1>3, SMTT(60)
<1> HIDE DEF F, G
<1>5. R(Gcd)
  BY <1>4 DEF Gcd
<1> QED BY <1>5

\* A multiple divided by its factor.
LEMMA Divided ==
    ASSUME NEW g \in Nat \ {0}, NEW x \in Int
    PROVE  (g * x) \div g = x
OBVIOUS

\* It divides both, and is positive where one of them is.
LEMMA GcdDivides ==
    ASSUME NEW a \in Nat, NEW b \in Nat, a # 0 \/ b # 0
    PROVE  \E g \in Nat \ {0} : g = Gcd[<<a, b>>] /\ \E x, y \in Nat : a = g * x /\ b = g * y
<1> DEFINE D(u, v) == \E g \in Nat \ {0} : g = Gcd[<<u, v>>] /\ \E x, y \in Nat : u = g * x /\ v = g * y
           T == {v \in Nat : \E u \in Nat : (u # 0 \/ v # 0) /\ ~D(u, v)}
<1>1. ASSUME T # {} PROVE FALSE
  <2>1. PICK v \in T : \A z \in T : v <= z
    BY <1>1, LeastNumber
  <2>2. PICK u \in Nat : (u # 0 \/ v # 0) /\ ~D(u, v)
    OBVIOUS
  <2>3. v \in Nat
    OBVIOUS
  <2>4. CASE v = 0
    <3>1. Gcd[<<u, v>>] = u
      BY <2>3, <2>4, GcdIs
    <3>2. u = u * 1 /\ v = u * 0 /\ u \in Nat \ {0} /\ 0 \in Nat /\ 1 \in Nat
      BY <2>2, <2>4
    <3>3. D(u, v)
      BY <3>1, <3>2, Zenon
    <3> QED BY <2>2, <3>3
  <2>5. CASE v # 0
    <3> DEFINE r == u % v
               q == u \div v
    <3>1. r \in Nat /\ r < v /\ q \in Nat /\ u = v * q + r
      BY <2>3, <2>5, Remainder
    <3>2. Gcd[<<u, v>>] = Gcd[<<v, r>>]
      BY <2>3, <2>5, GcdIs
    <3> HIDE DEF r, q
    <3>3. r \notin T
      <4> HIDE DEF T
      <4> QED BY <2>1, <2>3, <3>1
    <3>4. D(v, r)
      BY <2>3, <2>5, <3>1, <3>3
    <3>5. PICK g \in Nat \ {0} : g = Gcd[<<v, r>>] /\ \E x, y \in Nat : v = g * x /\ r = g * y
      BY <3>4
    <3>6. PICK x, y \in Nat : v = g * x /\ r = g * y
      BY <3>5
    <3>7. u = g * (x * q + y) /\ x * q + y \in Nat
      BY <3>1, <3>6
    <3> QED BY <2>2, <3>2, <3>5, <3>6, <3>7
  <2> QED BY <2>4, <2>5
<1> HIDE DEF D
<1>2. D(a, b)
  BY <1>1
<1> QED BY <1>2 DEF D

\* Products of integers: what the provers do not find by themselves.
LEMMA Products ==
    /\ \A x, y \in Int : x * y \in Int /\ x * y = y * x
    /\ \A x, y \in Nat \ {0} : x * y \in Nat \ {0}
    /\ \A x, y \in Nat : x * y \in Nat
    /\ \A x, y, z \in Int : x * (y * z) = (x * y) * z
    /\ \A x, y, z \in Int : x * (y + z) = x * y + x * z
OBVIOUS

\* An inequality may be multiplied by a natural number.
LEMMA ScaleUp ==
    ASSUME NEW x \in Int, NEW y \in Int, NEW c \in Nat, x <= y
    PROVE  x * c <= y * c
<1>1. (y - x) * c \in Nat
  OBVIOUS
<1>2. (y - x) * c = y * c - x * c
  OBVIOUS
<1> QED BY <1>1, <1>2

\* A positive factor of both sides may be cancelled.
LEMMA ScaleDown ==
    ASSUME NEW x \in Int, NEW y \in Int, NEW c \in Nat \ {0}, x * c <= y * c
    PROVE  x <= y
<1> SUFFICES ASSUME y + 1 <= x PROVE FALSE
  OBVIOUS
<1>1. (y + 1) * c <= x * c
  BY ScaleUp
<1>2. (y + 1) * c = y * c + c
  OBVIOUS
<1> QED BY <1>1, <1>2

----------------------------------------------------------------------------
(* Fractions in lowest terms *)

\* x has the value of n / d.
IsValue(x, n, d) == x \in Rational /\ x.num * d = n * x.den

\* Q(n, d) is the rational number n/d, in lowest terms.
LEMMA QIs ==
    ASSUME NEW n \in Int, NEW d \in Nat \ {0}
    PROVE  IsValue(Q(n, d), n, d)
<1> DEFINE a == Magnitude(n)
<1>1. a \in Nat /\ (n = a \/ n = -a)
  BY DEF Magnitude
<1> HIDE DEF a
<1>2. PICK g \in Nat \ {0} :
        g = Gcd[<<a, d>>] /\ \E x, y \in Nat : a = g * x /\ d = g * y
  BY <1>1, GcdDivides, ZenonT(60)
<1>3. PICK x, y \in Nat : a = g * x /\ d = g * y
  BY <1>2
<1>4. PICK s \in Int : n = g * s
  <2>1. CASE n = a
    BY <2>1, <1>3
  <2>2. CASE n = -a
    <3>1. -x \in Int /\ n = g * (-x)
      BY <2>2, <1>3
    <3> QED BY <3>1
  <2> QED BY <1>1, <2>1, <2>2
<1>5. y # 0
  BY <1>3
<1>6. n \div g = s /\ d \div g = y
  BY <1>3, <1>4, Divided
<1>7. Q(n, d) = [num |-> s, den |-> y]
  BY <1>2, <1>6 DEF Q, Reduced, a
<1>8. s * (g * y) = (g * s) * y
  OBVIOUS
<1>9. s * d = n * y
  BY <1>3, <1>4, <1>8
<1> QED BY <1>5, <1>7, <1>9 DEF IsValue, Rational

\* 0/d is Zero, whatever the denominator.
LEMMA QZero ==
    ASSUME NEW d \in Nat \ {0}
    PROVE  Q(0, d) = Zero
<1>1. Magnitude(0) = 0 /\ 0 % d = 0
  BY DEF Magnitude
<1>2. Gcd[<<0, d>>] = Gcd[<<d, 0>>]
  BY <1>1, GcdIs
<1>3. Gcd[<<d, 0>>] = d
  BY GcdIs
<1>4. 0 \div d = 0 /\ d \div d = 1
  <2>1. (d * 0) \div d = 0 /\ (d * 1) \div d = 1
    BY Divided
  <2> QED BY <2>1
<1> QED BY <1>1, <1>2, <1>3, <1>4 DEF Q, Reduced, Zero

\* Values are compared as the fractions they are the values of.
LEMMA ValueLeq ==
    ASSUME NEW n \in Int, NEW d \in Nat \ {0}, NEW m \in Int, NEW e \in Nat \ {0},
           NEW x, NEW y, IsValue(x, n, d), IsValue(y, m, e), n * e <= m * d
    PROVE  QLeq(x, y)
<1>1. PICK a \in Int, b \in Nat \ {0} : x.num = a /\ x.den = b /\ a * d = n * b
  BY DEF IsValue, Rational
<1>2. PICK c \in Int, f \in Nat \ {0} : y.num = c /\ y.den = f /\ c * e = m * f
  BY DEF IsValue, Rational
<1>3. b * f \in Nat /\ d * e \in Nat \ {0}
  BY Products
<1>4. (n * e) * (b * f) <= (m * d) * (b * f)
  <2>1. n * e \in Int /\ m * d \in Int
    OBVIOUS
  <2> QED BY <1>3, <2>1, ScaleUp
<1>5. (n * e) * (b * f) = (a * f) * (d * e)
  <2>1. (n * e) * (b * f) = (n * b) * (e * f)
    OBVIOUS
  <2>2. (a * d) * (e * f) = (a * f) * (d * e)
    OBVIOUS
  <2> QED BY <1>1, <2>1, <2>2
<1>6. (m * d) * (b * f) = (c * b) * (d * e)
  <2>1. (m * d) * (b * f) = (m * f) * (d * b)
    OBVIOUS
  <2>2. (c * e) * (d * b) = (c * b) * (d * e)
    OBVIOUS
  <2> QED BY <1>2, <2>1, <2>2
<1>7. a * f <= c * b
  <2>1. a * f \in Int /\ c * b \in Int
    OBVIOUS
  <2>2. (a * f) * (d * e) <= (c * b) * (d * e)
    BY <1>4, <1>5, <1>6
  <2> QED BY <1>3, <2>1, <2>2, ScaleDown
<1> QED BY <1>1, <1>2, <1>7 DEF QLeq

----------------------------------------------------------------------------
(* The arithmetic of rational numbers *)

\* A rational number has the value of its parts.
LEMMA Parts ==
    ASSUME NEW x \in Rational
    PROVE  /\ x.num \in Int /\ x.den \in Nat \ {0} /\ IsValue(x, x.num, x.den)
           /\ x = [num |-> x.num, den |-> x.den] /\ QLeq(x, x)
<1>1. x.num \in Int /\ x.den \in Nat \ {0} /\ x = [num |-> x.num, den |-> x.den]
  BY DEF Rational
<1> QED BY <1>1 DEF IsValue, QLeq

\* A value has the sign of its numerator.
LEMMA Sign ==
    ASSUME NEW x, NEW n \in Int, NEW d \in Nat \ {0}, IsValue(x, n, d)
    PROVE  /\ n >= 0 => x.num >= 0
           /\ n > 0 => x.num > 0
<1>1. PICK a \in Int, b \in Nat \ {0} : x.num = a /\ x.den = b /\ a * d = n * b
  BY DEF IsValue, Rational
<1>2. ASSUME n >= 0, a < 0 PROVE FALSE
  <2>1. PICK c \in Nat \ {0} : a = -c
    <3>1. -a \in Nat \ {0} /\ a = -(-a)
      BY <1>2
    <3> QED BY <3>1
  <2>2. c * d \in Nat \ {0} /\ n * b \in Nat
    BY <1>2, Products
  <2>3. a * d = -(c * d)
    BY <2>1
  <2> QED BY <1>1, <2>2, <2>3
<1>3. ASSUME n > 0, a = 0 PROVE FALSE
  <2>1. n * b \in Nat \ {0} /\ a * d = 0
    BY <1>3, Products
  <2> QED BY <1>1, <2>1
<1> QED BY <1>1, <1>2, <1>3

\* What the operations return.
LEMMA Arithmetic ==
    ASSUME NEW x \in Rational, NEW y \in Rational
    PROVE  /\ IsValue(QAdd(x, y), x.num * y.den + y.num * x.den, x.den * y.den)
           /\ IsValue(QSub(x, y), x.num * y.den - y.num * x.den, x.den * y.den)
           /\ IsValue(QMul(x, y), x.num * y.num, x.den * y.den)
           /\ y.num > 0 => IsValue(QDiv(x, y), x.num * y.den, x.den * y.num)
           /\ QAdd(x, y) \in Rational /\ QSub(x, y) \in Rational /\ QMul(x, y) \in Rational
           /\ QMax(x, y) \in Rational /\ QMin(x, y) \in Rational
           /\ y.num > 0 => QDiv(x, y) \in Rational
<1>1. PICK a \in Int, b \in Nat \ {0} : x.num = a /\ x.den = b
  BY Parts
<1>2. PICK c \in Int, d \in Nat \ {0} : y.num = c /\ y.den = d
  BY Parts
<1>3. a * d + c * b \in Int /\ a * d - c * b \in Int /\ a * c \in Int /\ b * d \in Nat \ {0}
  BY Products
<1>4. IsValue(QAdd(x, y), a * d + c * b, b * d)
  BY <1>1, <1>2, <1>3, QIs DEF QAdd
<1>5. IsValue(QSub(x, y), a * d - c * b, b * d)
  BY <1>1, <1>2, <1>3, QIs DEF QSub
<1>6. IsValue(QMul(x, y), a * c, b * d)
  BY <1>1, <1>2, <1>3, QIs DEF QMul
<1>7. ASSUME c > 0 PROVE IsValue(QDiv(x, y), a * d, b * c)
  <2>1. c \in Nat \ {0}
    BY <1>7
  <2>2. a * d \in Int /\ b * c \in Nat \ {0}
    BY <2>1, Products
  <2> QED BY <1>1, <1>2, <2>2, QIs DEF QDiv
<1>8. QMax(x, y) \in Rational /\ QMin(x, y) \in Rational
  BY DEF QMax, QMin
<1>9. \A v, n, m : IsValue(v, n, m) => v \in Rational
  BY DEF IsValue
<1> QED BY <1>1, <1>2, <1>4, <1>5, <1>6, <1>7, <1>8, <1>9

\* The operations give rational numbers.
LEMMA Closed ==
    ASSUME NEW x \in Rational, NEW y \in Rational
    PROVE  /\ QAdd(x, y) \in Rational /\ QSub(x, y) \in Rational /\ QMul(x, y) \in Rational
           /\ QMax(x, y) \in Rational /\ QMin(x, y) \in Rational
           /\ y.num > 0 => QDiv(x, y) \in Rational
BY Arithmetic

\* Zero and One are rational numbers, and clamping gives one.
LEMMA Units ==
    /\ Zero \in Rational /\ One \in Rational
    /\ \A x \in Rational : QMax(Zero, Zero) = Zero /\ Clamped(x) \in Rational
<1>1. Zero \in Rational /\ One \in Rational
  BY DEF Zero, One, Rational
<1> QED BY <1>1 DEF QMax, QMin, Clamped

\* Nothing added to nothing, taken away, multiplied and divided.
LEMMA OfNothing ==
    /\ QAdd(Zero, Zero) = Zero
    /\ \A x \in Rational : QSub(x, x) = Zero /\ QMul(Zero, x) = Zero
    /\ \A x \in Rational : x.num > 0 => QDiv(Zero, x) = Zero
<1>1. Zero.num = 0 /\ Zero.den = 1
  BY DEF Zero
<1>2. QAdd(Zero, Zero) = Zero
  <2>1. QAdd(Zero, Zero) = Q(0, 1)
    BY <1>1 DEF QAdd
  <2> QED BY <2>1, QZero
<1>3. ASSUME NEW x \in Rational PROVE QSub(x, x) = Zero /\ QMul(Zero, x) = Zero
  <2>1. PICK a \in Int, b \in Nat \ {0} : x.num = a /\ x.den = b
    BY Parts
  <2>2. a * b - a * b = 0 /\ 0 * a = 0 /\ b * b \in Nat \ {0} /\ 1 * b \in Nat \ {0}
    BY Products
  <2>3. QSub(x, x) = Q(0, b * b)
    BY <2>1, <2>2 DEF QSub
  <2>4. QMul(Zero, x) = Q(0, 1 * b)
    BY <1>1, <2>1, <2>2 DEF QMul
  <2> QED BY <2>2, <2>3, <2>4, QZero
<1>4. ASSUME NEW x \in Rational, x.num > 0 PROVE QDiv(Zero, x) = Zero
  <2>1. PICK a \in Nat \ {0}, b \in Nat \ {0} : x.num = a /\ x.den = b
    BY <1>4, Parts
  <2>2. 0 * b = 0 /\ 1 * a \in Nat \ {0}
    BY Products
  <2>3. QDiv(Zero, x) = Q(0, 1 * a)
    BY <1>1, <2>1, <2>2 DEF QDiv
  <2> QED BY <2>2, <2>3, QZero
<1> QED BY <1>2, <1>3, <1>4

\* A sum grows with its terms, a product and a quotient with what is scaled.
LEMMA AddMono ==
    ASSUME NEW x \in Rational, NEW y \in Rational, NEW u \in Rational, NEW v \in Rational,
           QLeq(x, u), QLeq(y, v)
    PROVE  QLeq(QAdd(x, y), QAdd(u, v))
<1>1. PICK a \in Int, b \in Nat \ {0} : x.num = a /\ x.den = b
  BY Parts
<1>2. PICK c \in Int, d \in Nat \ {0} : y.num = c /\ y.den = d
  BY Parts
<1>3. PICK e \in Int, f \in Nat \ {0} : u.num = e /\ u.den = f
  BY Parts
<1>4. PICK g \in Int, h \in Nat \ {0} : v.num = g /\ v.den = h
  BY Parts
<1>5. a * f <= e * b /\ c * h <= g * d
  BY <1>1, <1>2, <1>3, <1>4 DEF QLeq
<1>6. d * h \in Nat /\ b * f \in Nat /\ b * d \in Nat \ {0} /\ f * h \in Nat \ {0}
  BY Products
<1>7. (a * f) * (d * h) <= (e * b) * (d * h) /\ (c * h) * (b * f) <= (g * d) * (b * f)
  <2>1. a * f \in Int /\ e * b \in Int /\ c * h \in Int /\ g * d \in Int
    OBVIOUS
  <2> QED BY <1>5, <1>6, <2>1, ScaleUp
<1>8. (a * d + c * b) * (f * h) <= (e * h + g * f) * (b * d)
  <2>1. (a * d + c * b) * (f * h) = (a * f) * (d * h) + (c * h) * (b * f)
    OBVIOUS
  <2>2. (e * h + g * f) * (b * d) = (e * b) * (d * h) + (g * d) * (b * f)
    OBVIOUS
  <2>3. /\ (a * f) * (d * h) \in Int /\ (e * b) * (d * h) \in Int
        /\ (c * h) * (b * f) \in Int /\ (g * d) * (b * f) \in Int
    OBVIOUS
  <2> QED BY <1>7, <2>1, <2>2, <2>3
<1>9. IsValue(QAdd(x, y), a * d + c * b, b * d) /\ IsValue(QAdd(u, v), e * h + g * f, f * h)
  BY <1>1, <1>2, <1>3, <1>4, Arithmetic
<1> QED BY <1>6, <1>8, <1>9, ValueLeq

\* Multiplying by what is not negative keeps the order.
LEMMA MulMono ==
    ASSUME NEW x \in Rational, NEW u \in Rational, NEW w \in Rational,
           QLeq(x, u), w.num >= 0
    PROVE  QLeq(QMul(x, w), QMul(u, w))
<1>1. PICK a \in Int, b \in Nat \ {0} : x.num = a /\ x.den = b
  BY Parts
<1>2. PICK e \in Int, f \in Nat \ {0} : u.num = e /\ u.den = f
  BY Parts
<1>3. PICK g \in Nat, h \in Nat \ {0} : w.num = g /\ w.den = h
  BY Parts
<1>4. a * f <= e * b
  BY <1>1, <1>2 DEF QLeq
<1>5. g * h \in Nat /\ b * h \in Nat \ {0} /\ f * h \in Nat \ {0}
  BY Products
<1>6. (a * f) * (g * h) <= (e * b) * (g * h)
  <2>1. a * f \in Int /\ e * b \in Int
    OBVIOUS
  <2> QED BY <1>4, <1>5, <2>1, ScaleUp
<1>7. (a * g) * (f * h) <= (e * g) * (b * h)
  <2>1. (a * g) * (f * h) = (a * f) * (g * h) /\ (e * g) * (b * h) = (e * b) * (g * h)
    OBVIOUS
  <2> QED BY <1>6, <2>1
<1>8. IsValue(QMul(x, w), a * g, b * h) /\ IsValue(QMul(u, w), e * g, f * h)
  BY <1>1, <1>2, <1>3, Arithmetic
<1>9. a * g \in Int /\ e * g \in Int
  OBVIOUS
<1> QED BY <1>5, <1>7, <1>8, <1>9, ValueLeq

\* So does dividing by what is positive.
LEMMA DivMono ==
    ASSUME NEW x \in Rational, NEW u \in Rational, NEW w \in Rational,
           QLeq(x, u), w.num > 0
    PROVE  QLeq(QDiv(x, w), QDiv(u, w))
<1>1. PICK a \in Int, b \in Nat \ {0} : x.num = a /\ x.den = b
  BY Parts
<1>2. PICK e \in Int, f \in Nat \ {0} : u.num = e /\ u.den = f
  BY Parts
<1>3. PICK g \in Nat \ {0}, h \in Nat \ {0} : w.num = g /\ w.den = h
  BY Parts
<1>4. a * f <= e * b
  BY <1>1, <1>2 DEF QLeq
<1>5. h * g \in Nat /\ b * g \in Nat \ {0} /\ f * g \in Nat \ {0}
  BY Products
<1>6. (a * f) * (h * g) <= (e * b) * (h * g)
  <2>1. a * f \in Int /\ e * b \in Int
    OBVIOUS
  <2> QED BY <1>4, <1>5, <2>1, ScaleUp
<1>7. (a * h) * (f * g) <= (e * h) * (b * g)
  <2>1. (a * h) * (f * g) = (a * f) * (h * g) /\ (e * h) * (b * g) = (e * b) * (h * g)
    OBVIOUS
  <2> QED BY <1>6, <2>1
<1>8. IsValue(QDiv(x, w), a * h, b * g) /\ IsValue(QDiv(u, w), e * h, f * g)
  BY <1>1, <1>2, <1>3, Arithmetic
<1>9. a * h \in Int /\ e * h \in Int
  OBVIOUS
<1> QED BY <1>5, <1>7, <1>8, <1>9, ValueLeq

\* A set of subsets of S that holds the empty one, and each one that it holds
\* without one of its elements.
LEMMA SubsetInduction ==
    ASSUME NEW S, IsFiniteSet(S), NEW F, {} \in F,
           \A T \in SUBSET S : T # {} /\ (T \ {CHOOSE x \in T : TRUE}) \in F => T \in F
    PROVE  \A T \in SUBSET S : T \in F
<1> DEFINE N == {n \in Nat : \A T \in SUBSET S : Cardinality(T) = n => T \in F}
<1>1. \A T \in SUBSET S : IsFiniteSet(T) /\ Cardinality(T) \in Nat
  BY FS_Subset, FS_CardinalityType
<1>2. 0 \in N
  <2>1. \A T \in SUBSET S : Cardinality(T) = 0 => T = {}
    BY <1>1, FS_EmptySet
  <2> QED BY <2>1
<1>3. ASSUME NEW n \in N PROVE n + 1 \in N
  <2> SUFFICES ASSUME NEW T \in SUBSET S, Cardinality(T) = n + 1 PROVE T \in F
    OBVIOUS
  <2>1. T # {} /\ IsFiniteSet(T) /\ n \in Nat
    BY <1>1, FS_EmptySet
  <2> DEFINE x == CHOOSE y \in T : TRUE
  <2>2. x \in T
    BY <2>1
  <2> HIDE DEF x
  <2>3. Cardinality(T \ {x}) = n
    <3>1. Cardinality(T \ {x}) = Cardinality(T) - 1
      BY <2>1, <2>2, FS_RemoveElement
    <3> QED BY <2>1, <3>1
  <2>4. T \ {x} \in F
    BY <2>3
  <2> QED BY <2>1, <2>4 DEF x
<1> HIDE DEF N
<1>4. N = Nat
  BY <1>2, <1>3, NatSetInduction DEF N
<1> QED BY <1>1, <1>4 DEF N

----------------------------------------------------------------------------
(* Sums *)

\* The element that the sums take first.
First(s) == CHOOSE x \in s : TRUE

\* The recursive function of QSum, for the subsets of S of up to n elements.
Adding(f, S, n, h) ==
    h = [s \in {t \in SUBSET S : Cardinality(t) <= n} |->
            IF s = {} THEN Zero ELSE QAdd(f[First(s)], h[s \ {First(s)}])]

\* A subset of a finite set is finite, and no larger.
LEMMA Smaller ==
    ASSUME NEW S, IsFiniteSet(S), NEW s \in SUBSET S
    PROVE  /\ IsFiniteSet(s) /\ Cardinality(s) \in Nat /\ Cardinality(s) <= Cardinality(S)
           /\ s = {} <=> Cardinality(s) = 0
<1>1. IsFiniteSet(s) /\ Cardinality(s) \in Nat /\ Cardinality(s) <= Cardinality(S)
  BY FS_Subset, FS_CardinalityType
<1> QED BY <1>1, FS_EmptySet

\* Without its first element a set is smaller by one.
LEMMA WithoutFirst ==
    ASSUME NEW S, IsFiniteSet(S), NEW s \in SUBSET S, s # {}
    PROVE  /\ First(s) \in s /\ s \ {First(s)} \in SUBSET S
           /\ Cardinality(s \ {First(s)}) = Cardinality(s) - 1
<1>1. First(s) \in s
  BY DEF First
<1>2. IsFiniteSet(s)
  BY Smaller
<1> QED BY <1>1, <1>2, FS_RemoveElement

\* There is such a function for every bound.
LEMMA AddingExists ==
    ASSUME NEW f, NEW S, IsFiniteSet(S), NEW n \in Nat
    PROVE  \E h : Adding(f, S, n, h)
<1> DEFINE N == {m \in Nat : \E h : Adding(f, S, m, h)}
           D(m) == {t \in SUBSET S : Cardinality(t) <= m}
<1>1. 0 \in N
  <2>1. ASSUME NEW t \in SUBSET S, Cardinality(t) <= 0 PROVE t = {}
    <3>1. Cardinality(t) = 0
      BY <2>1, Smaller
    <3> QED BY <3>1, Smaller
  <2>2. Adding(f, S, 0, [s \in D(0) |-> Zero])
    BY <2>1 DEF Adding
  <2> QED BY <2>2
<1>2. ASSUME NEW m \in N PROVE m + 1 \in N
  <2>1. PICK h : Adding(f, S, m, h)
    OBVIOUS
  <2> DEFINE g == [s \in D(m + 1) |-> IF s = {} THEN Zero ELSE QAdd(f[First(s)], h[s \ {First(s)}])]
             k == [s \in D(m + 1) |-> IF s = {} THEN Zero ELSE QAdd(f[First(s)], g[s \ {First(s)}])]
  <2>2. \A s \in D(m) : h[s] = IF s = {} THEN Zero ELSE QAdd(f[First(s)], h[s \ {First(s)}])
    BY <2>1 DEF Adding
  <2>3. ASSUME NEW s \in D(m + 1), s # {} PROVE g[s \ {First(s)}] = h[s \ {First(s)}]
    <3>1. s \ {First(s)} \in D(m) /\ m \in Nat
      <4>1. s \in SUBSET S /\ Cardinality(s) <= m + 1 /\ Cardinality(s) \in Nat
        BY Smaller
      <4>2. s \ {First(s)} \in SUBSET S /\ Cardinality(s \ {First(s)}) = Cardinality(s) - 1
        BY <2>3, WithoutFirst
      <4>3. m \in Nat
        OBVIOUS
      <4>4. Cardinality(s \ {First(s)}) <= m
        BY <4>1, <4>2, <4>3
      <4> QED BY <4>2, <4>3, <4>4
    <3>2. ASSUME NEW t \in SUBSET S, Cardinality(t) <= m PROVE Cardinality(t) <= m + 1
      BY <3>1, <3>2, Smaller
    <3>3. \A t \in D(m) : g[t] = h[t]
      BY <2>2, <3>2, Zenon
    <3> QED BY <3>1, <3>3, Zenon
  <2>4. g = k
    <3>1. \A s \in D(m + 1) : g[s] = k[s]
      <4> SUFFICES ASSUME NEW s \in D(m + 1) PROVE g[s] = k[s]
        OBVIOUS
      <4>1. CASE s = {}
        BY <4>1
      <4>2. CASE s # {}
        <5>1. g[s] = QAdd(f[First(s)], h[s \ {First(s)}])
          BY <4>2, Zenon
        <5>2. k[s] = QAdd(f[First(s)], g[s \ {First(s)}])
          BY <4>2, Zenon
        <5> QED BY <2>3, <4>2, <5>1, <5>2, Zenon
      <4> QED BY <4>1, <4>2
    <3>2. g = [s \in D(m + 1) |-> g[s]] /\ k = [s \in D(m + 1) |-> k[s]]
      OBVIOUS
    <3> HIDE DEF g, k
    <3> QED BY <3>1, <3>2, Zenon
  <2>5. Adding(f, S, m + 1, g)
    BY <2>4 DEF Adding
  <2> QED BY <2>5
<1> HIDE DEF N
<1>3. N = Nat
  BY <1>1, <1>2, NatSetInduction DEF N
<1> QED BY <1>3 DEF N

\* QSum adds one term after the other.
Sums(f, h) ==
    /\ QSum(f) = h[DOMAIN f] /\ h[{}] = Zero
    /\ \A s \in SUBSET DOMAIN f : s # {} => h[s] = QAdd(f[First(s)], h[s \ {First(s)}])

\* QSum obeys its recursive equations on a finite domain.
LEMMA SumExists ==
    ASSUME NEW f, IsFiniteSet(DOMAIN f)
    PROVE  \E h : Sums(f, h)
<1> DEFINE S == DOMAIN f
           R(h) == h = [s \in SUBSET S |->
                          IF s = {} THEN Zero
                          ELSE LET x == First(s) IN QAdd(f[x], h[s \ {x}])]
           iter == CHOOSE h : R(h)
<1>1. PICK n \in Nat : n = Cardinality(S)
  BY FS_CardinalityType
<1>2. PICK h : Adding(f, S, n, h)
  BY AddingExists
<1>3. {t \in SUBSET S : Cardinality(t) <= n} = SUBSET S
  BY <1>1, Smaller
<1>4. R(h)
  BY <1>2, <1>3 DEF Adding
<1>5. R(iter)
  BY <1>4, Zenon
<1>6. QSum(f) = iter[DOMAIN f]
  BY DEF QSum, FoldFunction, FoldFunctionOnSet, MapThenFoldSet, First
<1> HIDE DEF iter
<1>7. iter[{}] = Zero
  <2>1. {} \in SUBSET S
    OBVIOUS
  <2> QED BY <1>5, <2>1, Zenon
<1>8. \A s \in SUBSET S : s # {} => iter[s] = QAdd(f[First(s)], iter[s \ {First(s)}])
  BY <1>5, Zenon
<1> QED BY <1>6, <1>7, <1>8 DEF Sums

\* A sum of rational numbers is one.
LEMMA SumType ==
    ASSUME NEW f, IsFiniteSet(DOMAIN f), \A x \in DOMAIN f : f[x] \in Rational
    PROVE  QSum(f) \in Rational
<1>1. PICK h : Sums(f, h)
  BY SumExists
<1> DEFINE F == {s \in SUBSET DOMAIN f : h[s] \in Rational}
<1>2. {} \in F
  BY <1>1, Units DEF Sums
<1>3. ASSUME NEW T \in SUBSET DOMAIN f, T # {}, T \ {First(T)} \in F PROVE T \in F
  <2>1. h[T] = QAdd(f[First(T)], h[T \ {First(T)}])
    BY <1>1, <1>3 DEF Sums
  <2>2. First(T) \in DOMAIN f
    BY <1>3, WithoutFirst
  <2> QED BY <1>3, <2>1, <2>2, Closed
<1>4. \A T \in SUBSET DOMAIN f : T \in F
  <2> HIDE DEF F
  <2> QED BY <1>2, <1>3, SubsetInduction DEF First
<1>5. h[DOMAIN f] \in Rational
  BY <1>4
<1> QED BY <1>1, <1>5 DEF Sums

\* A sum of zeros is Zero.
LEMMA SumOfNothing ==
    ASSUME NEW f, IsFiniteSet(DOMAIN f), \A x \in DOMAIN f : f[x] = Zero
    PROVE  QSum(f) = Zero
<1>1. PICK h : Sums(f, h)
  BY SumExists
<1> DEFINE F == {s \in SUBSET DOMAIN f : h[s] = Zero}
<1>2. {} \in F
  BY <1>1 DEF Sums
<1>3. ASSUME NEW T \in SUBSET DOMAIN f, T # {}, T \ {First(T)} \in F PROVE T \in F
  <2>1. h[T] = QAdd(f[First(T)], h[T \ {First(T)}])
    BY <1>1, <1>3 DEF Sums
  <2>2. First(T) \in DOMAIN f
    BY <1>3, WithoutFirst
  <2> QED BY <1>3, <2>1, <2>2, OfNothing
<1>4. \A T \in SUBSET DOMAIN f : T \in F
  <2> HIDE DEF F
  <2> QED BY <1>2, <1>3, SubsetInduction DEF First
<1> QED BY <1>1, <1>4 DEF Sums

\* A sum whose terms are each at most another's is at most the other.
LEMMA SumMono ==
    ASSUME NEW f, NEW g, IsFiniteSet(DOMAIN f), DOMAIN g = DOMAIN f,
           \A x \in DOMAIN f : f[x] \in Rational /\ g[x] \in Rational /\ QLeq(f[x], g[x])
    PROVE  QLeq(QSum(f), QSum(g))
<1>1. PICK h : Sums(f, h)
  BY SumExists
<1>2. PICK k : Sums(g, k)
  BY SumExists
<1> DEFINE F == {s \in SUBSET DOMAIN f : h[s] \in Rational /\ k[s] \in Rational /\ QLeq(h[s], k[s])}
<1>3. {} \in F
  BY <1>1, <1>2, Units, Parts DEF Sums
<1>4. ASSUME NEW T \in SUBSET DOMAIN f, T # {}, T \ {First(T)} \in F PROVE T \in F
  <2>1. /\ h[T] = QAdd(f[First(T)], h[T \ {First(T)}])
        /\ k[T] = QAdd(g[First(T)], k[T \ {First(T)}])
    BY <1>1, <1>2, <1>4 DEF Sums
  <2>2. First(T) \in DOMAIN f
    BY <1>4, WithoutFirst
  <2> DEFINE S == T \ {First(T)}
  <2>3. /\ f[First(T)] \in Rational /\ g[First(T)] \in Rational /\ QLeq(f[First(T)], g[First(T)])
        /\ h[S] \in Rational /\ k[S] \in Rational /\ QLeq(h[S], k[S])
    BY <1>4, <2>2
  <2> HIDE DEF S
  <2>4. QLeq(QAdd(f[First(T)], h[S]), QAdd(g[First(T)], k[S]))
    BY <2>3, AddMono
  <2>5. QAdd(f[First(T)], h[S]) \in Rational /\ QAdd(g[First(T)], k[S]) \in Rational
    BY <2>3, Closed
  <2> QED BY <1>4, <2>1, <2>4, <2>5 DEF S
<1>5. \A T \in SUBSET DOMAIN f : T \in F
  <2> HIDE DEF F
  <2> QED BY <1>3, <1>4, SubsetInduction DEF First
<1>6. QLeq(h[DOMAIN f], k[DOMAIN f])
  BY <1>5
<1> QED BY <1>1, <1>2, <1>6 DEF Sums

----------------------------------------------------------------------------
(* Weights, and means *)

\* The recursive function of Weight, likewise.
Counting(f, S, n, h) ==
    h = [s \in {t \in SUBSET S : Cardinality(t) <= n} |->
            IF s = {} THEN 0 ELSE f[First(s)] + h[s \ {First(s)}]]

\* There is such a function for every bound.
LEMMA CountingExists ==
    ASSUME NEW f, NEW S, IsFiniteSet(S), NEW n \in Nat
    PROVE  \E h : Counting(f, S, n, h)
<1> DEFINE N == {m \in Nat : \E h : Counting(f, S, m, h)}
           D(m) == {t \in SUBSET S : Cardinality(t) <= m}
<1>1. 0 \in N
  <2>1. ASSUME NEW t \in SUBSET S, Cardinality(t) <= 0 PROVE t = {}
    <3>1. Cardinality(t) = 0
      BY <2>1, Smaller
    <3> QED BY <3>1, Smaller
  <2>2. Counting(f, S, 0, [s \in D(0) |-> 0])
    BY <2>1 DEF Counting
  <2> QED BY <2>2
<1>2. ASSUME NEW m \in N PROVE m + 1 \in N
  <2>1. PICK h : Counting(f, S, m, h)
    OBVIOUS
  <2> DEFINE g == [s \in D(m + 1) |-> IF s = {} THEN 0 ELSE f[First(s)] + h[s \ {First(s)}]]
             k == [s \in D(m + 1) |-> IF s = {} THEN 0 ELSE f[First(s)] + g[s \ {First(s)}]]
  <2>2. \A s \in D(m) : h[s] = IF s = {} THEN 0 ELSE f[First(s)] + h[s \ {First(s)}]
    BY <2>1 DEF Counting
  <2>3. ASSUME NEW s \in D(m + 1), s # {} PROVE g[s \ {First(s)}] = h[s \ {First(s)}]
    <3>1. s \ {First(s)} \in D(m) /\ m \in Nat
      <4>1. s \in SUBSET S /\ Cardinality(s) <= m + 1 /\ Cardinality(s) \in Nat
        BY Smaller
      <4>2. s \ {First(s)} \in SUBSET S /\ Cardinality(s \ {First(s)}) = Cardinality(s) - 1
        BY <2>3, WithoutFirst
      <4>3. m \in Nat
        OBVIOUS
      <4>4. Cardinality(s \ {First(s)}) <= m
        BY <4>1, <4>2, <4>3
      <4> QED BY <4>2, <4>3, <4>4
    <3>2. ASSUME NEW t \in SUBSET S, Cardinality(t) <= m PROVE Cardinality(t) <= m + 1
      BY <3>1, <3>2, Smaller
    <3>3. \A t \in D(m) : g[t] = h[t]
      BY <2>2, <3>2, Zenon
    <3> QED BY <3>1, <3>3, Zenon
  <2>4. g = k
    <3>1. \A s \in D(m + 1) : g[s] = k[s]
      <4> SUFFICES ASSUME NEW s \in D(m + 1) PROVE g[s] = k[s]
        OBVIOUS
      <4>1. CASE s = {}
        BY <4>1
      <4>2. CASE s # {}
        <5>1. g[s] = f[First(s)] + h[s \ {First(s)}]
          BY <4>2, Zenon
        <5>2. k[s] = f[First(s)] + g[s \ {First(s)}]
          BY <4>2, Zenon
        <5> QED BY <2>3, <4>2, <5>1, <5>2, Zenon
      <4> QED BY <4>1, <4>2
    <3>2. g = [s \in D(m + 1) |-> g[s]] /\ k = [s \in D(m + 1) |-> k[s]]
      OBVIOUS
    <3> HIDE DEF g, k
    <3> QED BY <3>1, <3>2, Zenon
  <2>5. Counting(f, S, m + 1, g)
    BY <2>4 DEF Counting
  <2> QED BY <2>5
<1> HIDE DEF N
<1>3. N = Nat
  BY <1>1, <1>2, NatSetInduction DEF N
<1> QED BY <1>3 DEF N

\* Weight adds one term after the other.
Weights(f, h) ==
    /\ Weight(f) = h[DOMAIN f] /\ h[{}] = 0
    /\ \A s \in SUBSET DOMAIN f : s # {} => h[s] = f[First(s)] + h[s \ {First(s)}]

\* Weight obeys its recursive equations on a finite domain.
LEMMA WeightExists ==
    ASSUME NEW f, IsFiniteSet(DOMAIN f)
    PROVE  \E h : Weights(f, h)
<1> DEFINE S == DOMAIN f
           R(h) == h = [s \in SUBSET S |->
                          IF s = {} THEN 0
                          ELSE LET x == First(s) IN f[x] + h[s \ {x}]]
           iter == CHOOSE h : R(h)
<1>1. PICK n \in Nat : n = Cardinality(S)
  BY FS_CardinalityType
<1>2. PICK h : Counting(f, S, n, h)
  BY CountingExists
<1>3. {t \in SUBSET S : Cardinality(t) <= n} = SUBSET S
  BY <1>1, Smaller
<1>4. R(h)
  BY <1>2, <1>3 DEF Counting
<1>5. R(iter)
  BY <1>4, Zenon
<1>6. Weight(f) = iter[DOMAIN f]
  BY DEF Weight, SumFunction, SumFunctionOnSet, FoldFunctionOnSet, MapThenFoldSet, First
<1> HIDE DEF iter
<1>7. iter[{}] = 0
  <2>1. {} \in SUBSET S
    OBVIOUS
  <2> QED BY <1>5, <2>1, Zenon
<1>8. \A s \in SUBSET S : s # {} => iter[s] = f[First(s)] + iter[s \ {First(s)}]
  BY <1>5, Zenon
<1> QED BY <1>6, <1>7, <1>8 DEF Weights

\* A sum of positive weights is positive.
LEMMA WeightType ==
    ASSUME NEW w, IsFiniteSet(DOMAIN w), \A x \in DOMAIN w : w[x] \in Nat
    PROVE  /\ Weight(w) \in Nat
           /\ DOMAIN w # {} /\ (\A x \in DOMAIN w : w[x] > 0) => Weight(w) > 0
<1>1. PICK h : Weights(w, h)
  BY WeightExists
<1> DEFINE F == {s \in SUBSET DOMAIN w : h[s] \in Nat}
<1>2. {} \in F
  BY <1>1 DEF Weights
<1>3. ASSUME NEW T \in SUBSET DOMAIN w, T # {}, T \ {First(T)} \in F PROVE T \in F
  <2>1. h[T] = w[First(T)] + h[T \ {First(T)}]
    BY <1>1, <1>3 DEF Weights
  <2>2. First(T) \in DOMAIN w
    BY <1>3, WithoutFirst
  <2> QED BY <1>3, <2>1, <2>2
<1>4. \A T \in SUBSET DOMAIN w : T \in F
  <2> HIDE DEF F
  <2> QED BY <1>2, <1>3, SubsetInduction DEF First
<1>5. Weight(w) \in Nat
  BY <1>1, <1>4 DEF Weights
<1>6. ASSUME DOMAIN w # {}, \A x \in DOMAIN w : w[x] > 0 PROVE Weight(w) > 0
  <2> DEFINE S == DOMAIN w
  <2>1. /\ First(S) \in S /\ S \ {First(S)} \in SUBSET S
    BY <1>6, WithoutFirst
  <2>2. Weight(w) = w[First(S)] + h[S \ {First(S)}]
    BY <1>1, <1>6 DEF Weights
  <2>3. w[First(S)] \in Nat /\ w[First(S)] > 0 /\ h[S \ {First(S)}] \in Nat
    BY <1>4, <1>6, <2>1
  <2> QED BY <2>2, <2>3
<1> QED BY <1>5, <1>6

\* A natural number as a rational number.
LEMMA WholeNumber ==
    ASSUME NEW n \in Nat
    PROVE  Q(n, 1) \in Rational /\ Q(n, 1).num >= 0 /\ (n > 0 => Q(n, 1).num > 0)
<1>1. IsValue(Q(n, 1), n, 1)
  BY QIs
<1> QED BY <1>1, Sign DEF IsValue

\* A mean of fractions: what it is, that it is nothing where all are, and that it
\* grows with them.
LEMMA MeanType ==
    ASSUME NEW f, IsFiniteSet(DOMAIN f), \A x \in DOMAIN f : f[x] \in Rational
    PROVE  Mean(f) \in Rational
<1>1. CASE DOMAIN f = {}
  BY <1>1, Units DEF Mean
<1>2. CASE DOMAIN f # {}
  <2>1. Cardinality(DOMAIN f) \in Nat /\ Cardinality(DOMAIN f) > 0
    BY <1>2, Smaller
  <2>2. Q(Cardinality(DOMAIN f), 1) \in Rational /\ Q(Cardinality(DOMAIN f), 1).num > 0
    BY <2>1, WholeNumber
  <2>3. QSum(f) \in Rational
    BY SumType
  <2> QED BY <1>2, <2>2, <2>3, Closed DEF Mean
<1> QED BY <1>1, <1>2

\* A mean of zeros is Zero.
LEMMA MeanOfNothing ==
    ASSUME NEW f, IsFiniteSet(DOMAIN f), \A x \in DOMAIN f : f[x] = Zero
    PROVE  Mean(f) = Zero
<1>1. CASE DOMAIN f = {}
  BY <1>1 DEF Mean
<1>2. CASE DOMAIN f # {}
  <2>1. Cardinality(DOMAIN f) \in Nat /\ Cardinality(DOMAIN f) > 0
    BY <1>2, Smaller
  <2>2. Q(Cardinality(DOMAIN f), 1) \in Rational /\ Q(Cardinality(DOMAIN f), 1).num > 0
    BY <2>1, WholeNumber
  <2>3. QSum(f) = Zero
    BY SumOfNothing
  <2> QED BY <1>2, <2>2, <2>3, OfNothing DEF Mean
<1> QED BY <1>1, <1>2

\* A mean of values each at most another's is at most the other.
LEMMA MeanMono ==
    ASSUME NEW f, NEW g, IsFiniteSet(DOMAIN f), DOMAIN g = DOMAIN f,
           \A x \in DOMAIN f : f[x] \in Rational /\ g[x] \in Rational /\ QLeq(f[x], g[x])
    PROVE  QLeq(Mean(f), Mean(g))
<1>1. CASE DOMAIN f = {}
  BY <1>1, Units, Parts DEF Mean
<1>2. CASE DOMAIN f # {}
  <2> DEFINE n == Q(Cardinality(DOMAIN f), 1)
  <2>1. Cardinality(DOMAIN f) \in Nat /\ Cardinality(DOMAIN f) > 0
    BY <1>2, Smaller
  <2>2. n \in Rational /\ n.num > 0
    BY <2>1, WholeNumber
  <2>3. QSum(f) \in Rational /\ QSum(g) \in Rational
    BY SumType
  <2>4. QLeq(QSum(f), QSum(g))
    BY SumMono
  <2>5. Mean(f) = QDiv(QSum(f), n) /\ Mean(g) = QDiv(QSum(g), n)
    BY <1>2 DEF Mean
  <2> HIDE DEF n
  <2> QED BY <2>2, <2>3, <2>4, <2>5, DivMono
<1> QED BY <1>1, <1>2

\* The same of a weighted mean, whose weights are positive.
Weighed(f, w) ==
    /\ IsFiniteSet(DOMAIN f) /\ DOMAIN f # {} /\ DOMAIN w = DOMAIN f
    /\ \A x \in DOMAIN f : f[x] \in Rational /\ w[x] \in Nat /\ w[x] > 0

\* The terms of a weighted mean.
Scaled(f, w) == [s \in DOMAIN f |-> QMul(f[s], Q(w[s], 1))]

\* A weighted mean is its sum over its weight, and the weight is positive.
LEMMA Weighing ==
    ASSUME NEW f, NEW w, Weighed(f, w)
    PROVE  /\ QSum(Scaled(f, w)) \in Rational
           /\ \A x \in DOMAIN f : Scaled(f, w)[x] \in Rational
           /\ Q(Weight(w), 1) \in Rational /\ Q(Weight(w), 1).num > 0
           /\ WeightedMean(f, w) = QDiv(QSum(Scaled(f, w)), Q(Weight(w), 1))
<1>1. \A x \in DOMAIN f : Scaled(f, w)[x] \in Rational
  BY WholeNumber, Closed DEF Weighed, Scaled
<1>2. IsFiniteSet(DOMAIN Scaled(f, w)) /\ DOMAIN Scaled(f, w) = DOMAIN f
  BY DEF Weighed, Scaled
<1>3. QSum(Scaled(f, w)) \in Rational
  BY <1>1, <1>2, SumType
<1>4. Weight(w) \in Nat /\ Weight(w) > 0
  BY WeightType DEF Weighed
<1>5. WeightedMean(f, w) = QDiv(QSum(Scaled(f, w)), Q(Weight(w), 1))
  BY DEF WeightedMean, Scaled
<1> QED BY <1>1, <1>3, <1>4, <1>5, WholeNumber

\* A weighted mean of rational numbers is one.
LEMMA WeightedMeanType ==
    ASSUME NEW f, NEW w, Weighed(f, w)
    PROVE  WeightedMean(f, w) \in Rational
BY Weighing, Closed

\* A weighted mean of values each at most another's, under the same weights, is
\* at most the other.
LEMMA WeightedMeanMono ==
    ASSUME NEW f, NEW g, NEW w, Weighed(f, w), Weighed(g, w),
           \A x \in DOMAIN f : QLeq(f[x], g[x])
    PROVE  QLeq(WeightedMean(f, w), WeightedMean(g, w))
<1>1. DOMAIN f = DOMAIN w /\ DOMAIN g = DOMAIN w
  BY DEF Weighed
<1>2. ASSUME NEW x \in DOMAIN f PROVE QLeq(Scaled(f, w)[x], Scaled(g, w)[x])
  <2>1. f[x] \in Rational /\ g[x] \in Rational /\ Q(w[x], 1) \in Rational /\ Q(w[x], 1).num >= 0
    BY <1>1, WholeNumber DEF Weighed
  <2>2. QLeq(QMul(f[x], Q(w[x], 1)), QMul(g[x], Q(w[x], 1)))
    BY <2>1, MulMono
  <2> QED BY <1>1, <2>2 DEF Scaled
<1>3. \A x \in DOMAIN f : Scaled(f, w)[x] \in Rational /\ Scaled(g, w)[x] \in Rational
  BY <1>1, Weighing
<1>4. QLeq(QSum(Scaled(f, w)), QSum(Scaled(g, w)))
  <2>1. DOMAIN Scaled(f, w) = DOMAIN f /\ DOMAIN Scaled(g, w) = DOMAIN f
    BY <1>1 DEF Scaled
  <2>2. IsFiniteSet(DOMAIN f)
    BY DEF Weighed
  <2> QED BY <1>2, <1>3, <2>1, <2>2, SumMono
<1> QED BY <1>4, Weighing, DivMono

----------------------------------------------------------------------------
(* The Run Artifacts *)

\* What scoring makes of an answer: no score is negative.
Answers == [outcome : ScoredOutcomes, score : {x \in Rational : x.num >= 0}, twin : BOOLEAN]

\* A key of some schedule of the pack.
IsKey(k) ==
    \E t \in DOMAIN Templates, s \in Seeds, g \in Rungs, r \in Reps :
        \E a \in {"full"} \cup DOMAIN Templates[t].ablations : k = Key(t, s, g, r, a)

\* Of each run every Probe has an answer, or failed.
Recorded(R) ==
    /\ IsFiniteSet(DOMAIN R)
    /\ \A k \in DOMAIN R :
         IsKey(k) /\ R[k] \in [valid : BOOLEAN, probes : [DOMAIN ProbesOf(k) -> Answers]]

\* A tabled function is the function.
LEMMA TableIs ==
    ASSUME NEW f
    PROVE  Table(f) = f
BY DEF Table

\* The key of the same run under another condition.
LEMMA KeyIs ==
    ASSUME NEW k, IsKey(k), NEW c
    PROVE  /\ k.template \in DOMAIN Templates /\ In(k, c).template = k.template
           /\ k.condition \in {"full"} \cup DOMAIN Templates[k.template].ablations
           /\ In(k, c).condition = c /\ In(In(k, c), "full") = In(k, "full")
           /\ Instance(In(k, c)) = Instance(k) /\ In(k, c).rep = k.rep
           /\ k.condition = c => In(k, c) = k
           /\ ProbesOf(In(k, c)) = ProbesOf(k)
<1>1. PICK t \in DOMAIN Templates, s \in Seeds, g \in Rungs, r \in Reps :
        \E a \in {"full"} \cup DOMAIN Templates[t].ablations : k = Key(t, s, g, r, a)
  BY DEF IsKey
<1>2. PICK a \in {"full"} \cup DOMAIN Templates[t].ablations :
        k = [template |-> t, seed |-> s, rung |-> g, rep |-> r, condition |-> a]
  BY <1>1 DEF Key
<1> DEFINE K(d) == [template |-> t, seed |-> s, rung |-> g, rep |-> r, condition |-> d]
<1>3. In(k, c) = K(c) /\ In(k, "full") = K("full") /\ In(In(k, c), "full") = K("full")
  <2>1. ASSUME NEW d, NEW e PROVE [K(d) EXCEPT !.condition = e] = K(e)
    OBVIOUS
  <2>2. k = K(a)
    BY <1>2
  <2>3. \A d, e : In(K(d), e) = K(e)
    BY <2>1, Zenon DEF In
  <2> HIDE DEF K
  <2>4. In(k, c) = K(c) /\ In(k, "full") = K("full")
    BY <2>2, <2>3
  <2> QED BY <2>3, <2>4
<1>4. /\ k.template = t /\ k.seed = s /\ k.rung = g /\ k.rep = r /\ k.condition = a
      /\ K(c).template = t /\ K(c).seed = s /\ K(c).rung = g /\ K(c).rep = r
      /\ K(c).condition = c
  BY <1>2
<1>5. a = c => k = K(c)
  BY <1>2
<1> HIDE DEF K
<1>6. Instance(In(k, c)) = Instance(k)
  BY <1>3, <1>4 DEF Instance
<1>7. ProbesOf(In(k, c)) = ProbesOf(k)
  BY <1>3, <1>4 DEF ProbesOf
<1> QED BY <1>3, <1>4, <1>5, <1>6, <1>7

\* Every Probe of a run counts, unless it has no weight.
LEMMA ScoredIs ==
    ASSUME NEW R, Recorded(R), NEW k \in DOMAIN R
    PROVE  Scored(R, k) = {p \in DOMAIN ProbesOf(k) : ProbeWeight(k, p) > 0}
<1>1. DOMAIN R[k].probes = DOMAIN ProbesOf(k)
  BY DEF Recorded
<1>2. \A p \in DOMAIN ProbesOf(k) : R[k].probes[p].outcome \in ScoredOutcomes
  BY DEF Recorded, Answers
<1> QED BY <1>1, <1>2 DEF Scored

\* The Probes of a run that count, among P; their scores and their weights.
Rows(R, k, P) == Scored(R, k) \cap P

\* The scores of those Probes.
Scores(R, k, P) == [p \in Rows(R, k, P) |-> R[k].probes[p].score]

\* The weights of those Probes.
RowWeights(R, k, P) == [p \in Rows(R, k, P) |-> ProbeWeight(k, p)]

\* The score of a run on P is the weighted mean of its counted answers.
LEMMA ProbeScoreIs ==
    ASSUME NEW R, NEW k, NEW P
    PROVE  ProbeScore(R, k, P) = IF Rows(R, k, P) = {} THEN None
                                 ELSE WeightedMean(Scores(R, k, P), RowWeights(R, k, P))
BY DEF ProbeScore, Rows, Scores, RowWeights

\* The answers that count have positive weights.
LEMMA ScoresAreWeighed ==
    ASSUME NEW R, Recorded(R), NEW k \in DOMAIN R, NEW P, Rows(R, k, P) # {}
    PROVE  Weighed(Scores(R, k, P), RowWeights(R, k, P))
<1>1. k.template \in DOMAIN Templates
  BY KeyIs DEF Recorded
<1>2. /\ IsFiniteSet(DOMAIN ProbesOf(k))
      /\ \A p \in DOMAIN ProbesOf(k) : ProbeWeight(k, p) \in Nat
  BY <1>1, PackAssumption DEF ProbesOf, ProbeWeight
<1>3. Rows(R, k, P) \in SUBSET DOMAIN ProbesOf(k)
  BY ScoredIs DEF Rows
<1>4. IsFiniteSet(Rows(R, k, P))
  BY <1>2, <1>3, FS_Subset
<1>5. ASSUME NEW p \in Rows(R, k, P)
      PROVE  /\ R[k].probes[p].score \in Rational
             /\ ProbeWeight(k, p) \in Nat /\ ProbeWeight(k, p) > 0
  <2>1. p \in DOMAIN ProbesOf(k) /\ ProbeWeight(k, p) > 0
    BY ScoredIs DEF Rows
  <2>2. R[k].probes[p] \in Answers
    BY <2>1 DEF Recorded
  <2> QED BY <1>2, <2>1, <2>2 DEF Answers
<1> QED BY <1>4, <1>5 DEF Weighed, Scores, RowWeights

\* It is a rational number, or None where no Probe counts.
LEMMA ProbeScoreType ==
    ASSUME NEW R, Recorded(R), NEW k \in DOMAIN R, NEW P
    PROVE  /\ Rows(R, k, P) # {} => ProbeScore(R, k, P) \in Rational
           /\ Rows(R, k, P) = {} <=> ProbeScore(R, k, P) = None
           /\ OrZero(ProbeScore(R, k, P)) \in Rational
<1>1. None \notin Rational
  BY PackAssumption
<1>2. Rows(R, k, P) # {} => ProbeScore(R, k, P) \in Rational
  BY ProbeScoreIs, ScoresAreWeighed, WeightedMeanType
<1>3. Rows(R, k, P) = {} => ProbeScore(R, k, P) = None
  BY ProbeScoreIs
<1> QED BY <1>1, <1>2, <1>3, Units DEF OrZero

\* Two runs of one Template: what their answers say of their scores.
LEMMA SameRows ==
    ASSUME NEW R, Recorded(R), NEW S, Recorded(S), NEW k \in DOMAIN R, NEW j \in DOMAIN S,
           ProbesOf(j) = ProbesOf(k), NEW P
    PROVE  /\ Scored(S, j) = Scored(R, k) /\ Rows(S, j, P) = Rows(R, k, P)
           /\ RowWeights(S, j, P) = RowWeights(R, k, P)
<1>1. \A p : ProbeWeight(j, p) = ProbeWeight(k, p)
  BY DEF ProbeWeight
<1>2. Scored(S, j) = Scored(R, k)
  BY <1>1, ScoredIs
<1> QED BY <1>1, <1>2 DEF Rows, RowWeights

\* Answers with the same scores give the same score on P.
LEMMA SameScores ==
    ASSUME NEW R, Recorded(R), NEW S, Recorded(S), NEW k \in DOMAIN R, NEW j \in DOMAIN S,
           ProbesOf(j) = ProbesOf(k), NEW P,
           \A p \in DOMAIN ProbesOf(k) : S[j].probes[p].score = R[k].probes[p].score
    PROVE  ProbeScore(S, j, P) = ProbeScore(R, k, P)
<1>1. \A p \in Rows(R, k, P) : p \in DOMAIN ProbesOf(k)
  BY ScoredIs DEF Rows
<1>2. Rows(S, j, P) = Rows(R, k, P) /\ RowWeights(S, j, P) = RowWeights(R, k, P)
  BY SameRows
<1>3. Scores(S, j, P) = Scores(R, k, P)
  BY <1>1, <1>2 DEF Scores
<1> QED BY <1>2, <1>3, ProbeScoreIs

\* Answers that score no more give no more on P.
LEMMA WorseScores ==
    ASSUME NEW R, Recorded(R), NEW S, Recorded(S), NEW k \in DOMAIN R, NEW j \in DOMAIN S,
           ProbesOf(j) = ProbesOf(k), NEW P,
           \A p \in DOMAIN ProbesOf(k) : QLeq(S[j].probes[p].score, R[k].probes[p].score)
    PROVE  QLeq(OrZero(ProbeScore(S, j, P)), OrZero(ProbeScore(R, k, P)))
<1>1. \A p \in Rows(R, k, P) : p \in DOMAIN ProbesOf(k)
  BY ScoredIs DEF Rows
<1>2. Rows(S, j, P) = Rows(R, k, P) /\ RowWeights(S, j, P) = RowWeights(R, k, P)
  BY SameRows
<1>3. CASE Rows(R, k, P) = {}
  BY <1>2, <1>3, ProbeScoreIs, Units, Parts DEF OrZero
<1>4. CASE Rows(R, k, P) # {}
  <2>1. Weighed(Scores(R, k, P), RowWeights(R, k, P)) /\ Weighed(Scores(S, j, P), RowWeights(S, j, P))
    BY <1>2, <1>4, ScoresAreWeighed
  <2>2. \A p \in DOMAIN Scores(S, j, P) : QLeq(Scores(S, j, P)[p], Scores(R, k, P)[p])
    BY <1>1, <1>2 DEF Scores
  <2>3. QLeq(WeightedMean(Scores(S, j, P), RowWeights(S, j, P)),
             WeightedMean(Scores(R, k, P), RowWeights(R, k, P)))
    BY <1>2, <2>1, <2>2, WeightedMeanMono
  <2>4. /\ ProbeScore(S, j, P) = WeightedMean(Scores(S, j, P), RowWeights(S, j, P))
        /\ ProbeScore(R, k, P) = WeightedMean(Scores(R, k, P), RowWeights(R, k, P))
    BY <1>2, <1>4, ProbeScoreIs
  <2>5. ProbeScore(S, j, P) # None /\ ProbeScore(R, k, P) # None
    BY <1>2, <1>4, ProbeScoreType
  <2> QED BY <2>3, <2>4, <2>5 DEF OrZero
<1> QED BY <1>3, <1>4

----------------------------------------------------------------------------
(* A failure never raises a score *)

\* S is R with run k done otherwise.
Redone(R, S, k) ==
    /\ k \in DOMAIN R /\ DOMAIN S = DOMAIN R
    /\ \A j \in DOMAIN R \ {k} : S[j] = R[j]

\* A failure is recorded as an answer.
LEMMA FailureIsAnAnswer == Failure \in Answers
BY Units DEF Failure, Answers, ScoredOutcomes, Zero

\* The score of a run is a rational number.
LEMMA RunScoreType ==
    ASSUME NEW R, Recorded(R), NEW k \in DOMAIN R
    PROVE  RunScore(R, k) \in Rational
BY ProbeScoreType DEF RunScore

\* The full runs of an Instance are finitely many.
LEMMA FullRuns ==
    ASSUME NEW R, Recorded(R), NEW i
    PROVE  /\ Fulls(R, i) \subseteq DOMAIN R /\ IsFiniteSet(Fulls(R, i))
           /\ \A k \in Fulls(R, i) : Instance(k) = i /\ k.condition = "full"
<1>1. Fulls(R, i) \in SUBSET DOMAIN R
  BY DEF Fulls, Keys
<1>2. IsFiniteSet(Fulls(R, i))
  BY <1>1, FS_Subset DEF Recorded
<1> QED BY <1>1, <1>2 DEF Fulls, Keys

\* An Instance scores no better when one of its runs does not.
LEMMA WorseInstance ==
    ASSUME NEW R, Recorded(R), NEW S, Recorded(S), NEW k, Redone(R, S, k), NEW i,
           QLeq(RunScore(S, k), RunScore(R, k))
    PROVE  QLeq(InstanceScore(S, i), InstanceScore(R, i))
<1>1. Fulls(S, i) = Fulls(R, i)
  BY DEF Redone, Fulls, Keys
<1> DEFINE F == Fulls(R, i)
           f == [j \in F |-> RunScore(S, j)]
           g == [j \in F |-> RunScore(R, j)]
<1>2. IsFiniteSet(F) /\ F \subseteq DOMAIN R /\ F \subseteq DOMAIN S
  BY FullRuns DEF Redone
<1>3. InstanceScore(S, i) = Mean(f) /\ InstanceScore(R, i) = Mean(g)
  BY <1>1 DEF InstanceScore
<1> HIDE DEF F
<1>4. ASSUME NEW j \in F PROVE f[j] \in Rational /\ g[j] \in Rational /\ QLeq(f[j], g[j])
  <2>1. f[j] = RunScore(S, j) /\ g[j] = RunScore(R, j)
    OBVIOUS
  <2>2. RunScore(S, j) \in Rational /\ RunScore(R, j) \in Rational
    BY <1>2, RunScoreType
  <2>3. QLeq(RunScore(S, j), RunScore(R, j))
    <3>1. CASE j = k
      BY <3>1
    <3>2. CASE j # k
      <4>1. S[j] = R[j]
        BY <1>2, <3>2, SMTT(60) DEF Redone
      <4>2. RunScore(S, j) = RunScore(R, j)
        BY <4>1 DEF RunScore, ProbeScore, Scored
      <4> QED BY <2>2, <4>2, Parts
    <3> QED BY <3>1, <3>2
  <2> QED BY <2>1, <2>2, <2>3
<1> QED
  <2>1. DOMAIN f = F /\ DOMAIN g = F
    OBVIOUS
  <2> HIDE DEF f, g
  <2> QED BY <1>2, <1>3, <1>4, <2>1, MeanMono

\* An answer that fails in place of the one given never raises the score of its
\* run, nor that of its Instance.
LEMMA FailingHurts ==
    ASSUME NEW R, Recorded(R), NEW k \in DOMAIN R, NEW p \in DOMAIN R[k].probes, NEW failed,
           failed = [R EXCEPT ![k].probes[p] = Failure]
    PROVE  /\ QLeq(RunScore(failed, k), RunScore(R, k))
           /\ QLeq(InstanceScore(failed, Instance(k)), InstanceScore(R, Instance(k)))
<1>1. /\ R[k] \in [valid : BOOLEAN, probes : [DOMAIN ProbesOf(k) -> Answers]]
      /\ p \in DOMAIN ProbesOf(k)
  BY DEF Recorded
<1>2. failed = [R EXCEPT ![k] = [R[k] EXCEPT !.probes = [R[k].probes EXCEPT ![p] = Failure]]]
  OBVIOUS
<1> DEFINE a == [R[k].probes EXCEPT ![p] = Failure]
<1>3. a \in [DOMAIN ProbesOf(k) -> Answers]
  BY <1>1, FailureIsAnAnswer
<1>4. \A q \in DOMAIN ProbesOf(k) : QLeq(a[q].score, R[k].probes[q].score)
  <2> SUFFICES ASSUME NEW q \in DOMAIN ProbesOf(k) PROVE QLeq(a[q].score, R[k].probes[q].score)
    OBVIOUS
  <2>1. R[k].probes[q].score \in Rational /\ R[k].probes[q].score.num >= 0
    BY <1>1 DEF Answers
  <2>2. a[q] = R[k].probes[q] \/ a[q] = Failure
    BY <1>1
  <2>3. CASE a[q] = R[k].probes[q]
    BY <2>1, <2>3, Parts
  <2>4. CASE a[q] = Failure
    <3>1. a[q].score = Zero
      BY <2>4 DEF Failure
    <3>2. QLeq(Zero, R[k].probes[q].score)
      BY <2>1, Parts DEF QLeq, Zero
    <3> QED BY <3>1, <3>2
  <2> QED BY <2>2, <2>3, <2>4
<1> HIDE DEF a
<1>5. [R[k] EXCEPT !.probes = a] \in [valid : BOOLEAN, probes : [DOMAIN ProbesOf(k) -> Answers]]
      /\ [R[k] EXCEPT !.probes = a].probes = a
  BY <1>1, <1>3
<1>6. /\ DOMAIN failed = DOMAIN R /\ failed[k] = [R[k] EXCEPT !.probes = a]
      /\ \A j \in DOMAIN R \ {k} : failed[j] = R[j]
  BY <1>2 DEF a
<1>7. Redone(R, failed, k)
  BY <1>6 DEF Redone
<1>8. Recorded(failed)
  BY <1>5, <1>6 DEF Recorded
<1>9. QLeq(RunScore(failed, k), RunScore(R, k))
  <2>1. \A q \in DOMAIN ProbesOf(k) : QLeq(failed[k].probes[q].score, R[k].probes[q].score)
    BY <1>4, <1>5, <1>6
  <2> QED BY <1>6, <1>8, <2>1, WorseScores DEF RunScore
<1> QED BY <1>7, <1>8, <1>9, WorseInstance

----------------------------------------------------------------------------
(* The inductive invariant *)

\* The inductive invariant: what is planned and what is recorded has the pack's
\* keys and Probes, a report is written only when the plan is done, and its rows are
\* the ones that the Run Artifacts give.
PackInv ==
    /\ \A k \in plan : IsKey(k)
    /\ Recorded(runs)
    /\ report # NoReport \/ public # NoReport => plan = {}
    /\ Written => report.rows = InstanceRows(runs)

\* Every kind of answer of the model is one that scoring knows.
LEMMA AnswersAreRecorded ==
    ASSUME NEW k
    PROVE  Usual(k) \in Answers /\ Opposite(k) \in Answers /\ Failure \in Answers
<1>1. Zero \in Rational /\ One \in Rational /\ Zero.num = 0 /\ Zero.den = 1 /\ One.num = 1 /\ One.den = 1
  BY Units DEF Zero, One
<1>2. \A x \in {Zero, One}, b \in BOOLEAN : Answer(x, b) \in Answers
  BY <1>1 DEF Answer, Answers, ScoredOutcomes
<1>3. \E x \in {Zero, One}, b \in BOOLEAN : Usual(k) = Answer(x, b)
  <2>1. \A c, d \in BOOLEAN : \E x \in {Zero, One}, b \in BOOLEAN :
           Answer(IF c THEN One ELSE Zero, d) = Answer(x, b)
    OBVIOUS
  <2>2. \E c, d \in BOOLEAN : Usual(k) = Answer(IF c THEN One ELSE Zero, d)
    BY DEF Usual
  <2> QED BY <2>1, <2>2
<1>4. PICK x \in {Zero, One}, b \in BOOLEAN : Usual(k) = Answer(x, b)
  BY <1>3
<1>5. Usual(k).score = x /\ Usual(k).twin = b
  BY <1>4 DEF Answer
<1>6. QSub(One, x) \in Rational /\ QSub(One, x).num >= 0
  <2>1. IsValue(QSub(One, Zero), 1, 1) /\ IsValue(QSub(One, One), 0, 1)
    <3>1. 1 * 1 - 0 * 1 = 1 /\ 1 * 1 = 1 /\ 1 * 1 - 1 * 1 = 0
      OBVIOUS
    <3>2. IsValue(QSub(One, Zero), One.num * Zero.den - Zero.num * One.den, One.den * Zero.den)
      BY <1>1, Arithmetic
    <3>3. IsValue(QSub(One, One), One.num * One.den - One.num * One.den, One.den * One.den)
      BY <1>1, Arithmetic
    <3> QED BY <1>1, <3>1, <3>2, <3>3
  <2>2. QSub(One, Zero).num >= 0 /\ QSub(One, One).num >= 0
    BY <2>1, Sign
  <2> QED BY <2>1, <2>2 DEF IsValue
<1>7. \A c \in BOOLEAN : Answer(QSub(One, x), c) \in Answers
  BY <1>6 DEF Answer, Answers, ScoredOutcomes
<1>8. Opposite(k) \in Answers
  BY <1>2, <1>5, <1>7 DEF Opposite
<1> QED BY <1>2, <1>4, <1>8, FailureIsAnAnswer

\* Every Artifact of a run records an answer or a failure to each of its Probes.
LEMMA ArtifactsAreRecorded ==
    ASSUME NEW k, NEW artifact \in Artifacts(k)
    PROVE  artifact \in [valid : BOOLEAN, probes : [DOMAIN ProbesOf(k) -> Answers]]
<1> DEFINE D == DOMAIN ProbesOf(k)
           all(a) == [p \in D |-> a]
           one(p, a) == [all(Usual(k)) EXCEPT ![p] = a]
<1>1. \A a \in Answers : all(a) \in [D -> Answers]
  OBVIOUS
<1>2. \A p \in D : \A a \in Answers : one(p, a) \in [D -> Answers]
  BY AnswersAreRecorded
<1>3. \/ artifact \in {[valid |-> TRUE, probes |-> all(Usual(k))], [valid |-> FALSE, probes |-> all(Failure)]}
      \/ \E p \in D, a \in {Opposite(k), Failure} : artifact = [valid |-> TRUE, probes |-> one(p, a)]
      \/ artifact = [valid |-> FALSE, probes |-> all(Usual(k))]
  BY DEF Artifacts
<1> HIDE DEF D, all, one
<1>4. \E v \in BOOLEAN, f \in [D -> Answers] : artifact = [valid |-> v, probes |-> f]
  BY <1>1, <1>2, <1>3, AnswersAreRecorded
<1> QED BY <1>4 DEF D

\* The plan holds keys of the pack only.
LEMMA PlannedKeys ==
    ASSUME NEW c, NEW k \in Plan(c)
    PROVE  IsKey(k)
BY DEF Plan, Interventions, IsKey

\* The invariant holds before the first run.
LEMMA InitPack == Init => PackInv
<1> SUFFICES ASSUME Init PROVE PackInv
  OBVIOUS
<1>1. \A k \in plan : IsKey(k)
  BY PlannedKeys DEF Init
<1>2. DOMAIN runs = {}
  BY DEF Init
<1>3. Recorded(runs)
  BY <1>2, FS_EmptySet DEF Recorded
<1> QED BY <1>1, <1>3 DEF PackInv, Init, Written

\* Every step keeps the invariant.
LEMMA StepPack == PackInv /\ [Next]_vars => PackInv'
<1> SUFFICES ASSUME PackInv, [Next]_vars PROVE PackInv'
  OBVIOUS
<1>1. CASE Run
  <2> DEFINE k == CHOOSE key \in plan : TRUE
  <2>1. /\ k \in plan /\ plan' = plan \ {k}
        /\ report = NoReport /\ report' = report /\ public = NoReport /\ public' = public
    BY <1>1 DEF Run, PackInv
  <2>2. PICK artifact \in Artifacts(k) : runs' = Put(runs, k, artifact)
    BY <1>1 DEF Run
  <2> HIDE DEF k
  <2>3. IsKey(k) /\ Recorded(runs)
    BY <2>1 DEF PackInv
  <2>4. artifact \in [valid : BOOLEAN, probes : [DOMAIN ProbesOf(k) -> Answers]]
    BY <2>2, ArtifactsAreRecorded
  <2>5. DOMAIN runs' = DOMAIN runs \cup {k}
        /\ \A j \in DOMAIN runs \cup {k} : runs'[j] = IF j = k THEN artifact ELSE runs[j]
    BY <2>2 DEF Put
  <2>6. IsFiniteSet(DOMAIN runs \cup {k})
    BY <2>3, FS_AddElement DEF Recorded
  <2>7. Recorded(runs')
    BY <2>3, <2>4, <2>5, <2>6 DEF Recorded
  <2>8. \A j \in plan' : IsKey(j)
    BY <2>1 DEF PackInv
  <2> QED BY <2>1, <2>7, <2>8 DEF PackInv, Written
<1>2. CASE Report
  <2>1. report'.rows = InstanceRows(runs)
    BY <1>2 DEF Report, ReportOf, ReportOn, Assembled
  <2> QED BY <1>2, <2>1 DEF Report, PackInv
<1>3. CASE Publish
  BY <1>3 DEF Publish, PackInv, Written
<1>4. CASE Edit
  <2>1. plan' = plan /\ runs' = runs /\ public # NoReport
    BY <1>4 DEF Edit
  <2>2. edited' \in {"report", "public"}
    BY <1>4 DEF Edit
  <2>3. edited' # None
    BY <2>2, PackAssumption
  <2> QED BY <2>1, <2>3 DEF PackInv, Written
<1>5. CASE UNCHANGED vars
  BY <1>5 DEF vars, PackInv, Written
<1> QED BY <1>1, <1>2, <1>3, <1>4, <1>5 DEF Next

----------------------------------------------------------------------------
(* The theorems of the invariant *)

\* The invariant holds in every reachable state, for every pack: the plan of
\* run_suite, the Run Artifacts it collects and the report it aggregates from them.
THEOREM PackReportInvariant == Spec => []PackInv
BY InitPack, StepPack, PTL DEF Spec

\* No answer of a full run would have scored more, for its run or for its Instance,
\* had it failed: a failure counts as zero over the same weights (weighted_probe_score),
\* for every pack.
THEOREM FailingNeverHelpsHolds == Spec => []FailingNeverHelps
<1>1. PackInv => FailingNeverHelps
  <2> SUFFICES ASSUME PackInv, NEW k \in DOMAIN runs, NEW p \in DOMAIN runs[k].probes
               PROVE  LET failed == [runs EXCEPT ![k].probes[p] = Failure]
                      IN  /\ QLeq(RunScore(failed, k), RunScore(runs, k))
                          /\ QLeq(InstanceScore(failed, Instance(k)), InstanceScore(runs, Instance(k)))
    BY DEF FailingNeverHelps
  <2>1. Recorded(runs)
    BY DEF PackInv
  <2> QED BY <2>1, FailingHurts
<1> QED BY <1>1, PackReportInvariant, PTL

----------------------------------------------------------------------------
(* Broken pairs *)

\* The runs that an Instance compares the irrelevant ablation of run k with.
Relevant(R, k) ==
    {j \in DOMAIN R : /\ Instance(j) = Instance(k) /\ j.rep = k.rep
                      /\ Kind(j) = "relevant" /\ PairValid(R, j)}

\* What a run that was broken off said, and what it might have said instead.
Broken(R, S, k) ==
    Recorded(R) /\ Recorded(S) /\ Redone(R, S, k) /\ ~R[k].valid /\ ~S[k].valid

\* Which pairs are valid does not depend on what a broken run said.
LEMMA SameValidity ==
    ASSUME NEW R, NEW S, NEW k, Broken(R, S, k), NEW j \in DOMAIN R
    PROVE  /\ PairValid(S, j) <=> PairValid(R, j)
           /\ R[j].valid => S[j] = R[j]
           /\ PairValid(R, j) => /\ S[j] = R[j] /\ In(j, "full") \in DOMAIN R
                                 /\ S[In(j, "full")] = R[In(j, "full")]
<1>1. \A x \in DOMAIN R : x # k => S[x] = R[x]
  BY DEF Broken, Redone
<1>2. DOMAIN S = DOMAIN R /\ ~R[k].valid /\ ~S[k].valid
  BY DEF Broken, Redone
<1> QED BY <1>1, <1>2 DEF PairValid

\* Nor do the Probes that are compared.
LEMMA SameProbes ==
    ASSUME NEW R, NEW S, NEW k, Broken(R, S, k), NEW j \in DOMAIN R
    PROVE  /\ Scored(S, j) = Scored(R, j)
           /\ PairedProbes(S, j) = PairedProbes(R, j)
<1>1. DOMAIN S = DOMAIN R /\ Recorded(R) /\ Recorded(S)
  BY DEF Broken, Redone
<1>2. \A x \in DOMAIN R : Scored(S, x) = Scored(R, x)
  BY <1>1, SameRows
<1>3. Relevant(S, j) = Relevant(R, j)
  BY <1>1, SameValidity DEF Relevant
<1>4. \A x \in Relevant(R, j) : x \in DOMAIN R
  BY DEF Relevant
<1>5. UNION {Scored(S, x) : x \in Relevant(S, j)} = UNION {Scored(R, x) : x \in Relevant(R, j)}
  BY <1>2, <1>3, <1>4
<1>6. \A T : PairedProbes(T, j) =
               Scored(T, j) \ (IF Kind(j) = "no_memory"
                               THEN UNION {Scored(T, x) : x \in Relevant(T, j)} ELSE {})
  BY DEF PairedProbes, Relevant
<1> QED BY <1>2, <1>5, <1>6

\* A pair is a valid ablation run with its valid control.
LEMMA PairsAre ==
    ASSUME NEW R, NEW K, NEW j \in Pairs(R, K)
    PROVE  /\ j \in K /\ j \in DOMAIN R /\ j.condition # "full" /\ PairValid(R, j)
           /\ Control(j) \in DOMAIN R /\ PairValid(R, Control(j))
BY DEF Pairs

\* Nor do the comparisons.
LEMMA SameComparisons ==
    ASSUME NEW R, NEW S, NEW k, Broken(R, S, k), NEW K
    PROVE  Comparisons(S, K) = Comparisons(R, K)
<1>1. DOMAIN S = DOMAIN R
  BY DEF Broken, Redone
<1>2. Pairs(S, K) = Pairs(R, K)
  BY <1>1, SameValidity DEF Pairs
<1>3. ASSUME NEW j \in Pairs(R, K)
      PROVE  /\ PairedProbes(S, j) = PairedProbes(R, j)
             /\ \A P : ProbeScore(S, j, P) = ProbeScore(R, j, P)
             /\ \A P : ProbeScore(S, Control(j), P) = ProbeScore(R, Control(j), P)
  <2>1. S[j] = R[j] /\ S[Control(j)] = R[Control(j)] /\ j \in DOMAIN R
    BY PairsAre, SameValidity
  <2>2. PairedProbes(S, j) = PairedProbes(R, j)
    BY <2>1, SameProbes
  <2> QED BY <2>1, <2>2 DEF ProbeScore, Scored
<1>4. Comparable(S, K) = Comparable(R, K)
  BY <1>2, <1>3 DEF Comparable
<1>5. \A j \in Comparable(R, K) : j \in Pairs(R, K)
  BY DEF Comparable
<1> DEFINE c(T) == [j \in Comparable(T, K) |->
                      [with |-> ProbeScore(T, Control(j), PairedProbes(T, j)),
                       without |-> ProbeScore(T, j, PairedProbes(T, j))]]
<1>6. c(S) = c(R)
  BY <1>3, <1>4, <1>5
<1> QED BY <1>6, TableIs DEF Comparisons

\* What a comparison holds: the score with the memory and the one without.
LEMMA ComparableAre ==
    ASSUME NEW R, NEW K
    PROVE  /\ DOMAIN Comparisons(R, K) = Comparable(R, K)
           /\ \A j \in Comparable(R, K) :
                /\ j \in Pairs(R, K)
                /\ Comparisons(R, K)[j].with = ProbeScore(R, Control(j), PairedProbes(R, j))
                /\ Comparisons(R, K)[j].without = ProbeScore(R, j, PairedProbes(R, j))
BY TableIs DEF Comparisons, Comparable

\* Nor do the observations of a metric.
LEMMA SameObservations ==
    ASSUME NEW R, NEW S, NEW k, Broken(R, S, k), NEW K, NEW name \in MetricNames
    PROVE  Observations(S, Comparisons(R, K), name) = Observations(R, Comparisons(R, K), name)
<1> DEFINE C == Comparisons(R, K)
<1>1. ASSUME NEW j \in DOMAIN C
      PROVE  /\ S[j] = R[j] /\ S[In(j, "full")] = R[In(j, "full")]
             /\ PairedProbes(S, j) = PairedProbes(R, j)
  <2>1. j \in Pairs(R, K)
    BY ComparableAre
  <2> QED BY <2>1, PairsAre, SameValidity, SameProbes
<1> HIDE DEF C
<1>2. \A kp \in Of(C, {"twin"}) \X UNION {DOMAIN ProbesOf(j) : j \in DOMAIN C} : kp[1] \in DOMAIN C
  BY DEF Of
<1>3. Tracked(S, C) = Tracked(R, C)
  BY <1>1, <1>2 DEF Tracked
<1>4. \A kp \in Tracked(R, C) : S[kp[1]] = R[kp[1]]
  BY <1>1, <1>2 DEF Tracked
<1>5. CASE name = "tracking"
  BY <1>3, <1>4, <1>5 DEF Observations
<1>6. CASE name # "tracking"
  BY <1>6 DEF Observations, MetricNames
<1> QED BY <1>5, <1>6 DEF C

\* Nor do the metrics.
LEMMA SameMetrics ==
    ASSUME NEW R, NEW S, NEW k, Broken(R, S, k), NEW i
    PROVE  Metrics(S, Keys(S, i)) = Metrics(R, Keys(R, i))
<1>1. Keys(S, i) = Keys(R, i)
  BY DEF Broken, Redone, Keys
<1> DEFINE C == Comparisons(R, Keys(R, i))
<1>2. Comparisons(S, Keys(S, i)) = C
  BY <1>1, SameComparisons
<1>3. \A name \in MetricNames : Observations(S, C, name) = Observations(R, C, name)
  BY SameObservations
<1> HIDE DEF C
<1>4. [name \in MetricNames |-> Table(Observations(S, C, name))]
        = [name \in MetricNames |-> Table(Observations(R, C, name))]
  BY <1>3
<1>5. MetricsOf(S, C) = MetricsOf(R, C)
  BY <1>4, Zenon DEF MetricsOf
<1> QED BY <1>2, <1>5 DEF Metrics, C

\* The product of three finite sets is finite.
LEMMA TripleProduct ==
    ASSUME NEW A, NEW B, NEW C, IsFiniteSet(A), IsFiniteSet(B), IsFiniteSet(C)
    PROVE  IsFiniteSet(A \X B \X C)
<1> DEFINE f == [q \in (A \X B) \X C |-> <<q[1][1], q[1][2], q[2]>>]
<1>1. IsFiniteSet((A \X B) \X C)
  BY FS_Product
<1>2. \A q \in (A \X B) \X C : <<q[1][1], q[1][2], q[2]>> \in A \X B \X C
  OBVIOUS
<1>3. ASSUME NEW t \in A \X B \X C PROVE \E q \in (A \X B) \X C : f[q] = t
  <2>1. <<<<t[1], t[2]>>, t[3]>> \in (A \X B) \X C
    OBVIOUS
  <2>2. f[<<<<t[1], t[2]>>, t[3]>>] = <<t[1], t[2], t[3]>>
    BY <2>1
  <2>3. t = <<t[1], t[2], t[3]>>
    OBVIOUS
  <2> QED BY <2>1, <2>2, <2>3
<1>4. f \in Surjection((A \X B) \X C, A \X B \X C)
  BY <1>2, <1>3 DEF Surjection
<1> QED BY <1>1, <1>4, FS_Surjection

\* An opportunity is a full run, one of its Probes and a twin of it.
LEMMA OpportunitiesAre ==
    ASSUME NEW R, Recorded(R), NEW i, i \in Instances(R), NEW d
    PROVE  /\ IsFiniteSet(OpportunitiesOf(R, i, d))
           /\ \A kp \in OpportunitiesOf(R, i, d) :
                /\ kp[1] \in DOMAIN R /\ Instance(kp[1]) = i
                /\ kp[2] \in DOMAIN ProbesOf(kp[1])
                /\ kp[1].condition = "full"
                /\ Templates[i.template].ablations[kp[3]] = "twin"
<1> DEFINE t == Templates[i.template]
           all == Fulls(R, i) \X (DOMAIN t.probes) \X (DOMAIN t.ablations)
<1>1. i.template \in DOMAIN Templates
  <2>1. PICK k \in DOMAIN R : i = Instance(k)
    BY DEF Instances
  <2> QED BY <2>1, KeyIs DEF Recorded, Instance
<1>2. IsFiniteSet(Fulls(R, i)) /\ Fulls(R, i) \subseteq DOMAIN R
      /\ \A k \in Fulls(R, i) : Instance(k) = i /\ k.condition = "full"
  BY FullRuns
<1>3. IsFiniteSet(DOMAIN t.probes) /\ IsFiniteSet(DOMAIN t.ablations)
  BY <1>1, PackAssumption
<1>4. IsFiniteSet(all)
  BY <1>2, <1>3, TripleProduct
<1>5. OpportunitiesOf(R, i, d) \in SUBSET all
  BY DEF OpportunitiesOf, Opportunities
<1>6. IsFiniteSet(OpportunitiesOf(R, i, d))
  <2> HIDE DEF all
  <2> QED BY <1>4, <1>5, FS_Subset
<1>7. ASSUME NEW kp \in OpportunitiesOf(R, i, d)
      PROVE  /\ kp[1] \in Fulls(R, i) /\ kp[2] \in DOMAIN t.probes
             /\ t.ablations[kp[3]] = "twin"
  BY <1>5 DEF OpportunitiesOf, Opportunities
<1>8. \A k : Instance(k) = i => k.template = i.template
  BY DEF Instance
<1> QED BY <1>2, <1>6, <1>7, <1>8 DEF ProbesOf

\* Nor does the joint evidence.
LEMMA SameJointEvidence ==
    ASSUME NEW R, NEW S, NEW k, Broken(R, S, k), NEW i, i \in Instances(R)
    PROVE  JointEvidence(S, i) = JointEvidence(R, i)
<1>1. DOMAIN S = DOMAIN R /\ Recorded(R)
  BY DEF Broken, Redone
<1>2. Fulls(S, i) = Fulls(R, i)
  BY <1>1 DEF Fulls, Keys
<1>3. \A d : OpportunitiesOf(S, i, d) = OpportunitiesOf(R, i, d)
  BY <1>2 DEF OpportunitiesOf, Opportunities
<1>4. ASSUME NEW d, NEW kp \in OpportunitiesOf(R, i, d)
      PROVE  /\ ValidOpportunity(S, kp) <=> ValidOpportunity(R, kp)
             /\ Following(S, kp) = Following(R, kp)
  <2> DEFINE twin == In(kp[1], kp[3])
  <2>1. kp[1] \in DOMAIN R /\ kp[1].condition = "full" /\ IsKey(kp[1])
    BY <1>1, OpportunitiesAre DEF Recorded
  <2>2. In(twin, "full") = kp[1]
    BY <2>1, KeyIs
  <2> HIDE DEF twin
  <2>3. ASSUME twin \in DOMAIN R
        PROVE  /\ PairValid(S, twin) <=> PairValid(R, twin)
               /\ PairValid(R, twin) => S[twin] = R[twin] /\ S[kp[1]] = R[kp[1]]
    BY <2>2, <2>3, SameValidity
  <2>4. ValidOpportunity(S, kp) <=> ValidOpportunity(R, kp)
    BY <1>1, <2>3 DEF ValidOpportunity, twin
  <2>5. ValidOpportunity(R, kp) => S[twin] = R[twin] /\ S[kp[1]] = R[kp[1]]
    BY <2>3 DEF ValidOpportunity, twin
  <2> QED BY <2>4, <2>5 DEF Following, twin
<1>5. ASSUME NEW d
      PROVE  JointRow(S, OpportunitiesOf(R, i, d)) = JointRow(R, OpportunitiesOf(R, i, d))
  <2> DEFINE all == OpportunitiesOf(R, i, d)
  <2>1. {kp \in all : ValidOpportunity(S, kp)} = {kp \in all : ValidOpportunity(R, kp)}
    BY <1>4
  <2>2. [kp \in all |-> Q(Following(S, kp), 1)] = [kp \in all |-> Q(Following(R, kp), 1)]
    BY <1>4
  <2> HIDE DEF all
  <2>3. JointRow(S, all) = JointRow(R, all)
    BY <2>1, <2>2, Zenon DEF JointRow
  <2> QED BY <2>3 DEF all
<1> QED BY <1>3, <1>5 DEF JointEvidence

\* What a run that was broken off said counts nowhere in the causal evidence.
LEMMA BrokenPairs == PackInv => BrokenPairsCountNowhere
<1> SUFFICES ASSUME PackInv, NEW k \in DOMAIN runs, ~runs[k].valid
             PROVE  LET i == Instance(k)
                        other == [runs EXCEPT ![k].probes = [p \in DOMAIN @ |-> Opposite(k)]]
                    IN  /\ Metrics(other, Keys(other, i)) = Metrics(runs, Keys(runs, i))
                        /\ JointEvidence(other, i) = JointEvidence(runs, i)
  BY DEF BrokenPairsCountNowhere
<1> DEFINE other == [runs EXCEPT ![k].probes = [p \in DOMAIN @ |-> Opposite(k)]]
           a == [p \in DOMAIN runs[k].probes |-> Opposite(k)]
<1>1. Recorded(runs) /\ runs[k] \in [valid : BOOLEAN, probes : [DOMAIN ProbesOf(k) -> Answers]]
  BY DEF PackInv, Recorded
<1>2. /\ DOMAIN other = DOMAIN runs /\ other[k] = [runs[k] EXCEPT !.probes = a]
      /\ \A j \in DOMAIN runs \ {k} : other[j] = runs[j]
  OBVIOUS
<1>3. a \in [DOMAIN ProbesOf(k) -> Answers]
  BY <1>1, AnswersAreRecorded
<1> HIDE DEF other, a
<1>4. other[k] \in [valid : BOOLEAN, probes : [DOMAIN ProbesOf(k) -> Answers]] /\ ~other[k].valid
  BY <1>1, <1>2, <1>3
<1>5. Recorded(other)
  BY <1>1, <1>2, <1>4 DEF Recorded
<1>6. Broken(runs, other, k)
  BY <1>1, <1>2, <1>4, <1>5 DEF Broken, Redone
<1>7. Instance(k) \in Instances(runs)
  BY DEF Instances
<1> QED BY <1>6, <1>7, SameMetrics, SameJointEvidence DEF other

----------------------------------------------------------------------------
(* Answers that do not depend on the memory *)

\* What a comparison, and a tolerance, is made of.
LEMMA ComparisonType ==
    ASSUME NEW R, Recorded(R), NEW K, NEW j \in DOMAIN Comparisons(R, K)
    PROVE  /\ Comparisons(R, K)[j].with \in Rational
           /\ Comparisons(R, K)[j].without \in Rational
           /\ j \in DOMAIN R /\ j \in K /\ Control(j) \in DOMAIN R
           /\ Templates[j.template].tolerance \in Rational
           /\ QLess(Templates[j.template].tolerance, One)
<1> DEFINE P == PairedProbes(R, j)
<1>1. j \in Comparable(R, K) /\ j \in Pairs(R, K)
  BY ComparableAre
<1>2. j \in DOMAIN R /\ j \in K /\ Control(j) \in DOMAIN R
  BY <1>1, PairsAre
<1>3. P # {} /\ ProbeScore(R, Control(j), P) # None
  BY <1>1 DEF Comparable
<1>4. Rows(R, j, P) # {}
  BY <1>3 DEF Rows, PairedProbes
<1>5. ProbeScore(R, j, P) \in Rational /\ ProbeScore(R, Control(j), P) \in Rational
  BY <1>2, <1>3, <1>4, ProbeScoreType
<1>6. Comparisons(R, K)[j].with = ProbeScore(R, Control(j), P)
      /\ Comparisons(R, K)[j].without = ProbeScore(R, j, P)
  BY <1>1, ComparableAre
<1>7. j.template \in DOMAIN Templates
  BY <1>2, KeyIs DEF Recorded
<1> QED BY <1>2, <1>5, <1>6, <1>7, PackAssumption

\* There are finitely many comparisons.
LEMMA ComparisonsAreFinite ==
    ASSUME NEW R, Recorded(R), NEW K, NEW T, T \subseteq DOMAIN Comparisons(R, K)
    PROVE  IsFiniteSet(T)
<1>1. T \in SUBSET DOMAIN R
  BY ComparisonType
<1> QED BY <1>1, FS_Subset DEF Recorded

\* A gain within the tolerance is a rational number.
LEMMA TolerantType ==
    ASSUME NEW loss \in Rational, NEW tau \in Rational, QLess(tau, One)
    PROVE  Tolerant(loss, tau) \in Rational
<1>1. Zero \in Rational /\ One \in Rational /\ One.num = 1 /\ One.den = 1
  BY Units DEF One
<1>2. QMax(Zero, QSub(loss, tau)) \in Rational
  BY <1>1, Closed
<1>3. QSub(One, tau) \in Rational /\ QSub(One, tau).num > 0
  <2>1. IsValue(QSub(One, tau), One.num * tau.den - tau.num * One.den, One.den * tau.den)
    BY <1>1, Arithmetic
  <2>2. PICK a \in Int, b \in Nat \ {0} : tau.num = a /\ tau.den = b
    BY Parts
  <2>3. One.num * tau.den - tau.num * One.den = b - a /\ One.den * tau.den = b
    BY <1>1, <2>2
  <2>4. b - a > 0 /\ b - a \in Int
    BY <1>1, <2>2 DEF QLess
  <2> QED BY <2>1, <2>2, <2>3, <2>4, Sign DEF IsValue
<1>4. QDiv(QMax(Zero, QSub(loss, tau)), QSub(One, tau)) \in Rational
  BY <1>2, <1>3, Closed
<1>5. QSub(One, QDiv(QMax(Zero, QSub(loss, tau)), QSub(One, tau))) \in Rational
  BY <1>1, <1>4, Closed
<1> QED BY <1>5, Units DEF Tolerant

\* Stability and harm resistance are fractions.
LEMMA ToleratedType ==
    ASSUME NEW R, Recorded(R), NEW K, NEW name \in {"ims", "hrs"}
    PROVE  Mean(Observations(R, Comparisons(R, K), name)) \in Rational
<1> DEFINE C == Comparisons(R, K)
           tau(k) == Templates[k.template].tolerance
           ims == [k \in Of(C, {"irrelevant"}) |-> Tolerant(QAbs(Delta(C[k])), tau(k))]
           hrs == [k \in Of(C, {"harmful"}) |-> Tolerant(QMax(Zero, Delta(C[k])), tau(k))]
<1>1. ASSUME NEW k \in DOMAIN C
      PROVE  /\ Tolerant(QAbs(Delta(C[k])), tau(k)) \in Rational
             /\ Tolerant(QMax(Zero, Delta(C[k])), tau(k)) \in Rational
  <2>1. C[k].with \in Rational /\ C[k].without \in Rational
        /\ tau(k) \in Rational /\ QLess(tau(k), One)
    BY ComparisonType
  <2>2. Delta(C[k]) \in Rational /\ Zero \in Rational
    BY <2>1, Closed, Units DEF Delta
  <2>3. QMax(Zero, Delta(C[k])) \in Rational /\ QAbs(Delta(C[k])) \in Rational
    BY <2>2, Closed DEF QAbs
  <2> QED BY <2>1, <2>3, TolerantType
<1>2. \A kinds : Of(C, kinds) \subseteq DOMAIN C /\ IsFiniteSet(Of(C, kinds))
  BY ComparisonsAreFinite DEF Of
<1>3. DOMAIN ims = Of(C, {"irrelevant"}) /\ DOMAIN hrs = Of(C, {"harmful"})
  OBVIOUS
<1>4. /\ \A k \in DOMAIN ims : ims[k] \in Rational
      /\ \A k \in DOMAIN hrs : hrs[k] \in Rational
  BY <1>1, <1>2
<1>5. name = "ims" => Observations(R, C, name) = ims
  BY DEF Observations
<1>6. name = "hrs" => Observations(R, C, name) = hrs
  BY DEF Observations
<1> HIDE DEF C, ims, hrs
<1>7. Mean(ims) \in Rational /\ Mean(hrs) \in Rational
  BY <1>2, <1>3, <1>4, MeanType
<1>8. Mean(Observations(R, C, name)) \in Rational
  BY <1>5, <1>6, <1>7
<1> QED BY <1>8 DEF C

\* An Agent whose variants with less memory score as the full runs do.
Indifferent(R, K) ==
    \A k \in K \cap DOMAIN R : Kind(k) \in {"relevant", "no_memory"} =>
        \A p \in DOMAIN R[k].probes : R[k].probes[p].score = R[In(k, "full")].probes[p].score

\* The control of an ablation is the full run of the same repetition.
LEMMA FullIsTheControl ==
    ASSUME NEW k, IsKey(k), Kind(k) \in {"relevant", "no_memory"}
    PROVE  Control(k) = In(k, "full")
<1>1. k.template \in DOMAIN Templates
  BY KeyIs
<1>2. k.condition # "full" /\ Templates[k.template].ablations[k.condition] # "harmful"
  BY DEF Kind
<1>3. k.condition \notin DOMAIN Templates[k.template].reference
  BY <1>1, <1>2, PackAssumption
<1> QED BY <1>3 DEF Control

\* One less the tolerance is positive: the tolerance is clamped below one.
LEMMA HeadroomIsPositive ==
    ASSUME NEW h \in Rational, QLess(Q(2, 100), h)
    PROVE  h.num > 0
<1>1. IsValue(Q(2, 100), 2, 100)
  BY QIs
<1>2. PICK a \in Int, b \in Nat \ {0} : Q(2, 100).num = a /\ Q(2, 100).den = b /\ a > 0
  BY <1>1, Sign DEF IsValue, Rational
<1>3. PICK c \in Int, d \in Nat \ {0} : h.num = c /\ h.den = d
  BY Parts
<1>4. a * d < c * b
  BY <1>2, <1>3 DEF QLess
<1>5. a * d \in Nat
  BY <1>2, Products
<1>6. ASSUME c <= 0 PROVE FALSE
  <2>1. -c \in Nat /\ (-c) * b \in Nat /\ c * b = -((-c) * b)
    BY <1>6, Products
  <2> QED BY <1>4, <1>5, <2>1
<1> QED BY <1>3, <1>6

\* Where nothing changes without the memory, nothing was gained from it.
LEMMA NothingGained ==
    ASSUME NEW R, Recorded(R), NEW K, Indifferent(R, K)
    PROVE  Mean(Observations(R, Comparisons(R, K), "hmb")) = Zero
<1> DEFINE C == Comparisons(R, K)
           benefits == Of(C, {"relevant", "no_memory"})
           D == {b \in benefits : QLess(Q(2, 100), Headroom(C[b]))}
           hmb == [k \in D |-> QDiv(QMax(Zero, Delta(C[k])), Headroom(C[k]))]
<1>1. Observations(R, C, "hmb") = hmb
  BY DEF Observations
<1>2. D \subseteq DOMAIN C /\ IsFiniteSet(D)
        /\ \A k \in D : Kind(k) \in {"relevant", "no_memory"} /\ QLess(Q(2, 100), Headroom(C[k]))
  BY ComparisonsAreFinite DEF Of
<1>3. ASSUME NEW k \in D PROVE hmb[k] = Zero
  <2>1. /\ C[k].with \in Rational /\ C[k].without \in Rational
        /\ k \in DOMAIN R /\ k \in K /\ Control(k) \in DOMAIN R /\ IsKey(k)
    BY <1>2, ComparisonType DEF Recorded
  <2>2. Control(k) = In(k, "full")
    BY <1>2, <2>1, FullIsTheControl
  <2>3. ProbesOf(k) = ProbesOf(Control(k))
    BY <2>1, <2>2, KeyIs
  <2>4. \A p \in DOMAIN ProbesOf(k) : R[k].probes[p].score = R[Control(k)].probes[p].score
    <3>1. DOMAIN R[k].probes = DOMAIN ProbesOf(k)
      BY <2>1 DEF Recorded
    <3> QED BY <1>2, <2>1, <2>2, <3>1 DEF Indifferent
  <2>5. ProbeScore(R, Control(k), PairedProbes(R, k)) = ProbeScore(R, k, PairedProbes(R, k))
    BY <2>1, <2>3, <2>4, SameScores
  <2>6. C[k].with = C[k].without
    BY <1>2, <2>5, ComparableAre
  <2>7. QMax(Zero, Delta(C[k])) = Zero
    BY <2>1, <2>6, OfNothing, Units DEF Delta
  <2>8. Headroom(C[k]) \in Rational
    BY <2>1, Closed, Units DEF Headroom
  <2>9. Headroom(C[k]).num > 0
    BY <1>2, <2>8, HeadroomIsPositive
  <2> QED BY <2>7, <2>8, <2>9, OfNothing
<1>4. DOMAIN hmb = D
  OBVIOUS
<1> HIDE DEF D, hmb
<1>5. Mean(hmb) = Zero
  BY <1>2, <1>3, <1>4, MeanOfNothing
<1> QED BY <1>1, <1>5

\* The value of a metric is the clamped mean of its observations, where it has any.
LEMMA MetricIs ==
    ASSUME NEW R, NEW K, NEW name \in DOMAIN Metrics(R, K)
    PROVE  Metrics(R, K)[name].value = Mean(Observations(R, Comparisons(R, K), name))
<1> DEFINE C == Comparisons(R, K)
           observed == [m \in MetricNames |-> Observations(R, C, m)]
<1>1. Metrics(R, K) = MeansOf(observed)
  BY TableIs DEF Metrics, MetricsOf
<1> HIDE DEF observed
<1>2. MeansOf(observed) =
        [m \in {n \in MetricNames : DOMAIN observed[n] # {}} |->
            [value |-> Mean(observed[m]), n |-> Cardinality(DOMAIN observed[m])]]
  BY TableIs DEF MeansOf
<1>3. name \in MetricNames /\ Metrics(R, K)[name].value = Mean(observed[name])
  BY <1>1, <1>2
<1> QED BY <1>3 DEF observed

\* The causal score of rational metrics is rational, where it is defined.
LEMMA CausalMean ==
    ASSUME NEW M, "hmb" \in DOMAIN M,
           \A m \in DOMAIN M : m \in {"ims", "hrs"} => M[m].value \in Rational
    PROVE  \E x \in Rational : CausalScore(M) = QMul(M["hmb"].value, x)
<1> DEFINE weight == [hmb |-> 5, ims |-> 2, hrs |-> 3]
           present == DOMAIN weight \cap DOMAIN M
           f == [m \in present |-> IF m = "hmb" THEN One ELSE M[m].value]
           w == Restrict(weight, present)
<1>1. CausalScore(M) = QMul(M["hmb"].value, WeightedMean(f, w))
  BY DEF CausalScore
<1>2. DOMAIN weight = {"hmb", "ims", "hrs"} /\ \A m \in DOMAIN weight : weight[m] \in Nat /\ weight[m] > 0
  OBVIOUS
<1>3. IsFiniteSet(present)
  <2>1. IsFiniteSet({"hmb", "ims", "hrs"})
    <3>1. IsFiniteSet({} \cup {"hmb"})
      BY FS_EmptySet, FS_AddElement
    <3>2. IsFiniteSet(({} \cup {"hmb"}) \cup {"ims"})
      BY <3>1, FS_AddElement
    <3>3. IsFiniteSet((({} \cup {"hmb"}) \cup {"ims"}) \cup {"hrs"})
      BY <3>2, FS_AddElement
    <3>4. {"hmb", "ims", "hrs"} = (({} \cup {"hmb"}) \cup {"ims"}) \cup {"hrs"}
      OBVIOUS
    <3> QED BY <3>3, <3>4
  <2>2. present \in SUBSET {"hmb", "ims", "hrs"}
    BY <1>2
  <2> QED BY <2>1, <2>2, FS_Subset
<1>4. \A m \in present : f[m] \in Rational
  BY <1>2, Units
<1>5. DOMAIN w = present /\ \A m \in present : w[m] \in Nat /\ w[m] > 0
  BY <1>2 DEF Restrict
<1>6. "hmb" \in present /\ DOMAIN f = present
  BY <1>2
<1> HIDE DEF weight, present, f, w
<1>7. Weighed(f, w)
  BY <1>3, <1>4, <1>5, <1>6 DEF Weighed
<1> QED BY <1>1, <1>7, WeightedMeanType

\* A system whose answers do not change with its memory has no metric above zero.
LEMMA NoCredit ==
    ASSUME NEW R, Recorded(R), NEW K, Indifferent(R, K), CausalScore(Metrics(R, K)) # None
    PROVE  CausalScore(Metrics(R, K)) = Zero
<1> DEFINE M == Metrics(R, K)
<1>1. "hmb" \in DOMAIN M
  BY DEF CausalScore
<1>2. M["hmb"].value = Zero
  BY <1>1, MetricIs, NothingGained
<1>3. \A m \in DOMAIN M : m \in {"ims", "hrs"} => M[m].value \in Rational
  BY MetricIs, ToleratedType
<1> HIDE DEF M
<1>4. PICK x \in Rational : CausalScore(M) = QMul(M["hmb"].value, x)
  BY <1>1, <1>3, CausalMean
<1>5. QMul(Zero, x) = Zero
  BY OfNothing
<1> QED BY <1>2, <1>4, <1>5 DEF M

\* The causal score of an Instance row is the causal score of its metrics.
LEMMA CausalIsTheScore ==
    ASSUME NEW R, NEW t, NEW fulls, NEW M, Causal \in DOMAIN DimensionScores(R, t, fulls, M)
    PROVE  /\ CausalScore(M) # None
           /\ DimensionScores(R, t, fulls, M)[Causal] = CausalScore(M)
<1> DEFINE tagged(k, d) == {p \in DOMAIN ProbesOf(k) : ProbesOf(k)[p].dims \in {{}, {d}}}
           score(k, d) == LET x == ProbeScore(R, k, tagged(k, d))
                          IN  IF x = None THEN RunScore(R, k) ELSE x
           plain == [d \in Templates[t].dims \ {Causal} |-> Mean([k \in fulls |-> score(k, d)])]
<1>1. DimensionScores(R, t, fulls, M) = WithCausal(t, M, plain)
  BY DEF DimensionScores
<1>2. Causal \notin DOMAIN plain
  OBVIOUS
<1> HIDE DEF plain
<1>3. WithCausal(t, M, plain) =
        IF Causal \in Templates[t].dims /\ CausalScore(M) # None
        THEN Put(plain, Causal, CausalScore(M)) ELSE plain
  BY TableIs DEF WithCausal
<1>4. Put(plain, Causal, CausalScore(M))[Causal] = CausalScore(M)
  BY DEF Put
<1> QED BY <1>1, <1>2, <1>3, <1>4

\* Where every answer is the twin's, or none is, no opportunity shows an effect.
LEMMA NoEffect ==
    ASSUME NEW R, Recorded(R), NEW i, i \in Instances(R),
           \A k \in Keys(R, i) : Kind(k) = "twin" =>
               \A p \in DOMAIN R[k].probes : R[k].probes[p].twin = R[In(k, "full")].probes[p].twin,
           NEW d \in DOMAIN JointEvidence(R, i)
    PROVE  JointEvidence(R, i)[d].effect = Zero
<1> DEFINE all == OpportunitiesOf(R, i, d)
           effects == [kp \in all |-> Q(Following(R, kp), 1)]
<1>1. JointEvidence(R, i)[d] = JointRow(R, all)
  BY TableIs DEF JointEvidence
<1>2. IsFiniteSet(all)
  BY OpportunitiesAre
<1>3. ASSUME NEW kp \in all PROVE Following(R, kp) = 0
  <2> DEFINE twin == In(kp[1], kp[3])
  <2>1. /\ kp[1] \in DOMAIN R /\ Instance(kp[1]) = i /\ kp[2] \in DOMAIN ProbesOf(kp[1])
        /\ kp[1].condition = "full" /\ IsKey(kp[1]) /\ kp[1].template = i.template
        /\ Templates[i.template].ablations[kp[3]] = "twin"
    BY OpportunitiesAre DEF Recorded, Instance
  <2>2. /\ In(twin, "full") = kp[1] /\ Instance(twin) = i /\ twin.condition = kp[3]
        /\ twin.template = i.template /\ ProbesOf(twin) = ProbesOf(kp[1])
        /\ (kp[3] = "full" => twin = kp[1])
    BY <2>1, KeyIs
  <2> HIDE DEF twin
  <2>3. ASSUME twin \in DOMAIN R
        PROVE  R[twin].probes[kp[2]].twin = R[kp[1]].probes[kp[2]].twin
    <3>1. CASE kp[3] = "full"
      BY <2>2, <3>1
    <3>2. CASE kp[3] # "full"
      <4>1. Kind(twin) = "twin" /\ twin \in Keys(R, i)
        BY <2>1, <2>2, <2>3, <3>2 DEF Kind, Keys
      <4>2. kp[2] \in DOMAIN R[twin].probes
        BY <2>1, <2>2, <2>3 DEF Recorded
      <4> QED BY <2>2, <4>1, <4>2
    <3> QED BY <3>1, <3>2
  <2>4. CASE ~ValidOpportunity(R, kp)
    BY <2>4 DEF Following
  <2>5. CASE ValidOpportunity(R, kp)
    <3>1. twin \in DOMAIN R
      BY <2>5 DEF ValidOpportunity, twin
    <3>2. R[twin].probes[kp[2]].twin = R[kp[1]].probes[kp[2]].twin
      BY <2>3, <3>1
    <3>3. \A b, c : b = c => (IF b THEN 1 ELSE 0) - (IF c THEN 1 ELSE 0) = 0
      OBVIOUS
    <3> QED BY <2>5, <3>2, <3>3 DEF Following, twin
  <2> QED BY <2>4, <2>5
<1>4. \A kp \in all : effects[kp] = Zero
  BY <1>3, QZero
<1>5. DOMAIN effects = all /\ JointRow(R, all).effect = Mean(effects)
  BY DEF JointRow
<1> HIDE DEF effects, all
<1> QED BY <1>1, <1>2, <1>4, <1>5, MeanOfNothing

\* A row of the report is the row of an Instance of the recorded runs.
LEMMA RowIs ==
    ASSUME NEW R, NEW i \in DOMAIN InstanceRows(R)
    PROVE  /\ i \in Instances(R)
           /\ InstanceRows(R)[i].dims = DimensionScores(R, i.template, Fulls(R, i), Metrics(R, Keys(R, i)))
           /\ InstanceRows(R)[i].joint = JointEvidence(R, i)
<1>1. InstanceRows(R) = [j \in Instances(R) |-> InstanceRow(R, j, Metrics(R, Keys(R, j)))]
  BY TableIs DEF InstanceRows
<1>2. i \in Instances(R) /\ InstanceRows(R)[i] = InstanceRow(R, i, Metrics(R, Keys(R, i)))
  BY <1>1
<1> QED BY <1>2 DEF InstanceRow

\* A system that answers as if it had no memory earns no causal credit.
LEMMA BlindEarns == PackInv => BlindEarnsNothing
<1> SUFFICES ASSUME PackInv, Written, NEW i \in DOMAIN report.rows
             PROVE  /\ (\A k \in Keys(runs, i) : Kind(k) \in {"relevant", "no_memory"} =>
                           \A p \in DOMAIN runs[k].probes :
                               runs[k].probes[p].score = runs[In(k, "full")].probes[p].score)
                       /\ Causal \in DOMAIN report.rows[i].dims
                         => report.rows[i].dims[Causal] = Zero
                    /\ (\A k \in Keys(runs, i) : Kind(k) = "twin" =>
                           \A p \in DOMAIN runs[k].probes :
                               runs[k].probes[p].twin = runs[In(k, "full")].probes[p].twin)
                         => \A d \in DOMAIN report.rows[i].joint : report.rows[i].joint[d].effect = Zero
  BY DEF BlindEarnsNothing
<1>1. Recorded(runs) /\ report.rows = InstanceRows(runs)
  BY DEF PackInv
<1> DEFINE M == Metrics(runs, Keys(runs, i))
<1>2. /\ i \in Instances(runs)
      /\ report.rows[i].dims = DimensionScores(runs, i.template, Fulls(runs, i), M)
      /\ report.rows[i].joint = JointEvidence(runs, i)
  BY <1>1, RowIs
<1>3. ASSUME \A k \in Keys(runs, i) : Kind(k) \in {"relevant", "no_memory"} =>
                 \A p \in DOMAIN runs[k].probes :
                     runs[k].probes[p].score = runs[In(k, "full")].probes[p].score,
             Causal \in DOMAIN report.rows[i].dims
      PROVE  report.rows[i].dims[Causal] = Zero
  <2>1. Indifferent(runs, Keys(runs, i))
    BY <1>3 DEF Indifferent
  <2>2. CausalScore(M) # None /\ report.rows[i].dims[Causal] = CausalScore(M)
    BY <1>2, <1>3, CausalIsTheScore
  <2> QED BY <1>1, <2>1, <2>2, NoCredit
<1>4. ASSUME \A k \in Keys(runs, i) : Kind(k) = "twin" =>
                 \A p \in DOMAIN runs[k].probes :
                     runs[k].probes[p].twin = runs[In(k, "full")].probes[p].twin,
             NEW d \in DOMAIN report.rows[i].joint
      PROVE  report.rows[i].joint[d].effect = Zero
  BY <1>1, <1>2, <1>4, NoEffect
<1> QED BY <1>3, <1>4

\* Causal credit is earned, in every reachable state and for every pack: a system
\* whose answers do not depend on its memory earns none, and what a run that was
\* broken off said counts nowhere (scoring.py causal metrics, dependence.py).
THEOREM CausalCreditIsEarnedHolds == Spec => []CausalCreditIsEarned
<1>1. PackInv => CausalCreditIsEarned
  BY BlindEarns, BrokenPairs DEF CausalCreditIsEarned
<1> QED BY <1>1, PackReportInvariant, PTL

----------------------------------------------------------------------------
(* A value has one fraction in lowest terms *)

\* There is one quotient and one remainder.
LEMMA OneRemainder ==
    ASSUME NEW y \in Nat \ {0}, NEW q \in Nat, NEW r \in Nat, r < y
    PROVE  (y * q + r) % y = r
<1> DEFINE x == y * q + r
<1>1. x \in Nat
  BY Products
<1> HIDE DEF x
<1> DEFINE p == x \div y
           s == x % y
<1>2. p \in Nat /\ s \in Nat /\ s < y /\ x = y * p + s
  BY <1>1, Remainder
<1> HIDE DEF p, s
<1>3. y * q + r = y * p + s
  BY <1>2 DEF x
<1>4. ASSUME p < q PROVE FALSE
  <2>1. PICK k \in Nat : q = p + 1 + k
    <3>1. q - p - 1 \in Nat /\ q = p + 1 + (q - p - 1)
      BY <1>2, <1>4
    <3> QED BY <3>1
  <2>2. y * q = y * p + y + y * k
    BY <1>2, <2>1
  <2>3. y * k \in Nat /\ y * p \in Nat
    BY <1>2, Products
  <2> QED BY <1>2, <1>3, <2>2, <2>3
<1>5. ASSUME q < p PROVE FALSE
  <2>1. PICK k \in Nat : p = q + 1 + k
    <3>1. p - q - 1 \in Nat /\ p = q + 1 + (p - q - 1)
      BY <1>2, <1>5
    <3> QED BY <3>1
  <2>2. y * p = y * q + y + y * k
    BY <1>2, <2>1
  <2>3. y * k \in Nat /\ y * q \in Nat
    BY <1>2, Products
  <2> QED BY <1>2, <1>3, <2>2, <2>3
<1>6. p = q
  BY <1>2, <1>4, <1>5
<1>7. s = r
  BY <1>2, <1>3, <1>6, Products
<1> QED BY <1>7 DEF s, x

\* The divisor of multiples is the multiple of the divisor.
LEMMA GcdScales ==
    ASSUME NEW k \in Nat \ {0}
    PROVE  \A a, b \in Nat : Gcd[<<k * a, k * b>>] = k * Gcd[<<a, b>>]
<1> DEFINE T == {b \in Nat : \E a \in Nat : Gcd[<<k * a, k * b>>] # k * Gcd[<<a, b>>]}
<1>1. ASSUME T # {} PROVE FALSE
  <2>1. PICK b \in T : \A c \in T : b <= c
    BY <1>1, LeastNumber
  <2>2. PICK a \in Nat : Gcd[<<k * a, k * b>>] # k * Gcd[<<a, b>>]
    OBVIOUS
  <2>3. b \in Nat
    OBVIOUS
  <2>4. k * a \in Nat /\ k * b \in Nat
    BY <2>3, Products
  <2>5. CASE b = 0
    <3>1. k * b = 0
      BY <2>5
    <3>2. Gcd[<<k * a, k * b>>] = k * a
      BY <2>4, <3>1, GcdIs
    <3>3. Gcd[<<a, b>>] = a
      BY <2>5, GcdIs
    <3> QED BY <2>2, <3>2, <3>3
  <2>6. CASE b # 0
    <3> DEFINE q == a \div b
               r == a % b
    <3>1. q \in Nat /\ r \in Nat /\ r < b /\ a = b * q + r
      BY <2>3, <2>6, Remainder
    <3>2. Gcd[<<a, b>>] = Gcd[<<b, r>>]
      BY <2>3, <2>6, GcdIs
    <3> HIDE DEF q, r
    <3>3. k * b # 0 /\ k * r \in Nat /\ k * r < k * b
      <4>1. k * b \in Nat \ {0} /\ k * r \in Nat
        BY <2>3, <2>6, <3>1, Products
      <4>2. k * (b - r) \in Nat \ {0} /\ b - r \in Int
        BY <2>3, <3>1, Products
      <4>3. k * b = k * (b - r) + k * r
        BY <2>3, <3>1
      <4> QED BY <4>1, <4>2, <4>3
    <3>4. (k * a) % (k * b) = k * r
      <4>1. k * a = (k * b) * q + k * r
        <5>1. k * (b * q + r) = k * (b * q) + k * r /\ k * (b * q) = (k * b) * q
          BY <2>3, <3>1, Products
        <5> QED BY <3>1, <5>1
      <4> HIDE DEF T
      <4>2. ((k * b) * q + k * r) % (k * b) = k * r
        BY <2>4, <3>1, <3>3, OneRemainder
      <4> QED BY <4>1, <4>2
    <3>5. Gcd[<<k * a, k * b>>] = Gcd[<<k * b, k * r>>]
      BY <2>4, <3>3, <3>4, GcdIs
    <3>6. r \notin T
      <4> HIDE DEF T
      <4> QED BY <2>1, <2>3, <3>1
    <3>7. Gcd[<<k * b, k * r>>] = k * Gcd[<<b, r>>]
      BY <2>3, <3>1, <3>6
    <3> QED BY <2>2, <3>2, <3>5, <3>7
  <2> QED BY <2>5, <2>6
<1> QED BY <1>1

\* A fraction may be extended.
LEMMA QScales ==
    ASSUME NEW n \in Int, NEW d \in Nat \ {0}, NEW k \in Nat \ {0}
    PROVE  Q(k * n, k * d) = Q(n, d)
<1> DEFINE a == Magnitude(n)
<1>1. a \in Nat /\ (n = a \/ n = -a)
  BY DEF Magnitude
<1>2. Magnitude(k * n) = k * a
  <2>1. k * a \in Nat
    BY <1>1, Products
  <2>2. n >= 0 => k * n >= 0
    BY Products
  <2>3. n < 0 => a = -n /\ a \in Nat \ {0}
    BY DEF Magnitude
  <2>4. n < 0 => k * a \in Nat \ {0}
    BY <2>3, Products
  <2>5. n < 0 => k * n = -(k * a)
    BY <2>3
  <2>6. n >= 0 => a = n
    BY DEF Magnitude
  <2> HIDE DEF a
  <2>7. k * n \in Int
    BY Products
  <2> QED BY <2>1, <2>2, <2>4, <2>5, <2>6, <2>7 DEF Magnitude
<1> HIDE DEF a
<1>3. PICK g \in Nat \ {0} :
        g = Gcd[<<a, d>>] /\ \E x, y \in Nat : a = g * x /\ d = g * y
  BY <1>1, GcdDivides, ZenonT(60)
<1>4. PICK x, y \in Nat : a = g * x /\ d = g * y
  BY <1>3
<1>5. PICK s \in Int : n = g * s
  <2>1. CASE n = a
    BY <2>1, <1>4
  <2>2. CASE n = -a
    <3>1. -x \in Int /\ n = g * (-x)
      BY <2>2, <1>4
    <3> QED BY <3>1
  <2> QED BY <1>1, <2>1, <2>2
<1>6. n \div g = s /\ d \div g = y
  BY <1>4, <1>5, Divided
<1>7. Gcd[<<k * a, k * d>>] = k * g /\ k * g \in Nat \ {0}
  <2>1. Gcd[<<k * a, k * d>>] = k * Gcd[<<a, d>>]
    BY <1>1, GcdScales
  <2>2. k * g \in Nat \ {0}
    BY Products
  <2> QED BY <1>3, <2>1, <2>2
<1>8. k * n = (k * g) * s /\ k * d = (k * g) * y
  BY <1>4, <1>5, Products
<1>9. (k * n) \div (k * g) = s /\ (k * d) \div (k * g) = y
  BY <1>4, <1>7, <1>8, Divided
<1>10. Q(n, d) = [num |-> s, den |-> y]
  BY <1>3, <1>6 DEF Q, Reduced, a
<1>11. Q(k * n, k * d) = [num |-> s, den |-> y]
  BY <1>2, <1>7, <1>9 DEF Q, Reduced
<1> QED BY <1>10, <1>11

\* Fractions of one value have one form in lowest terms.
LEMMA QSame ==
    ASSUME NEW n \in Int, NEW d \in Nat \ {0}, NEW m \in Int, NEW e \in Nat \ {0}, n * e = m * d
    PROVE  Q(n, d) = Q(m, e)
<1>1. Q(n, d) = Q(e * n, e * d) /\ Q(m, e) = Q(d * m, d * e)
  BY QScales
<1>2. e * n = n * e /\ d * m = m * d /\ e * d = d * e
  BY Products
<1> QED BY <1>1, <1>2

\* Integers that are the same polynomial.
LEMMA Polynomials ==
    ASSUME NEW a \in Int, NEW b \in Int, NEW c \in Int, NEW d \in Int, NEW e \in Int, NEW f \in Int
    PROVE  /\ a * b = b * a /\ a * d + c * b = c * b + a * d
           /\ (a * d + c * b) * f + e * (b * d) = a * (d * f) + (c * f + e * d) * b
           /\ (b * d) * f = b * (d * f)
           /\ a * (c * f + e * d) = (a * c) * f + (a * e) * d
OBVIOUS

\* What the operations return, in terms of fractions of the values they are given.
LEMMA AddIs ==
    ASSUME NEW x, NEW n \in Int, NEW d \in Nat \ {0}, IsValue(x, n, d),
           NEW y, NEW m \in Int, NEW e \in Nat \ {0}, IsValue(y, m, e)
    PROVE  QAdd(x, y) = Q(n * e + m * d, d * e)
<1>1. PICK a \in Int, b \in Nat \ {0} : x.num = a /\ x.den = b
  BY Parts DEF IsValue
<1>2. PICK c \in Int, f \in Nat \ {0} : y.num = c /\ y.den = f
  BY Parts DEF IsValue
<1>3. a * d = n * b /\ c * e = m * f
  BY <1>1, <1>2 DEF IsValue
<1>4. /\ a * f + c * b \in Int /\ b * f \in Nat \ {0}
      /\ n * e + m * d \in Int /\ d * e \in Nat \ {0}
  BY Products
<1>5. (a * f + c * b) * (d * e) = (n * e + m * d) * (b * f)
  <2>1. (a * f + c * b) * (d * e) = (a * d) * (f * e) + (c * e) * (b * d)
    OBVIOUS
  <2>2. (n * e + m * d) * (b * f) = (n * b) * (f * e) + (m * f) * (b * d)
    OBVIOUS
  <2> QED BY <1>3, <2>1, <2>2
<1> QED BY <1>1, <1>2, <1>4, <1>5, QSame DEF QAdd

\* The product of two values, out of any fractions that stand for them.
LEMMA MulIs ==
    ASSUME NEW x, NEW n \in Int, NEW d \in Nat \ {0}, IsValue(x, n, d),
           NEW y, NEW m \in Int, NEW e \in Nat \ {0}, IsValue(y, m, e)
    PROVE  QMul(x, y) = Q(n * m, d * e)
<1>1. PICK a \in Int, b \in Nat \ {0} : x.num = a /\ x.den = b
  BY Parts DEF IsValue
<1>2. PICK c \in Int, f \in Nat \ {0} : y.num = c /\ y.den = f
  BY Parts DEF IsValue
<1>3. a * d = n * b /\ c * e = m * f
  BY <1>1, <1>2 DEF IsValue
<1>4. a * c \in Int /\ b * f \in Nat \ {0} /\ n * m \in Int /\ d * e \in Nat \ {0}
  BY Products
<1>5. (a * c) * (d * e) = (n * m) * (b * f)
  <2>1. (a * c) * (d * e) = (a * d) * (c * e)
    OBVIOUS
  <2>2. (n * m) * (b * f) = (n * b) * (m * f)
    OBVIOUS
  <2> QED BY <1>3, <2>1, <2>2
<1> QED BY <1>1, <1>2, <1>4, <1>5, QSame DEF QMul

\* The quotient of two values, out of any fractions that stand for them.
LEMMA DivIs ==
    ASSUME NEW x, NEW n \in Int, NEW d \in Nat \ {0}, IsValue(x, n, d),
           NEW y, NEW m \in Nat \ {0}, NEW e \in Nat \ {0}, IsValue(y, m, e)
    PROVE  QDiv(x, y) = Q(n * e, d * m)
<1>1. PICK a \in Int, b \in Nat \ {0} : x.num = a /\ x.den = b
  BY Parts DEF IsValue
<1>2. y.num > 0
  BY Sign
<1>3. PICK c \in Nat \ {0}, f \in Nat \ {0} : y.num = c /\ y.den = f
  BY <1>2, Parts DEF IsValue
<1>4. a * d = n * b /\ c * e = m * f
  BY <1>1, <1>3 DEF IsValue
<1>5. a * f \in Int /\ b * c \in Nat \ {0} /\ n * e \in Int /\ d * m \in Nat \ {0}
  BY Products
<1>6. (a * f) * (d * m) = (n * e) * (b * c)
  <2>1. (a * f) * (d * m) = (a * d) * (m * f)
    OBVIOUS
  <2>2. (n * e) * (b * c) = (n * b) * (c * e)
    OBVIOUS
  <2> QED BY <1>4, <2>1, <2>2
<1> QED BY <1>1, <1>3, <1>5, <1>6, QSame DEF QDiv

\* Sums do not depend on the order of their terms.
LEMMA AddCommutes ==
    ASSUME NEW x \in Rational, NEW y \in Rational
    PROVE  QAdd(x, y) = QAdd(y, x)
<1>1. PICK a \in Int, b \in Nat \ {0} : x.num = a /\ x.den = b
  BY Parts
<1>2. PICK c \in Int, d \in Nat \ {0} : y.num = c /\ y.den = d
  BY Parts
<1>3. a * d + c * b = c * b + a * d /\ b * d = d * b
  BY Polynomials, Products
<1> QED BY <1>1, <1>2, <1>3 DEF QAdd

\* Fractions may be added in any grouping.
LEMMA AddAssociates ==
    ASSUME NEW x \in Rational, NEW y \in Rational, NEW z \in Rational
    PROVE  QAdd(QAdd(x, y), z) = QAdd(x, QAdd(y, z))
<1>1. PICK a \in Int, b \in Nat \ {0} : x.num = a /\ x.den = b /\ IsValue(x, a, b)
  BY Parts
<1>2. PICK c \in Int, d \in Nat \ {0} : y.num = c /\ y.den = d /\ IsValue(y, c, d)
  BY Parts
<1>3. PICK e \in Int, f \in Nat \ {0} : z.num = e /\ z.den = f /\ IsValue(z, e, f)
  BY Parts
<1>4. /\ a * d + c * b \in Int /\ b * d \in Nat \ {0}
      /\ c * f + e * d \in Int /\ d * f \in Nat \ {0}
  BY Products
<1>5. IsValue(QAdd(x, y), a * d + c * b, b * d) /\ IsValue(QAdd(y, z), c * f + e * d, d * f)
  BY <1>1, <1>2, <1>3, Arithmetic
<1>6. QAdd(QAdd(x, y), z) = Q((a * d + c * b) * f + e * (b * d), (b * d) * f)
  BY <1>3, <1>4, <1>5, AddIs
<1>7. QAdd(x, QAdd(y, z)) = Q(a * (d * f) + (c * f + e * d) * b, b * (d * f))
  BY <1>1, <1>4, <1>5, AddIs
<1>8. (a * d + c * b) * f + e * (b * d) = a * (d * f) + (c * f + e * d) * b
      /\ (b * d) * f = b * (d * f)
  BY Polynomials
<1> QED BY <1>6, <1>7, <1>8

\* The next term may be any of the two first.
LEMMA AddExchanges ==
    ASSUME NEW x \in Rational, NEW y \in Rational, NEW z \in Rational
    PROVE  QAdd(x, QAdd(y, z)) = QAdd(y, QAdd(x, z))
<1>1. QAdd(x, QAdd(y, z)) = QAdd(QAdd(x, y), z)
  BY AddAssociates
<1>2. QAdd(y, QAdd(x, z)) = QAdd(QAdd(y, x), z)
  BY AddAssociates
<1> QED BY <1>1, <1>2, AddCommutes

----------------------------------------------------------------------------
(* Sums in any order *)

Only(f, T) == [x \in T |-> f[x]]
Summable(f) == IsFiniteSet(DOMAIN f) /\ \A x \in DOMAIN f : f[x] \in Rational

\* What holds of the empty set, and of a set with one more element, holds of every
\* subset.
LEMMA ElementInduction ==
    ASSUME NEW S, IsFiniteSet(S), NEW F, {} \in F,
           \A T \in SUBSET S : \A x \in S \ T : T \in F => T \cup {x} \in F
    PROVE  \A T \in SUBSET S : T \in F
<1>1. ASSUME NEW T \in SUBSET S, T # {}, (T \ {CHOOSE x \in T : TRUE}) \in F PROVE T \in F
  <2>1. PICK x \in T : x = CHOOSE y \in T : TRUE
    BY <1>1
  <2>2. T \ {x} \in SUBSET S /\ x \in S \ (T \ {x}) /\ T \ {x} \in F
    BY <1>1, <2>1
  <2>3. (T \ {x}) \cup {x} = T
    OBVIOUS
  <2>4. (T \ {x}) \cup {x} \in F
    BY <2>2
  <2> QED BY <2>3, <2>4
<1> QED BY <1>1, SubsetInduction

\* The sum of f over any subset of its domain takes whichever term first.
LEMMA SumsAgree ==
    ASSUME NEW f, Summable(f), NEW h, Sums(f, h)
    PROVE  /\ \A s \in SUBSET DOMAIN f : h[s] \in Rational
           /\ \A s \in SUBSET DOMAIN f : \A x \in s : h[s] = QAdd(f[x], h[s \ {x}])
<1> DEFINE S == DOMAIN f
           F == {s \in SUBSET S : h[s] \in Rational}
           P(s) == \A x \in s : h[s] = QAdd(f[x], h[s \ {x}])
           N == {n \in Nat : \A s \in SUBSET S : Cardinality(s) = n => P(s)}
<1>0. IsFiniteSet(S) /\ \A x \in S : f[x] \in Rational
  BY DEF Summable
<1>1. h[{}] = Zero /\ \A s \in SUBSET S : s # {} => h[s] = QAdd(f[First(s)], h[s \ {First(s)}])
  BY DEF Sums
<1>2. \A s \in SUBSET S : s \in F
  <2>1. {} \in F
    BY <1>1, Units
  <2>2. ASSUME NEW T \in SUBSET S, T # {}, T \ {First(T)} \in F PROVE T \in F
    <3>1. First(T) \in S
      BY <1>0, <2>2, WithoutFirst
    <3>2. h[T \ {First(T)}] \in Rational /\ f[First(T)] \in Rational
      BY <1>0, <2>2, <3>1
    <3>3. h[T] = QAdd(f[First(T)], h[T \ {First(T)}])
      BY <1>1, <2>2
    <3>4. h[T] \in Rational
      BY <3>2, <3>3, Closed
    <3> QED BY <3>4
  <2> HIDE DEF F
  <2> QED BY <1>0, <2>1, <2>2, SubsetInduction DEF First
<1>3. 0 \in N
  <2>1. \A s \in SUBSET S : Cardinality(s) = 0 => s = {}
    BY <1>0, Smaller
  <2> QED BY <2>1
<1>4. ASSUME NEW n \in N PROVE n + 1 \in N
  <2> SUFFICES ASSUME NEW s \in SUBSET S, Cardinality(s) = n + 1, NEW x \in s
               PROVE  h[s] = QAdd(f[x], h[s \ {x}])
    OBVIOUS
  <2>0. n \in Nat /\ IsFiniteSet(s)
    BY <1>0, Smaller
  <2>1. \A z \in s : Cardinality(s \ {z}) = n
    BY <2>0, FS_RemoveElement
  <2>2. PICK y \in s : y = First(s) /\ h[s] = QAdd(f[y], h[s \ {y}])
    BY <1>0, <1>1, WithoutFirst
  <2>3. CASE x # y
    <3>1. s \ {y} \in SUBSET S /\ x \in s \ {y} /\ s \ {x} \in SUBSET S /\ y \in s \ {x}
      BY <2>3
    <3>2. P(s \ {y}) /\ P(s \ {x})
      BY <2>1, <3>1
    <3>3. h[s \ {y}] = QAdd(f[x], h[(s \ {y}) \ {x}])
      BY <3>1, <3>2
    <3>4. h[s \ {x}] = QAdd(f[y], h[(s \ {x}) \ {y}])
      BY <3>1, <3>2
    <3>5. (s \ {y}) \ {x} = (s \ {x}) \ {y} /\ (s \ {y}) \ {x} \in SUBSET S
      OBVIOUS
    <3>6. h[(s \ {y}) \ {x}] \in Rational /\ f[x] \in Rational /\ f[y] \in Rational
      BY <1>0, <1>2, <3>5
    <3>7. QAdd(f[y], QAdd(f[x], h[(s \ {y}) \ {x}])) = QAdd(f[x], QAdd(f[y], h[(s \ {y}) \ {x}]))
      BY <3>6, AddExchanges
    <3> QED BY <2>2, <3>3, <3>4, <3>5, <3>7, Zenon
  <2> QED BY <2>2, <2>3
<1> HIDE DEF N
<1>5. N = Nat
  BY <1>3, <1>4, NatSetInduction DEF N
<1>6. \A s \in SUBSET S : P(s)
  <2> TAKE s \in SUBSET S
  <2>1. Cardinality(s) \in N
    BY <1>0, <1>5, Smaller
  <2> QED BY <2>1 DEF N
<1> QED BY <1>2, <1>6

\* It is the sum of f on that subset.
LEMMA SumOnly ==
    ASSUME NEW f, Summable(f), NEW h, Sums(f, h), NEW T \in SUBSET DOMAIN f
    PROVE  QSum(Only(f, T)) = h[T]
<1> DEFINE g == Only(f, T)
<1>1. DOMAIN g = T /\ \A x \in T : g[x] = f[x]
  BY DEF Only
<1>2. IsFiniteSet(T)
  BY FS_Subset DEF Summable
<1> HIDE DEF g
<1>3. PICK k : Sums(g, k)
  BY <1>1, <1>2, SumExists
<1> DEFINE F == {s \in SUBSET T : k[s] = h[s]}
<1>4. {} \in F
  BY <1>3 DEF Sums
<1>5. ASSUME NEW s \in SUBSET T, s # {}, s \ {First(s)} \in F PROVE s \in F
  <2>1. First(s) \in T /\ s \in SUBSET DOMAIN f
    BY <1>2, <1>5, WithoutFirst
  <2>2. k[s] = QAdd(g[First(s)], k[s \ {First(s)}])
    BY <1>1, <1>3, <1>5 DEF Sums
  <2>3. h[s] = QAdd(f[First(s)], h[s \ {First(s)}])
    BY <1>5, <2>1 DEF Sums
  <2> QED BY <1>1, <1>5, <2>1, <2>2, <2>3
<1>6. \A s \in SUBSET T : s \in F
  <2> HIDE DEF F
  <2> QED BY <1>2, <1>4, <1>5, SubsetInduction DEF First
<1>7. k[T] = h[T]
  BY <1>6
<1> QED BY <1>1, <1>3, <1>7 DEF Sums, g

\* The sum over a subset, and one term taken out of it.
LEMMA SumTakes ==
    ASSUME NEW f, Summable(f)
    PROVE  /\ QSum(Only(f, {})) = Zero
           /\ \A T \in SUBSET DOMAIN f : QSum(Only(f, T)) \in Rational
           /\ \A T \in SUBSET DOMAIN f : \A x \in DOMAIN f \ T :
                 QSum(Only(f, T \cup {x})) = QAdd(f[x], QSum(Only(f, T)))
<1>1. PICK h : Sums(f, h)
  BY SumExists DEF Summable
<1>2. \A T \in SUBSET DOMAIN f : QSum(Only(f, T)) = h[T]
  BY <1>1, SumOnly
<1>3. ASSUME NEW T \in SUBSET DOMAIN f, NEW x \in DOMAIN f \ T
      PROVE  QSum(Only(f, T \cup {x})) = QAdd(f[x], QSum(Only(f, T)))
  <2>1. T \cup {x} \in SUBSET DOMAIN f /\ (T \cup {x}) \ {x} = T /\ x \in T \cup {x}
    OBVIOUS
  <2>2. h[T \cup {x}] = QAdd(f[x], h[(T \cup {x}) \ {x}])
    BY <1>1, <2>1, SumsAgree
  <2> QED BY <1>2, <2>1, <2>2
<1>4. h[{}] = Zero
  BY <1>1 DEF Sums
<1> QED BY <1>1, <1>2, <1>3, <1>4, SumsAgree

\* A function is itself on its domain, whichever way it is written.
LEMMA SumWhole ==
    ASSUME NEW f, f = [x \in DOMAIN f |-> f[x]]
    PROVE  Only(f, DOMAIN f) = f
BY DEF Only

\* Terms may be renamed.
LEMMA SumRenamed ==
    ASSUME NEW S, NEW f, Summable(f), f = [x \in S |-> f[x]],
           NEW U, NEW g, Summable(g), g = [y \in U |-> g[y]],
           NEW b, U = {b[x] : x \in S},
           \A x, y \in S : b[x] = b[y] => x = y,
           \A x \in S : g[b[x]] = f[x]
    PROVE  QSum(g) = QSum(f)
<1> DEFINE I(T) == {b[x] : x \in T}
           F == {T \in SUBSET S : QSum(Only(g, I(T))) = QSum(Only(f, T))}
<1>0. DOMAIN f = S /\ DOMAIN g = U
  OBVIOUS
<1>1. {} \in F
  <2>1. I({}) = {}
    OBVIOUS
  <2> QED BY <2>1, SumTakes
<1>2. ASSUME NEW T \in SUBSET S, NEW x \in S \ T, T \in F PROVE T \cup {x} \in F
  <2>1. I(T \cup {x}) = I(T) \cup {b[x]} /\ I(T) \in SUBSET U /\ b[x] \in U \ I(T)
    OBVIOUS
  <2>2. QSum(Only(f, T \cup {x})) = QAdd(f[x], QSum(Only(f, T)))
    BY <1>0, SumTakes
  <2> HIDE DEF I
  <2>3. QSum(Only(g, I(T) \cup {b[x]})) = QAdd(g[b[x]], QSum(Only(g, I(T))))
    BY <1>0, <2>1, SumTakes
  <2> QED BY <1>2, <2>1, <2>2, <2>3
<1>3. IsFiniteSet(S)
  BY <1>0 DEF Summable
<1>4. \A T \in SUBSET S : T \in F
  <2> HIDE DEF F
  <2> QED BY <1>1, <1>2, <1>3, ElementInduction
<1>5. QSum(Only(g, I(S))) = QSum(Only(f, S))
  BY <1>4
<1> QED BY <1>0, <1>5, SumWhole

\* Whole numbers are added as rational numbers are, and are told apart by them.
LEMMA WholeNumbers ==
    ASSUME NEW n \in Int, NEW m \in Int
    PROVE  /\ Q(n, 1) \in Rational /\ IsValue(Q(n, 1), n, 1)
           /\ QAdd(Q(n, 1), Q(m, 1)) = Q(n + m, 1)
           /\ Q(n, 1) = Q(m, 1) => n = m
<1>1. IsValue(Q(n, 1), n, 1) /\ IsValue(Q(m, 1), m, 1)
  BY QIs
<1>2. QAdd(Q(n, 1), Q(m, 1)) = Q(n * 1 + m * 1, 1 * 1)
  BY <1>1, AddIs
<1>3. n * 1 + m * 1 = n + m /\ 1 * 1 = 1
  OBVIOUS
<1>4. ASSUME Q(n, 1) = Q(m, 1) PROVE n = m
  <2>1. PICK a \in Int, b \in Nat \ {0} : Q(n, 1).num = a /\ Q(n, 1).den = b
    BY <1>1, Parts DEF IsValue
  <2>2. n * b = a * 1 /\ m * b = a * 1
    BY <1>1, <1>4, <2>1 DEF IsValue
  <2>3. n * b <= m * b /\ m * b <= n * b
    BY <2>1, <2>2
  <2> QED BY <2>1, <2>3, ScaleDown
<1> QED BY <1>1, <1>2, <1>3, <1>4 DEF IsValue

\* The total weight is a sum of rational numbers.
LEMMA WeightIsSum ==
    ASSUME NEW w, IsFiniteSet(DOMAIN w), \A x \in DOMAIN w : w[x] \in Nat
    PROVE  QSum([x \in DOMAIN w |-> Q(w[x], 1)]) = Q(Weight(w), 1)
<1> DEFINE S == DOMAIN w
           f == [x \in S |-> Q(w[x], 1)]
<1>1. PICK h : Weights(w, h)
  BY WeightExists
<1>2. DOMAIN f = S /\ \A x \in S : f[x] = Q(w[x], 1)
  OBVIOUS
<1> HIDE DEF f
<1>3. PICK k : Sums(f, k)
  BY <1>2, SumExists
<1> DEFINE F == {s \in SUBSET S : h[s] \in Int /\ k[s] = Q(h[s], 1)}
<1>4. {} \in F
  BY <1>1, <1>3, QZero DEF Weights, Sums
<1>5. ASSUME NEW T \in SUBSET S, T # {}, T \ {First(T)} \in F PROVE T \in F
  <2>1. First(T) \in S
    BY <1>5, WithoutFirst
  <2>2. h[T] = w[First(T)] + h[T \ {First(T)}]
    BY <1>1, <1>5 DEF Weights
  <2>3. k[T] = QAdd(f[First(T)], k[T \ {First(T)}])
    BY <1>2, <1>3, <1>5 DEF Sums
  <2>4. k[T \ {First(T)}] = Q(h[T \ {First(T)}], 1) /\ h[T \ {First(T)}] \in Int
        /\ w[First(T)] \in Int
    BY <1>5, <2>1
  <2>5. k[T] = QAdd(Q(w[First(T)], 1), Q(h[T \ {First(T)}], 1))
    BY <1>2, <2>1, <2>3, <2>4
  <2>6. k[T] = Q(w[First(T)] + h[T \ {First(T)}], 1)
    BY <2>4, <2>5, WholeNumbers
  <2> QED BY <2>2, <2>4, <2>6
<1>6. \A T \in SUBSET S : T \in F
  <2> HIDE DEF F
  <2> QED BY <1>4, <1>5, SubsetInduction DEF First
<1>7. k[S] = Q(h[S], 1)
  BY <1>6
<1> QED BY <1>1, <1>2, <1>3, <1>7 DEF Weights, Sums, f

\* So is a count.
LEMMA CountIsSum ==
    ASSUME NEW S, IsFiniteSet(S)
    PROVE  QSum([x \in S |-> Q(1, 1)]) = Q(Cardinality(S), 1)
<1> DEFINE f == [x \in S |-> Q(1, 1)]
           F == {T \in SUBSET S : QSum(Only(f, T)) = Q(Cardinality(T), 1)}
<1>1. DOMAIN f = S /\ (\A x \in S : f[x] = Q(1, 1)) /\ f = [x \in DOMAIN f |-> f[x]]
  OBVIOUS
<1>2. Summable(f)
  BY <1>1, WholeNumber DEF Summable
<1> HIDE DEF f
<1>3. {} \in F
  <2>1. QSum(Only(f, {})) = Zero
    BY <1>2, SumTakes
  <2> QED BY <2>1, QZero, FS_EmptySet
<1>4. ASSUME NEW T \in SUBSET S, NEW x \in S \ T, T \in F PROVE T \cup {x} \in F
  <2>1. QSum(Only(f, T \cup {x})) = QAdd(f[x], QSum(Only(f, T)))
    BY <1>1, <1>2, SumTakes
  <2>2. IsFiniteSet(T) /\ Cardinality(T) \in Nat
    BY Smaller
  <2>3. Cardinality(T \cup {x}) = Cardinality(T) + 1
    BY <2>2, FS_AddElement
  <2>4. QAdd(Q(1, 1), Q(Cardinality(T), 1)) = Q(1 + Cardinality(T), 1)
    BY <2>2, WholeNumbers
  <2>5. 1 + Cardinality(T) = Cardinality(T) + 1
    BY <2>2
  <2> QED BY <1>1, <1>4, <2>1, <2>3, <2>4, <2>5
<1>5. \A T \in SUBSET S : T \in F
  <2> HIDE DEF F
  <2> QED BY <1>3, <1>4, ElementInduction
<1>6. QSum(Only(f, S)) = Q(Cardinality(S), 1)
  BY <1>5
<1> QED BY <1>1, <1>6, SumWhole DEF f

\* The image of a finite set is finite.
LEMMA ImageIsFinite ==
    ASSUME NEW S, IsFiniteSet(S), NEW b
    PROVE  IsFiniteSet({b[x] : x \in S})
<1> DEFINE I(T) == {b[x] : x \in T}
           F == {T \in SUBSET S : IsFiniteSet(I(T))}
<1>1. {} \in F
  <2>1. I({}) = {}
    OBVIOUS
  <2> QED BY <2>1, FS_EmptySet
<1>2. ASSUME NEW T \in SUBSET S, NEW x \in S \ T, T \in F PROVE T \cup {x} \in F
  <2>1. I(T \cup {x}) = I(T) \cup {b[x]} /\ T \cup {x} \in SUBSET S
    OBVIOUS
  <2> HIDE DEF I
  <2>2. IsFiniteSet(I(T) \cup {b[x]})
    BY <1>2, FS_AddElement
  <2> QED BY <2>1, <2>2
<1>3. \A T \in SUBSET S : T \in F
  <2> HIDE DEF F
  <2> QED BY <1>1, <1>2, ElementInduction
<1> QED BY <1>3

\* Weights may be renamed.
LEMMA WeightRenamed ==
    ASSUME NEW S, IsFiniteSet(S), NEW v, v = [x \in S |-> v[x]], \A x \in S : v[x] \in Nat,
           NEW U, NEW w, w = [y \in U |-> w[y]],
           NEW b, U = {b[x] : x \in S},
           \A x, y \in S : b[x] = b[y] => x = y,
           \A x \in S : w[b[x]] = v[x]
    PROVE  Weight(w) = Weight(v)
<1> DEFINE f == [x \in S |-> Q(v[x], 1)]
           g == [y \in U |-> Q(w[y], 1)]
<1>0. DOMAIN v = S /\ DOMAIN w = U
  OBVIOUS
<1>1. IsFiniteSet(U)
  BY ImageIsFinite
<1>2. \A y \in U : w[y] \in Nat
  OBVIOUS
<1>3. Summable(f) /\ Summable(g)
  BY <1>1, <1>2, WholeNumber DEF Summable
<1>4. QSum(g) = QSum(f)
  <2>1. f = [x \in S |-> f[x]] /\ g = [y \in U |-> g[y]] /\ \A x \in S : g[b[x]] = f[x]
    OBVIOUS
  <2> HIDE DEF f, g
  <2> QED BY <1>3, <2>1, SumRenamed, SMTT(60)
<1>5. Weight(v) \in Nat /\ Weight(w) \in Nat
  BY <1>0, <1>1, <1>2, WeightType
<1>6. Q(Weight(w), 1) = Q(Weight(v), 1)
  BY <1>0, <1>1, <1>2, <1>4, WeightIsSum, SMTT(60)
<1> QED BY <1>5, <1>6, WholeNumbers

----------------------------------------------------------------------------
(* Sums and means by pieces *)

\* x is in lowest terms.
Lowest(x) == x \in Rational /\ Q(x.num, x.den) = x

\* What Q returns is, and so are sums and quotients.
LEMMA LowestTerms ==
    /\ \A n \in Int, d \in Nat \ {0} : Lowest(Q(n, d))
    /\ Lowest(Zero)
    /\ \A x, y \in Rational : Lowest(QAdd(x, y)) /\ Lowest(QMul(x, y))
    /\ \A x, y \in Rational : y.num > 0 => Lowest(QDiv(x, y))
<1>1. ASSUME NEW n \in Int, NEW d \in Nat \ {0} PROVE Lowest(Q(n, d))
  <2>1. IsValue(Q(n, d), n, d)
    BY QIs
  <2>2. PICK a \in Int, b \in Nat \ {0} : Q(n, d).num = a /\ Q(n, d).den = b
    BY <2>1, Parts DEF IsValue
  <2>3. a * d = n * b
    BY <2>1, <2>2 DEF IsValue
  <2>4. Q(a, b) = Q(n, d)
    BY <2>3, QSame
  <2> QED BY <2>1, <2>2, <2>4 DEF Lowest, IsValue
<1>2. Lowest(Zero)
  BY <1>1, QZero
<1>3. ASSUME NEW x \in Rational, NEW y \in Rational
      PROVE  /\ Lowest(QAdd(x, y)) /\ Lowest(QMul(x, y))
             /\ y.num > 0 => Lowest(QDiv(x, y))
  <2>1. PICK a \in Int, b \in Nat \ {0} : x.num = a /\ x.den = b
    BY Parts
  <2>2. PICK c \in Int, d \in Nat \ {0} : y.num = c /\ y.den = d
    BY Parts
  <2>3. a * d + c * b \in Int /\ a * c \in Int /\ b * d \in Nat \ {0} /\ a * d \in Int
    BY Products
  <2>4. c > 0 => b * c \in Nat \ {0}
    BY Products
  <2> QED BY <1>1, <2>1, <2>2, <2>3, <2>4 DEF QAdd, QMul, QDiv
<1> QED BY <1>1, <1>2, <1>3

\* A sum of fractions in lowest terms is one itself.
LEMMA SumIsLowest ==
    ASSUME NEW f, Summable(f)
    PROVE  QSum(f) \in Rational /\ Lowest(QSum(f))
<1>1. PICK h : Sums(f, h)
  BY SumExists DEF Summable
<1>2. CASE DOMAIN f = {}
  BY <1>1, <1>2, LowestTerms DEF Sums, Lowest
<1>3. CASE DOMAIN f # {}
  <2>1. PICK x \in DOMAIN f : TRUE
    BY <1>3
  <2>2. h[DOMAIN f] = QAdd(f[x], h[DOMAIN f \ {x}])
    BY <1>1, SumsAgree, SMTT(60)
  <2>3. f[x] \in Rational /\ h[DOMAIN f \ {x}] \in Rational
    BY <1>1, SumsAgree DEF Summable
  <2>4. Lowest(h[DOMAIN f])
    BY <2>2, <2>3, LowestTerms
  <2> QED BY <1>1, <2>4 DEF Sums, Lowest
<1> QED BY <1>2, <1>3

\* A quotient times what it was divided by.
LEMMA DividedAndMultiplied ==
    ASSUME NEW x, Lowest(x), NEW n \in Nat \ {0}
    PROVE  QMul(QDiv(x, Q(n, 1)), Q(n, 1)) = x
<1>1. PICK a \in Int, b \in Nat \ {0} : x.num = a /\ x.den = b /\ IsValue(x, a, b)
  BY Parts DEF Lowest
<1>2. IsValue(Q(n, 1), n, 1)
  BY QIs
<1>3. a * 1 \in Int /\ b * n \in Nat \ {0} /\ (a * 1) * n \in Int /\ (b * n) * 1 \in Nat \ {0}
  BY Products
<1>4. QDiv(x, Q(n, 1)) = Q(a * 1, b * n)
  BY <1>1, <1>2, DivIs
<1>5. IsValue(Q(a * 1, b * n), a * 1, b * n)
  BY <1>3, QIs
<1>6. QMul(Q(a * 1, b * n), Q(n, 1)) = Q((a * 1) * n, (b * n) * 1)
  BY <1>2, <1>3, <1>5, MulIs
<1>7. ((a * 1) * n) * b = a * ((b * n) * 1)
  OBVIOUS
<1>8. Q((a * 1) * n, (b * n) * 1) = Q(a, b)
  BY <1>3, <1>7, QSame
<1> QED BY <1>1, <1>4, <1>6, <1>8 DEF Lowest

\* The part of S that belongs to r.
Piece(S, c, r) == {x \in S : c[x] = r}

\* A sum is the sum of the sums of its pieces.
LEMMA SumPieces ==
    ASSUME NEW S, NEW f, Summable(f), f = [x \in S |-> f[x]],
           NEW R, IsFiniteSet(R), NEW c, \A x \in S : c[x] \in R
    PROVE  QSum([r \in R |-> QSum(Only(f, Piece(S, c, r)))]) = QSum(f)
<1> DEFINE G(T) == [r \in R |-> QSum(Only(f, Piece(T, c, r)))]
           F == {T \in SUBSET S : QSum(G(T)) = QSum(Only(f, T))}
<1>0. DOMAIN f = S /\ IsFiniteSet(S)
  BY DEF Summable
<1>1. ASSUME NEW T \in SUBSET S
      PROVE  Summable(G(T)) /\ DOMAIN G(T) = R /\ \A r \in R : G(T)[r] = QSum(Only(f, Piece(T, c, r)))
  <2>1. \A r \in R : Piece(T, c, r) \in SUBSET S
    BY DEF Piece
  <2>2. \A r \in R : QSum(Only(f, Piece(T, c, r))) \in Rational
    BY <1>0, <2>1, SumTakes
  <2> QED BY <2>2 DEF Summable
<1>2. {} \in F
  <2>1. \A r \in R : G({})[r] = Zero
    <3>1. \A r : Piece({}, c, r) = {}
      BY DEF Piece
    <3>2. QSum(Only(f, {})) = Zero
      BY SumTakes
    <3> QED BY <1>1, <3>1, <3>2
  <2>2. QSum(G({})) = Zero
    <3>1. IsFiniteSet(DOMAIN G({})) /\ \A r \in DOMAIN G({}) : G({})[r] = Zero
      BY <2>1
    <3> HIDE DEF G
    <3> QED BY <3>1, SumOfNothing
  <2>3. QSum(Only(f, {})) = Zero
    BY SumTakes
  <2> QED BY <2>2, <2>3
<1>3. ASSUME NEW T \in SUBSET S, NEW x \in S \ T, T \in F PROVE T \cup {x} \in F
  <2> DEFINE g == G(T)
             h == G(T \cup {x})
             r == c[x]
             A == R \ {r}
  <2>1. r \in R /\ T \cup {x} \in SUBSET S
    BY <1>3
  <2>2. Summable(g) /\ Summable(h) /\ DOMAIN g = R /\ DOMAIN h = R
    BY <1>1, <2>1
  <2>3. h[r] = QAdd(f[x], g[r])
    <3>1. Piece(T \cup {x}, c, r) = Piece(T, c, r) \cup {x} /\ x \in S \ Piece(T, c, r)
          /\ Piece(T, c, r) \in SUBSET S
      BY <1>3 DEF Piece
    <3>2. QSum(Only(f, Piece(T, c, r) \cup {x})) = QAdd(f[x], QSum(Only(f, Piece(T, c, r))))
      BY <1>0, <3>1, SumTakes
    <3> QED BY <1>1, <2>1, <3>1, <3>2
  <2>4. \A s \in A : h[s] = g[s]
    <3>1. \A s \in A : Piece(T \cup {x}, c, s) = Piece(T, c, s)
      BY DEF Piece
    <3> QED BY <1>1, <2>1, <3>1
  <2>5. g = [s \in DOMAIN g |-> g[s]] /\ h = [s \in DOMAIN h |-> h[s]]
    OBVIOUS
  <2>6. f[x] \in Rational
    BY <1>0 DEF Summable
  <2>7. QSum(Only(f, T \cup {x})) = QAdd(f[x], QSum(Only(f, T)))
    BY <1>0, SumTakes
  <2>8. QSum(g) = QSum(Only(f, T))
    BY <1>3
  <2>9. T \cup {x} \in SUBSET S
    BY <2>1
  <2> HIDE DEF g, h, r
  <2>10. Only(h, A) = Only(g, A)
    BY <2>4 DEF Only
  <2>11. A \cup {r} = R /\ r \in R \ A /\ A \in SUBSET R
    BY <2>1
  <2>12. ASSUME NEW k, Summable(k), DOMAIN k = R, k = [s \in DOMAIN k |-> k[s]]
         PROVE  QSum(k) = QAdd(k[r], QSum(Only(k, A)))
    <3> HIDE DEF A
    <3>1. QSum(Only(k, A \cup {r})) = QAdd(k[r], QSum(Only(k, A)))
      BY <2>11, <2>12, SumTakes
    <3>2. Only(k, A \cup {r}) = k
      BY <2>11, <2>12, SumWhole
    <3> QED BY <3>1, <3>2
  <2>13. QSum(g) = QAdd(g[r], QSum(Only(g, A))) /\ QSum(h) = QAdd(h[r], QSum(Only(h, A)))
    BY <2>2, <2>5, <2>12, Zenon
  <2>14. g[r] \in Rational /\ QSum(Only(g, A)) \in Rational
    BY <2>1, <2>2, <2>11, SumTakes DEF Summable
  <2>15. QAdd(QAdd(f[x], g[r]), QSum(Only(g, A))) = QAdd(f[x], QAdd(g[r], QSum(Only(g, A))))
    BY <2>6, <2>14, AddAssociates
  <2>16. QSum(h) = QSum(Only(f, T \cup {x}))
    BY <2>3, <2>7, <2>8, <2>10, <2>12, <2>13, <2>15
  <2> QED BY <2>9, <2>16 DEF h
<1>4. \A T \in SUBSET S : T \in F
  <2> HIDE DEF F
  <2> QED BY <1>0, <1>2, <1>3, ElementInduction, ZenonT(60)
<1>5. QSum(G(S)) = QSum(Only(f, S))
  BY <1>4
<1> QED BY <1>0, <1>5, SumWhole

\* The mean does not depend on the names of its terms.
LEMMA CountRenamed ==
    ASSUME NEW S, IsFiniteSet(S), NEW b, \A x, y \in S : b[x] = b[y] => x = y
    PROVE  /\ IsFiniteSet({b[x] : x \in S})
           /\ Cardinality({b[x] : x \in S}) = Cardinality(S)
<1> DEFINE U == {b[x] : x \in S}
           f == [x \in S |-> Q(1, 1)]
           g == [y \in U |-> Q(1, 1)]
<1>1. IsFiniteSet(U)
  BY ImageIsFinite
<1>2. Summable(f) /\ Summable(g)
  BY <1>1, WholeNumber DEF Summable
<1>3. QSum(g) = QSum(f)
  <2>1. f = [x \in S |-> f[x]] /\ g = [y \in U |-> g[y]] /\ \A x \in S : g[b[x]] = f[x]
    OBVIOUS
  <2> HIDE DEF f, g
  <2> QED BY <1>2, <2>1, SumRenamed
<1>4. QSum(g) = Q(Cardinality(U), 1) /\ QSum(f) = Q(Cardinality(S), 1)
  <2> HIDE DEF U
  <2> QED BY <1>1, CountIsSum
<1>5. Cardinality(U) \in Nat /\ Cardinality(S) \in Nat
  <2> HIDE DEF U
  <2> QED BY <1>1, Smaller
<1>6. Cardinality(U) = Cardinality(S)
  <2>1. Q(Cardinality(U), 1) = Q(Cardinality(S), 1)
    BY <1>3, <1>4
  <2> HIDE DEF U
  <2>2. Cardinality(U) \in Int /\ Cardinality(S) \in Int
    BY <1>5
  <2> QED BY <2>1, <2>2, WholeNumbers
<1> QED BY <1>1, <1>6

\* A mean (weighted_mean, weights one) does not depend on how its values are named.
LEMMA MeanRenamed ==
    ASSUME NEW S, NEW f, Summable(f), f = [x \in S |-> f[x]],
           NEW U, NEW g, g = [y \in U |-> g[y]],
           NEW b, U = {b[x] : x \in S},
           \A x, y \in S : b[x] = b[y] => x = y,
           \A x \in S : g[b[x]] = f[x]
    PROVE  Mean(g) = Mean(f)
<1>1. DOMAIN f = S /\ DOMAIN g = U /\ IsFiniteSet(S)
  BY DEF Summable
<1>2. IsFiniteSet(U) /\ Cardinality(U) = Cardinality(S) /\ (U = {} <=> S = {})
  <2> DEFINE I == {b[x] : x \in S}
  <2>1. IsFiniteSet(I) /\ Cardinality(I) = Cardinality(S)
    BY <1>1, CountRenamed
  <2>2. U = I
    OBVIOUS
  <2>3. I = {} <=> S = {}
    BY <1>1, <2>1, FS_EmptySet, Smaller
  <2> HIDE DEF I
  <2> QED BY <2>1, <2>2, <2>3, Zenon
<1>3. Summable(g)
  BY <1>1, <1>2 DEF Summable
<1>4. QSum(g) = QSum(f)
  BY <1>3, SumRenamed
<1> QED BY <1>1, <1>2, <1>4 DEF Mean

\* The mean of a single fraction.
LEMMA MeanOfOne ==
    ASSUME NEW y, NEW v, Lowest(v)
    PROVE  Mean([k \in {y} |-> v]) = v
<1> DEFINE f == [k \in {y} |-> v]
<1>1. DOMAIN f = {y} /\ f[y] = v /\ f = [x \in DOMAIN f |-> f[x]] /\ v \in Rational
  BY DEF Lowest
<1>2. IsFiniteSet({y}) /\ Cardinality({y}) = 1 /\ {} \cup {y} = {y}
  BY FS_Singleton
<1>3. PICK a \in Int, b \in Nat \ {0} : v.num = a /\ v.den = b /\ IsValue(v, a, b)
  BY <1>1, Parts
<1>4. Summable(f)
  BY <1>1, <1>2 DEF Summable
<1> HIDE DEF f
<1>5. QSum(f) = QAdd(v, Zero)
  <2>1. {} \in SUBSET DOMAIN f /\ y \in DOMAIN f \ {}
    BY <1>1
  <2>2. QSum(Only(f, {} \cup {y})) = QAdd(f[y], QSum(Only(f, {})))
    BY <1>4, <2>1, SumTakes
  <2>3. QSum(Only(f, {})) = Zero
    BY <1>4, SumTakes
  <2> QED BY <1>1, <1>2, <2>2, <2>3, SumWhole
<1>6. IsValue(Zero, 0, 1) /\ IsValue(Q(1, 1), 1, 1)
  BY QIs, QZero
<1>7. QAdd(v, Zero) = v
  <2>1. QAdd(v, Zero) = Q(a * 1 + 0 * b, b * 1)
    BY <1>3, <1>6, AddIs
  <2>2. a * 1 + 0 * b = a /\ b * 1 = b
    OBVIOUS
  <2> QED BY <1>3, <2>1, <2>2 DEF Lowest
<1>8. QDiv(v, Q(1, 1)) = v
  <2>1. QDiv(v, Q(1, 1)) = Q(a * 1, b * 1)
    BY <1>3, <1>6, DivIs
  <2>2. a * 1 = a /\ b * 1 = b
    OBVIOUS
  <2> QED BY <1>3, <2>1, <2>2 DEF Lowest
<1>9. Mean(f) = QDiv(QSum(f), Q(1, 1))
  BY <1>1, <1>2 DEF Mean
<1> QED BY <1>5, <1>7, <1>8, <1>9 DEF f

\* A mean is the mean of the means of its pieces, weighted by their counts.
LEMMA MeanPieces ==
    ASSUME NEW S, S # {}, NEW f, Summable(f), f = [x \in S |-> f[x]],
           NEW M, IsFiniteSet(M), NEW c, \A x \in S : c[x] \in M,
           \A r \in M : Piece(S, c, r) # {}
    PROVE  WeightedMean([r \in M |-> Mean(Only(f, Piece(S, c, r)))],
                        [r \in M |-> Cardinality(Piece(S, c, r))]) = Mean(f)
<1> DEFINE P(r) == Piece(S, c, r)
           means == [r \in M |-> Mean(Only(f, P(r)))]
           counts == [r \in M |-> Cardinality(P(r))]
           terms == [s \in DOMAIN means |-> QMul(means[s], Q(counts[s], 1))]
           ones == [x \in S |-> Q(1, 1)]
<1>0. DOMAIN f = S /\ IsFiniteSet(S)
  BY DEF Summable
<1>1. \A r \in M : P(r) \in SUBSET S /\ P(r) # {}
  BY DEF Piece
<1> HIDE DEF P
<1>2. ASSUME NEW r \in M
      PROVE  /\ IsFiniteSet(P(r)) /\ Cardinality(P(r)) \in Nat \ {0}
             /\ QMul(Mean(Only(f, P(r))), Q(Cardinality(P(r)), 1)) = QSum(Only(f, P(r)))
  <2>1. IsFiniteSet(P(r)) /\ Cardinality(P(r)) \in Nat \ {0}
    BY <1>0, <1>1, Smaller
  <2>2. Summable(Only(f, P(r))) /\ DOMAIN Only(f, P(r)) = P(r)
    BY <1>0, <1>1, <2>1 DEF Summable, Only
  <2>3. Lowest(QSum(Only(f, P(r))))
    BY <2>2, SumIsLowest
  <2>4. Mean(Only(f, P(r))) = QDiv(QSum(Only(f, P(r))), Q(Cardinality(P(r)), 1))
    BY <1>1, <2>2 DEF Mean
  <2> QED BY <2>1, <2>3, <2>4, DividedAndMultiplied
<1>3. QSum(terms) = QSum(f)
  <2>1. terms = [r \in M |-> QSum(Only(f, P(r)))]
    BY <1>2
  <2> HIDE DEF terms
  <2> QED BY <2>1, SumPieces DEF P
<1>4. Q(Weight(counts), 1) = Q(Cardinality(S), 1)
  <2>1. QSum([r \in M |-> Q(counts[r], 1)]) = Q(Weight(counts), 1)
    <3>1. DOMAIN counts = M /\ \A r \in M : counts[r] \in Nat
      BY <1>2
    <3> HIDE DEF counts
    <3> QED BY <3>1, WeightIsSum
  <2>2. [r \in M |-> Q(counts[r], 1)] = [r \in M |-> QSum(Only(ones, P(r)))]
    <3>1. ASSUME NEW r \in M PROVE QSum(Only(ones, P(r))) = Q(counts[r], 1)
      <4>1. Only(ones, P(r)) = [x \in P(r) |-> Q(1, 1)]
        BY <1>1 DEF Only
      <4>2. counts[r] = Cardinality(P(r))
        OBVIOUS
      <4> HIDE DEF counts, ones
      <4> QED BY <1>2, <4>1, <4>2, CountIsSum
    <3> HIDE DEF counts, ones
    <3> QED BY <3>1
  <2>3. QSum([r \in M |-> QSum(Only(ones, P(r)))]) = QSum(ones)
    <3>1. Summable(ones) /\ ones = [x \in S |-> ones[x]]
      BY <1>0, WholeNumber DEF Summable
    <3> HIDE DEF ones
    <3> QED BY <3>1, SumPieces DEF P
  <2>4. QSum(ones) = Q(Cardinality(S), 1)
    BY <1>0, CountIsSum
  <2> QED BY <2>1, <2>2, <2>3, <2>4
<1>5. Mean(f) = QDiv(QSum(f), Q(Cardinality(S), 1))
  BY <1>0 DEF Mean
<1>6. WeightedMean(means, counts) = QDiv(QSum(terms), Q(Weight(counts), 1))
  BY DEF WeightedMean
<1> QED BY <1>3, <1>4, <1>5, <1>6 DEF P

----------------------------------------------------------------------------
(* The dimension scores of an Instance, and of its repetitions *)

\* The score of a run in a Dimension.
TaggedScore(R, k, d) ==
    LET tagged == {p \in DOMAIN ProbesOf(k) : ProbesOf(k)[p].dims \in {{}, {d}}}
        x == ProbeScore(R, k, tagged)
    IN  IF x = None THEN RunScore(R, k) ELSE x

\* It is a fraction in lowest terms.
LEMMA ScoresAreLowest ==
    ASSUME NEW R, Recorded(R), NEW k \in DOMAIN R
    PROVE  /\ \A P : Lowest(OrZero(ProbeScore(R, k, P)))
           /\ \A d : Lowest(TaggedScore(R, k, d))
<1>1. ASSUME NEW P PROVE Lowest(OrZero(ProbeScore(R, k, P)))
  <2>1. CASE Rows(R, k, P) = {}
    BY <2>1, ProbeScoreIs, LowestTerms DEF OrZero
  <2>2. CASE Rows(R, k, P) # {}
    <3> DEFINE f == Scores(R, k, P)
               w == RowWeights(R, k, P)
    <3>1. Weighed(f, w)
      BY <2>2, ScoresAreWeighed
    <3> HIDE DEF f, w
    <3>2. WeightedMean(f, w) = QDiv(QSum(Scaled(f, w)), Q(Weight(w), 1))
          /\ QSum(Scaled(f, w)) \in Rational
          /\ Q(Weight(w), 1) \in Rational /\ Q(Weight(w), 1).num > 0
      BY <3>1, Weighing
    <3>3. Lowest(WeightedMean(f, w))
      BY <3>2, LowestTerms
    <3>4. ProbeScore(R, k, P) = WeightedMean(f, w)
      BY <2>2, ProbeScoreIs DEF f, w
    <3>5. OrZero(ProbeScore(R, k, P)) \in {Zero, WeightedMean(f, w)}
      BY <3>4 DEF OrZero
    <3> QED BY <3>3, <3>5, LowestTerms
  <2> QED BY <2>1, <2>2
<1>2. ASSUME NEW d PROVE Lowest(TaggedScore(R, k, d))
  <2>1. Lowest(RunScore(R, k))
    BY <1>1 DEF RunScore
  <2>2. \A P : ProbeScore(R, k, P) # None => Lowest(ProbeScore(R, k, P))
    BY <1>1 DEF OrZero
  <2> QED BY <2>1, <2>2 DEF TaggedScore
<1> QED BY <1>1, <1>2

\* The scores of runs in the other Dimensions.
PlainOf(R, t, fulls) ==
    [d \in Templates[t].dims \ {Causal} |-> Mean([k \in fulls |-> TaggedScore(R, k, d)])]

\* Where the causal score does not count, a Dimension's score is the mean of its runs.
LEMMA PlainScores ==
    ASSUME NEW R, NEW t, NEW fulls, NEW M
    PROVE  /\ DimensionScores(R, t, fulls, M) = WithCausal(t, M, PlainOf(R, t, fulls))
           /\ \A d \in Templates[t].dims \ {Causal} :
                DimensionScores(R, t, fulls, M)[d] = PlainOf(R, t, fulls)[d]
<1> DEFINE plain == [d \in Templates[t].dims \ {Causal} |->
                        Mean([k \in fulls |-> TaggedScore(R, k, d)])]
<1>1. DimensionScores(R, t, fulls, M) = WithCausal(t, M, plain)
  BY DEF DimensionScores, TaggedScore
<1>2. ASSUME NEW d \in Templates[t].dims \ {Causal}
      PROVE  WithCausal(t, M, plain)[d] = plain[d]
  <2>1. DOMAIN plain = Templates[t].dims \ {Causal}
    OBVIOUS
  <2> HIDE DEF plain
  <2>2. \A v : Put(plain, Causal, v)[d] = plain[d]
    BY <2>1 DEF Put
  <2>3. WithCausal(t, M, plain) = (IF Causal \in Templates[t].dims /\ CausalScore(M) # None
          THEN Put(plain, Causal, CausalScore(M)) ELSE plain)
    BY TableIs DEF WithCausal
  <2> QED BY <2>2, <2>3
<1>3. PlainOf(R, t, fulls) = plain
  BY DEF PlainOf
<1> HIDE DEF plain
<1> QED BY <1>1, <1>2, <1>3

\* Metrics of the same names and values have the same causal score.
LEMMA CausalScoreOf ==
    ASSUME NEW M, NEW N,
           \A m \in {"hmb", "ims", "hrs"} :
              /\ m \in DOMAIN M <=> m \in DOMAIN N
              /\ m \in DOMAIN M => M[m].value = N[m].value
    PROVE  CausalScore(M) = CausalScore(N)
<1> DEFINE weight == [hmb |-> 5, ims |-> 2, hrs |-> 3]
           in(A) == DOMAIN weight \cap DOMAIN A
           f(A) == [m \in in(A) |-> IF m = "hmb" THEN One ELSE A[m].value]
<1>1. DOMAIN weight = {"hmb", "ims", "hrs"}
  OBVIOUS
<1>2. in(M) = in(N)
  BY <1>1
<1>3. f(M) = f(N)
  BY <1>1, <1>2
<1>4. \A A : CausalScore(A) = IF "hmb" \notin DOMAIN A THEN None
                              ELSE QMul(A["hmb"].value, WeightedMean(f(A), Restrict(weight, in(A))))
  BY DEF CausalScore
<1> HIDE DEF f, in, weight
<1> QED BY <1>2, <1>3, <1>4

\* The full run of each repetition of an Instance.
FullKey(i, r) == Key(i.template, i.seed, i.rung, r, "full")

\* Every repetition of the Instance has its full run.
AllRepetitions(R, i) == \A r \in Reps : FullKey(i, r) \in DOMAIN R

\* The full runs of an Instance are one for each repetition.
LEMMA FullsAre ==
    ASSUME NEW R, Recorded(R), NEW i \in Instances(R), AllRepetitions(R, i)
    PROVE  /\ \A r \in Reps : FullKey(i, r) \in Fulls(R, i) /\ FullKey(i, r).rep = r
           /\ \A k \in Fulls(R, i) : k.rep \in Reps /\ k = FullKey(i, k.rep)
<1>1. PICK j \in DOMAIN R : Instance(j) = i
  BY DEF Instances
<1>2. i = [template |-> j.template, seed |-> j.seed, rung |-> j.rung]
  BY <1>1 DEF Instance
<1>3. ASSUME NEW r \in Reps
      PROVE  FullKey(i, r) \in Fulls(R, i) /\ FullKey(i, r).rep = r
  <2>1. FullKey(i, r) = [template |-> j.template, seed |-> j.seed, rung |-> j.rung,
                         rep |-> r, condition |-> "full"]
    BY <1>2 DEF FullKey, Key
  <2>2. FullKey(i, r) \in DOMAIN R
    BY DEF AllRepetitions
  <2> QED BY <1>2, <2>1, <2>2 DEF Fulls, Keys, Instance
<1>4. ASSUME NEW k \in Fulls(R, i)
      PROVE  k.rep \in Reps /\ k = FullKey(i, k.rep)
  <2>1. k \in DOMAIN R /\ Instance(k) = i /\ k.condition = "full"
    BY DEF Fulls, Keys
  <2>2. PICK t \in DOMAIN Templates, s \in Seeds, g \in Rungs, r \in Reps :
          \E a \in {"full"} \cup DOMAIN Templates[t].ablations : k = Key(t, s, g, r, a)
    BY <2>1 DEF Recorded, IsKey
  <2>3. PICK a : k = [template |-> t, seed |-> s, rung |-> g, rep |-> r, condition |-> a]
    BY <2>2 DEF Key
  <2>4. a = "full" /\ k.rep = r
    BY <2>1, <2>3
  <2>5. i = [template |-> t, seed |-> s, rung |-> g]
    BY <2>1, <2>3 DEF Instance
  <2> QED BY <2>2, <2>3, <2>4, <2>5 DEF FullKey, Key
<1> QED BY <1>3, <1>4

----------------------------------------------------------------------------
(* The metrics of an Instance, out of those of its repetitions *)

\* The runs of a repetition of an Instance.
RunsOf(R, i, r) == {k \in Keys(R, i) : k.rep = r}

\* What the causal score is made of.
Credited == {"hmb", "ims", "hrs"}

\* What is compared in a repetition is what is compared of it in the Instance.
PartOf(B, C, r) ==
    /\ DOMAIN B = {k \in DOMAIN C : k.rep = r}
    /\ \A k \in DOMAIN B : B[k] = C[k]

\* The comparisons within one repetition are those of the Instance that belong to it:
\* a pair is never made across repetitions (index_causal_pairs).
LEMMA ComparedByRepetition ==
    ASSUME NEW R, NEW i, NEW r
    PROVE  PartOf(Comparisons(R, RunsOf(R, i, r)), Comparisons(R, Keys(R, i)), r)
<1> DEFINE K == Keys(R, i)
           L == RunsOf(R, i, r)
<1>1. Pairs(R, L) = {k \in Pairs(R, K) : k.rep = r}
  BY DEF Pairs, RunsOf
<1>2. Comparable(R, L) = {k \in Comparable(R, K) : k.rep = r}
  BY <1>1 DEF Comparable
<1>3. \A J : Comparisons(R, J) =
        [k \in Comparable(R, J) |->
            [with |-> ProbeScore(R, Control(k), PairedProbes(R, k)),
             without |-> ProbeScore(R, k, PairedProbes(R, k))]]
  BY TableIs DEF Comparisons
<1> HIDE DEF K, L
<1>4. /\ DOMAIN Comparisons(R, L) = Comparable(R, L)
      /\ DOMAIN Comparisons(R, K) = Comparable(R, K)
      /\ \A k \in Comparable(R, L) : k \in Comparable(R, K)
  BY <1>2, <1>3, ZenonT(60)
<1>5. \A k \in Comparable(R, L) : Comparisons(R, L)[k] = Comparisons(R, K)[k]
  BY <1>2, <1>3
<1> QED BY <1>2, <1>4, <1>5 DEF K, L, PartOf

\* What an observation of a metric of the causal score depends on.
Observed(c, tau, name) ==
    CASE name = "hmb" -> QDiv(QMax(Zero, Delta(c)), Headroom(c))
      [] name = "ims" -> Tolerant(QAbs(Delta(c)), tau)
      [] name = "hrs" -> Tolerant(QMax(Zero, Delta(c)), tau)
Observable(k, c, name) ==
    CASE name = "hmb" -> Kind(k) \in {"relevant", "no_memory"} /\ QLess(Q(2, 100), Headroom(c))
      [] name = "ims" -> Kind(k) = "irrelevant"
      [] name = "hrs" -> Kind(k) = "harmful"

ObservedIn(C, name) ==
    [k \in {j \in DOMAIN C : Observable(j, C[j], name)} |->
        Observed(C[k], Templates[k.template].tolerance, name)]

\* What a causal metric observes, pair by pair: one value for each pair it applies to
\* (causal_metrics_by_dimension).
LEMMA ObservationsAre ==
    ASSUME NEW R, NEW C, NEW name \in Credited
    PROVE  Observations(R, C, name) = ObservedIn(C, name)
<1> DEFINE O == [k \in {j \in DOMAIN C : Observable(j, C[j], name)} |->
                    Observed(C[k], Templates[k.template].tolerance, name)]
           benefits == Of(C, {"relevant", "no_memory"})
<1> SUFFICES Observations(R, C, name) = O
  BY DEF ObservedIn
<1>1. CASE name = "hmb"
  <2> DEFINE hmb == [k \in {b \in benefits : QLess(Q(2, 100), Headroom(C[b]))} |->
                       QDiv(QMax(Zero, Delta(C[k])), Headroom(C[k]))]
  <2>1. Observations(R, C, name) = hmb
    BY <1>1 DEF Observations
  <2>2. {b \in benefits : QLess(Q(2, 100), Headroom(C[b]))} =
          {j \in DOMAIN C : Observable(j, C[j], name)}
    BY <1>1 DEF Of, Observable
  <2>3. \A c, tau : Observed(c, tau, name) = QDiv(QMax(Zero, Delta(c)), Headroom(c))
    BY <1>1 DEF Observed
  <2>4. O = hmb
    BY <2>2, <2>3
  <2> QED BY <2>1, <2>4
<1>2. CASE name = "ims"
  <2> DEFINE ims == [k \in Of(C, {"irrelevant"}) |->
                       Tolerant(QAbs(Delta(C[k])), Templates[k.template].tolerance)]
  <2>1. Observations(R, C, name) = ims
    BY <1>2 DEF Observations
  <2>2. Of(C, {"irrelevant"}) = {j \in DOMAIN C : Observable(j, C[j], name)}
    BY <1>2 DEF Of, Observable
  <2>3. \A c, tau : Observed(c, tau, name) = Tolerant(QAbs(Delta(c)), tau)
    BY <1>2 DEF Observed
  <2>4. O = ims
    BY <2>2, <2>3
  <2> QED BY <2>1, <2>4
<1>3. CASE name = "hrs"
  <2> DEFINE hrs == [k \in Of(C, {"harmful"}) |->
                       Tolerant(QMax(Zero, Delta(C[k])), Templates[k.template].tolerance)]
  <2>1. Observations(R, C, name) = hrs
    BY <1>3 DEF Observations
  <2>2. Of(C, {"harmful"}) = {j \in DOMAIN C : Observable(j, C[j], name)}
    BY <1>3 DEF Of, Observable
  <2>3. \A c, tau : Observed(c, tau, name) = Tolerant(QMax(Zero, Delta(c)), tau)
    BY <1>3 DEF Observed
  <2>4. O = hrs
    BY <2>2, <2>3
  <2> QED BY <2>1, <2>4
<1> QED BY <1>1, <1>2, <1>3 DEF Credited

\* The observations of a metric of the causal score are fractions.
LEMMA ObservedType ==
    ASSUME NEW R, Recorded(R), NEW K, NEW name \in Credited
    PROVE  LET O == Observations(R, Comparisons(R, K), name)
           IN  /\ DOMAIN O \subseteq DOMAIN Comparisons(R, K)
               /\ O = [k \in DOMAIN O |-> O[k]]
               /\ Summable(O)
<1> DEFINE C == Comparisons(R, K)
           D == {j \in DOMAIN C : Observable(j, C[j], name)}
           O == Observations(R, C, name)
<1>1. O = [k \in D |-> Observed(C[k], Templates[k.template].tolerance, name)]
  <2>1. O = ObservedIn(C, name)
    BY ObservationsAre
  <2> HIDE DEF C, O
  <2> QED BY <2>1 DEF ObservedIn
<1>2. D \subseteq DOMAIN C /\ IsFiniteSet(D)
  BY ComparisonsAreFinite
<1>3. ASSUME NEW k \in D PROVE O[k] \in Rational
  <2> DEFINE tau == Templates[k.template].tolerance
  <2>1. C[k].with \in Rational /\ C[k].without \in Rational
        /\ tau \in Rational /\ QLess(tau, One)
    BY ComparisonType
  <2>2. Delta(C[k]) \in Rational /\ Zero \in Rational /\ Headroom(C[k]) \in Rational
    BY <2>1, Closed, Units DEF Delta, Headroom
  <2>3. QMax(Zero, Delta(C[k])) \in Rational /\ QAbs(Delta(C[k])) \in Rational
    BY <2>2, Closed DEF QAbs
  <2>4. CASE name = "hmb"
    <3>1. QLess(Q(2, 100), Headroom(C[k]))
      BY <2>4 DEF Observable
    <3>2. Headroom(C[k]).num > 0
      BY <2>2, <3>1, HeadroomIsPositive
    <3> QED BY <1>1, <2>2, <2>3, <2>4, <3>2, Closed, SMTT(60) DEF Observed
  <2>5. CASE name \in {"ims", "hrs"}
    <3>1. Tolerant(QAbs(Delta(C[k])), tau) \in Rational
          /\ Tolerant(QMax(Zero, Delta(C[k])), tau) \in Rational
      BY <2>1, <2>3, TolerantType
    <3> QED BY <1>1, <2>5, <3>1 DEF Observed
  <2> QED BY <2>4, <2>5 DEF Credited
<1> HIDE DEF D, C, O
<1>4. DOMAIN O = D /\ O = [k \in DOMAIN O |-> O[k]]
  BY <1>1
<1> QED BY <1>2, <1>3, <1>4 DEF Summable, O, C

\* Those of a repetition are the ones of the Instance that belong to it.
LEMMA ObservedByRepetition ==
    ASSUME NEW R, NEW i, NEW r, NEW name \in Credited
    PROVE  LET O == Observations(R, Comparisons(R, Keys(R, i)), name)
           IN  Observations(R, Comparisons(R, RunsOf(R, i, r)), name) =
                 Only(O, {k \in DOMAIN O : k.rep = r})
<1> DEFINE C == Comparisons(R, Keys(R, i))
           B == Comparisons(R, RunsOf(R, i, r))
           O == Observations(R, C, name)
           T == {k \in DOMAIN O : k.rep = r}
           D == {j \in DOMAIN C : Observable(j, C[j], name)}
           E == {j \in DOMAIN B : Observable(j, B[j], name)}
<1>1. /\ DOMAIN B = {k \in DOMAIN C : k.rep = r}
      /\ \A k \in DOMAIN B : B[k] = C[k]
  <2>1. PartOf(B, C, r)
    BY ComparedByRepetition
  <2> HIDE DEF B, C
  <2> QED BY <2>1 DEF PartOf
<1>2. /\ O = [k \in D |-> Observed(C[k], Templates[k.template].tolerance, name)]
      /\ Observations(R, B, name) = [k \in E |-> Observed(B[k], Templates[k.template].tolerance, name)]
  <2>1. O = ObservedIn(C, name) /\ Observations(R, B, name) = ObservedIn(B, name)
    BY ObservationsAre
  <2> HIDE DEF B, C, O
  <2> QED BY <2>1 DEF ObservedIn
<1> HIDE DEF B, C, O
<1>3. DOMAIN O = D
  BY <1>2
<1>4. E = T
  BY <1>1, <1>3
<1>5. \A k \in E : B[k] = C[k] /\ k \in D
  BY <1>1, <1>3, <1>4
<1>6. [k \in E |-> Observed(B[k], Templates[k.template].tolerance, name)] = [k \in T |-> O[k]]
  BY <1>2, <1>4, <1>5
<1> QED BY <1>2, <1>6 DEF Only, B, C, O

\* Metrics of the causal score: which there are, what they are, and of how many.
LEMMA MetricsAre ==
    ASSUME NEW R, NEW K, NEW name \in Credited
    PROVE  LET O == Observations(R, Comparisons(R, K), name)
           IN  /\ name \in DOMAIN Metrics(R, K) <=> DOMAIN O # {}
               /\ name \in DOMAIN Metrics(R, K) =>
                    Metrics(R, K)[name] = [value |-> Mean(O), n |-> Cardinality(DOMAIN O)]
<1> DEFINE C == Comparisons(R, K)
           observed == [m \in MetricNames |-> Observations(R, C, m)]
<1>1. Metrics(R, K) = MeansOf(observed)
  BY TableIs DEF Metrics, MetricsOf
<1>2. name \in MetricNames /\ observed[name] = Observations(R, C, name)
  BY DEF Credited, MetricNames
<1> HIDE DEF observed
<1>3. MeansOf(observed) =
        [m \in {n \in MetricNames : DOMAIN observed[n] # {}} |->
            [value |-> Mean(observed[m]), n |-> Cardinality(DOMAIN observed[m])]]
  BY TableIs DEF MeansOf
<1> QED BY <1>1, <1>2, <1>3

\* The metrics of the repetitions of an Instance.
PerRepetition(R, i) == [r \in Reps |-> Metrics(R, RunsOf(R, i, r))]

\* Where a metric was observed at all, its value is that of the repetitions, weighted
\* by how many observations each has.
LEMMA PooledValue ==
    ASSUME NEW R, Recorded(R), NEW i, NEW name \in Credited
    PROVE  LET per == PerRepetition(R, i)
               M == Metrics(R, Keys(R, i))
           IN  /\ (\E r \in Reps : name \in DOMAIN per[r]) <=> name \in DOMAIN M
               /\ name \in DOMAIN M => FromRepetitions(per, name) = M[name].value
<1> DEFINE per == PerRepetition(R, i)
           M == Metrics(R, Keys(R, i))
           O == Observations(R, Comparisons(R, Keys(R, i)), name)
           S == DOMAIN O
           c == [k \in S |-> k.rep]
           P(r) == Piece(S, c, r)
           A == {r \in DOMAIN per : name \in DOMAIN per[r]}
<1>1. /\ S \subseteq DOMAIN Comparisons(R, Keys(R, i))
      /\ O = [k \in S |-> O[k]] /\ Summable(O)
  BY ObservedType
<1>2. IsFiniteSet(S) /\ \A k \in S : c[k] = k.rep /\ k.rep \in Reps
  <2>1. ASSUME NEW k \in S PROVE k.rep \in Reps
    <3>1. k \in DOMAIN R
      BY <1>1, ComparisonType
    <3>2. PICK t \in DOMAIN Templates, s \in Seeds, g \in Rungs, r \in Reps :
            \E a \in {"full"} \cup DOMAIN Templates[t].ablations : k = Key(t, s, g, r, a)
      BY <3>1 DEF Recorded, IsKey
    <3> QED BY <3>2 DEF Key
  <2> QED BY <1>1, <2>1 DEF Summable
<1>3. \A r : {k \in S : k.rep = r} = P(r)
  BY DEF Piece
<1>4. DOMAIN per = Reps /\ \A r \in Reps : per[r] = Metrics(R, RunsOf(R, i, r))
  BY DEF PerRepetition
<1>5. ASSUME NEW r \in Reps
      PROVE  /\ name \in DOMAIN per[r] <=> P(r) # {}
             /\ name \in DOMAIN per[r] =>
                  per[r][name] = [value |-> Mean(Only(O, P(r))), n |-> Cardinality(P(r))]
  <2> DEFINE B == Observations(R, Comparisons(R, RunsOf(R, i, r)), name)
  <2>1. B = Only(O, {k \in S : k.rep = r})
    BY ObservedByRepetition
  <2>2. B = Only(O, P(r))
    BY <1>3, <2>1
  <2>3. /\ name \in DOMAIN Metrics(R, RunsOf(R, i, r)) <=> DOMAIN B # {}
        /\ name \in DOMAIN Metrics(R, RunsOf(R, i, r)) =>
             Metrics(R, RunsOf(R, i, r))[name] = [value |-> Mean(B), n |-> Cardinality(DOMAIN B)]
    BY MetricsAre
  <2> HIDE DEF B, O, P, per
  <2>4. DOMAIN B = P(r)
    BY <2>2 DEF Only
  <2> QED BY <1>4, <2>2, <2>3, <2>4
<1>6. /\ name \in DOMAIN M <=> S # {}
      /\ name \in DOMAIN M => M[name].value = Mean(O)
  <2>1. name \in DOMAIN M => M[name] = [value |-> Mean(O), n |-> Cardinality(DOMAIN O)]
    BY MetricsAre
  <2>2. name \in DOMAIN M <=> S # {}
    BY MetricsAre
  <2> HIDE DEF M, O
  <2> QED BY <2>1, <2>2
<1>7. \A r : P(r) \subseteq S /\ \A k \in S : k \in P(k.rep)
  BY <1>2 DEF Piece
<1> HIDE DEF P, per, M, O, c
<1>8. (\E r \in Reps : name \in DOMAIN per[r]) <=> name \in DOMAIN M
  BY <1>2, <1>5, <1>6, <1>7
<1>9. ASSUME name \in DOMAIN M
      PROVE  FromRepetitions(per, name) = M[name].value
  <2>1. S # {}
    BY <1>6, <1>9
  <2>2. A = {r \in Reps : P(r) # {}} /\ \A r \in A : r \in Reps /\ P(r) # {}
    BY <1>4, <1>5
  <2>3. \A k \in S : c[k] \in A
    BY <1>2, <1>7, <2>2
  <2>4. IsFiniteSet(A)
    <3>1. IsFiniteSet({c[k] : k \in S})
      BY <1>2, ImageIsFinite
    <3>2. \A r \in A : \E k \in S : c[k] = r
      <4>1. \A r \in A : \E k \in S : k \in P(r)
        BY <1>7, <2>2
      <4> QED BY <1>2, <4>1 DEF P, Piece
    <3>3. A \subseteq {c[k] : k \in S}
      BY <3>2
    <3> QED BY <3>1, <3>3, FS_Subset
  <2>5. \A r \in A : /\ per[r][name].value = Mean(Only(O, P(r)))
                     /\ per[r][name].n = Cardinality(P(r))
    <3>1. ASSUME NEW r \in A
          PROVE  /\ per[r][name].value = Mean(Only(O, P(r)))
                 /\ per[r][name].n = Cardinality(P(r))
      <4>1. r \in Reps /\ name \in DOMAIN per[r]
        BY <1>4
      <4>2. per[r][name] = [value |-> Mean(Only(O, P(r))), n |-> Cardinality(P(r))]
        BY <1>5, <4>1
      <4> QED BY <4>2
    <3> QED BY <3>1
  <2>6. FromRepetitions(per, name) = WeightedMean([r \in A |-> per[r][name].value],
                                                  [r \in A |-> per[r][name].n])
    BY DEF FromRepetitions
  <2> HIDE DEF A
  <2>7. /\ [r \in A |-> per[r][name].value] = [r \in A |-> Mean(Only(O, P(r)))]
        /\ [r \in A |-> per[r][name].n] = [r \in A |-> Cardinality(P(r))]
    BY <2>5
  <2>8. \A r \in A : Piece(S, c, r) # {}
    BY <2>2 DEF P
  <2>9. WeightedMean([r \in A |-> Mean(Only(O, Piece(S, c, r)))],
                     [r \in A |-> Cardinality(Piece(S, c, r))]) = Mean(O)
    <3>1. Summable(O) /\ O = [k \in S |-> O[k]]
      BY <1>1
    <3> HIDE DEF S
    <3> QED BY <2>1, <2>3, <2>4, <2>8, <3>1, MeanPieces, SMTT(60)
  <2> QED BY <1>6, <1>9, <2>6, <2>7, <2>9 DEF P
<1> QED BY <1>8, <1>9 DEF per, M

\* The causal score of the bootstrap's Instance is the one of the report's row.
LEMMA PooledAgrees ==
    ASSUME NEW R, Recorded(R), NEW i
    PROVE  CausalScore(Pooled(PerRepetition(R, i))) = CausalScore(Metrics(R, Keys(R, i)))
<1> DEFINE per == PerRepetition(R, i)
           M == Metrics(R, Keys(R, i))
<1>1. Pooled(per) = [m \in UNION {DOMAIN per[r] : r \in Reps} |->
                        [value |-> FromRepetitions(per, m), n |-> 1]]
  BY TableIs DEF Pooled
<1>2. ASSUME NEW m \in Credited
      PROVE  /\ (\E r \in Reps : m \in DOMAIN per[r]) <=> m \in DOMAIN M
             /\ m \in DOMAIN M => FromRepetitions(per, m) = M[m].value
  BY PooledValue
<1> HIDE DEF per, M
<1>3. \A m \in Credited : /\ m \in DOMAIN Pooled(per) <=> m \in DOMAIN M
                          /\ m \in DOMAIN Pooled(per) => Pooled(per)[m].value = M[m].value
  BY <1>1, <1>2
<1> QED BY <1>3, CausalScoreOf DEF Credited, per, M

\* The Instance as the bootstrap sees it has the score and the Dimensions of its row.
LEMMA SampledAgrees ==
    ASSUME NEW R, Recorded(R), NEW i \in Instances(R), AllRepetitions(R, i)
    PROVE  /\ SampledInstance(R, i).template = i.template
           /\ SampledInstance(R, i).rung = i.rung
           /\ SampledInstance(R, i).full = InstanceScore(R, i)
           /\ SampledInstance(R, i).dims =
                DimensionScores(R, i.template, Fulls(R, i), Metrics(R, Keys(R, i)))
<1> DEFINE per == PerRepetition(R, i)
           t == i.template
           F == Fulls(R, i)
           M == Metrics(R, Keys(R, i))
           at(r, d) == DimensionScores(R, t, {k \in F : k.rep = r}, per[r])[d]
           plain == [d \in Templates[t].dims \ {Causal} |-> Mean([k \in F |-> TaggedScore(R, k, d)])]
           split == [d \in Templates[t].dims \ {Causal} |-> Mean([r \in Reps |-> at(r, d)])]
<1>1. SampledInstance(R, i) = Sampled(R, i, per)
  BY TableIs DEF SampledInstance, PerRepetition, RunsOf
<1>2. Sampled(R, i, per) = [template |-> t, rung |-> i.rung, full |-> InstanceScore(R, i),
                            dims |-> WithCausal(t, Pooled(per), split)]
  BY DEF Sampled
<1>3. WithCausal(t, Pooled(per), split) = WithCausal(t, M, split)
  BY PooledAgrees DEF WithCausal
<1>4. /\ \A r \in Reps : FullKey(i, r) \in F /\ FullKey(i, r).rep = r
      /\ \A k \in F : k.rep \in Reps /\ k = FullKey(i, k.rep)
  BY FullsAre
<1>5. IsFiniteSet(F) /\ F \subseteq DOMAIN R
  BY FullRuns
<1>6. ASSUME NEW d \in Templates[t].dims \ {Causal}
      PROVE  Mean([r \in Reps |-> at(r, d)]) = Mean([k \in F |-> TaggedScore(R, k, d)])
  <2> DEFINE f == [k \in F |-> TaggedScore(R, k, d)]
             g == [r \in Reps |-> at(r, d)]
             b == [k \in F |-> k.rep]
  <2>1. ASSUME NEW r \in Reps PROVE at(r, d) = TaggedScore(R, FullKey(i, r), d)
    <3> DEFINE y == FullKey(i, r)
    <3>1. {k \in F : k.rep = r} = {y}
      BY <1>4
    <3>2. at(r, d) = Mean([k \in {k \in F : k.rep = r} |-> TaggedScore(R, k, d)])
      <4>1. at(r, d) = PlainOf(R, t, {k \in F : k.rep = r})[d]
        BY PlainScores
      <4> HIDE DEF at, F
      <4> QED BY <4>1 DEF PlainOf
    <3>3. Lowest(TaggedScore(R, y, d))
      BY <1>4, <1>5, ScoresAreLowest
    <3> HIDE DEF y, at
    <3>4. [k \in {k \in F : k.rep = r} |-> TaggedScore(R, k, d)] = [k \in {y} |-> TaggedScore(R, y, d)]
      BY <3>1
    <3> QED BY <3>2, <3>3, <3>4, MeanOfOne DEF y
  <2>2. Summable(f)
    BY <1>5, ScoresAreLowest DEF Summable, Lowest
  <2>3. f = [k \in F |-> f[k]] /\ g = [r \in Reps |-> g[r]]
    OBVIOUS
  <2>4. /\ \A k \in F : b[k] \in Reps
        /\ \A r \in Reps : FullKey(i, r) \in F /\ b[FullKey(i, r)] = r
        /\ \A x, y \in F : b[x] = b[y] => x = y
    BY <1>4
  <2>5. Reps = {b[k] : k \in F}
    <3> HIDE DEF b, F
    <3> QED BY <2>4
  <2>6. ASSUME NEW k \in F PROVE g[b[k]] = f[k]
    <3>1. b[k] = k.rep /\ k.rep \in Reps /\ k = FullKey(i, k.rep)
      BY <1>4
    <3>2. \A r \in Reps : g[r] = at(r, d)
      OBVIOUS
    <3>3. f[k] = TaggedScore(R, k, d)
      OBVIOUS
    <3> HIDE DEF f, g, b, at
    <3> QED BY <2>1, <3>1, <3>2, <3>3
  <2> HIDE DEF f, g, b, F, at
  <2>7. Mean(g) = Mean(f)
    BY <2>2, <2>3, <2>4, <2>5, <2>6, MeanRenamed
  <2> QED BY <2>7 DEF f, g
<1>7. split = plain
  <2> HIDE DEF at, F, t
  <2> QED BY <1>6
<1>8. DimensionScores(R, t, F, M) = WithCausal(t, M, plain)
  <2>1. DimensionScores(R, t, F, M) = WithCausal(t, M, PlainOf(R, t, F))
    BY PlainScores
  <2> QED BY <2>1 DEF PlainOf
<1> HIDE DEF split, plain, M, per, t, F
<1> QED BY <1>1, <1>2, <1>3, <1>7, <1>8 DEF M, t, F

----------------------------------------------------------------------------
(* The Template rows of the report and of the bootstrap *)

\* Template rows depend on the canonical Instances only, and on their scores.
LEMMA SameTemplateRows ==
    ASSUME NEW A, NEW B, Canonical(A) = Canonical(B),
           \A i \in Canonical(A) : /\ A[i].template = B[i].template
                                   /\ A[i].full = B[i].full
                                   /\ A[i].dims = B[i].dims,
           NEW policy
    PROVE  TemplateRows(A, policy) = TemplateRows(B, policy)
<1>1. \A t : OfTemplate(A, t) = OfTemplate(B, t)
  BY DEF OfTemplate
<1>2. ASSUME NEW t PROVE TemplateRow(A, t) = TemplateRow(B, t)
  <2> DEFINE T == OfTemplate(A, t)
             dims(C) == UNION {DOMAIN C[i].dims : i \in OfTemplate(C, t)}
             with(C, d) == {i \in OfTemplate(C, t) : d \in DOMAIN C[i].dims}
             scores(C, d) == [i \in with(C, d) |-> C[i].dims[d]]
  <2>1. \A C : TemplateRow(C, t) =
          [full |-> Mean([i \in OfTemplate(C, t) |-> C[i].full]),
           dims |-> [d \in dims(C) |-> Mean(scores(C, d))]]
    BY TableIs DEF TemplateRow
  <2>2. \A i \in T : i \in Canonical(A)
    BY DEF OfTemplate
  <2>3. [i \in OfTemplate(A, t) |-> A[i].full] = [i \in OfTemplate(B, t) |-> B[i].full]
    BY <1>1, <2>2
  <2>4. dims(A) = dims(B)
    BY <1>1, <2>2
  <2>5. ASSUME NEW d PROVE scores(A, d) = scores(B, d)
    <3>1. with(A, d) = with(B, d) /\ \A i \in with(A, d) : A[i].dims = B[i].dims
      BY <1>1, <2>2
    <3> HIDE DEF with
    <3> QED BY <3>1
  <2> HIDE DEF dims, scores
  <2>6. [d \in dims(A) |-> Mean(scores(A, d))] = [d \in dims(B) |-> Mean(scores(B, d))]
    BY <2>4, <2>5
  <2>7. /\ TemplateRow(A, t) = [full |-> Mean([i \in OfTemplate(A, t) |-> A[i].full]),
                                dims |-> [d \in dims(A) |-> Mean(scores(A, d))]]
        /\ TemplateRow(B, t) = [full |-> Mean([i \in OfTemplate(B, t) |-> B[i].full]),
                                dims |-> [d \in dims(B) |-> Mean(scores(B, d))]]
    BY <2>1
  <2> QED BY <2>3, <2>6, <2>7
<1>3. \A C : TemplateRows(C, policy) =
               [t \in {u \in DOMAIN policy : OfTemplate(C, u) # {}} |-> TemplateRow(C, t)]
  BY TableIs DEF TemplateRows
<1> QED BY <1>1, <1>2, <1>3, ZenonT(60)

\* The canonical Instances as the bootstrap sees them.
SampledRows(R) ==
    [i \in {j \in Instances(R) : j.rung = Profile.canonical} |-> SampledInstance(R, i)]

\* Both have the same canonical rows.
LEMMA SampledTemplateRows ==
    ASSUME NEW R, Recorded(R), NEW policy,
           \A i \in Instances(R) : i.rung = Profile.canonical => AllRepetitions(R, i)
    PROVE  TemplateRows(SampledRows(R), policy) = TemplateRows(InstanceRows(R), policy)
<1> DEFINE A == SampledRows(R)
           B == InstanceRows(R)
           I == {j \in Instances(R) : j.rung = Profile.canonical}
<1>1. B = [i \in Instances(R) |-> InstanceRow(R, i, Metrics(R, Keys(R, i)))]
  BY TableIs DEF InstanceRows
<1>2. DOMAIN A = I /\ \A i \in I : A[i] = SampledInstance(R, i)
  BY DEF SampledRows
<1>3. \A i \in I : /\ A[i].template = i.template /\ A[i].rung = i.rung
                   /\ A[i].full = InstanceScore(R, i)
                   /\ A[i].dims = DimensionScores(R, i.template, Fulls(R, i), Metrics(R, Keys(R, i)))
  BY <1>2, SampledAgrees
<1>4. DOMAIN B = Instances(R)
      /\ \A i \in Instances(R) :
            /\ B[i].template = i.template /\ B[i].rung = i.rung
            /\ B[i].full = InstanceScore(R, i)
            /\ B[i].dims = DimensionScores(R, i.template, Fulls(R, i), Metrics(R, Keys(R, i)))
  BY <1>1 DEF InstanceRow
<1> HIDE DEF A, B
<1>5. Canonical(A) = I /\ Canonical(B) = I
  BY <1>2, <1>3, <1>4 DEF Canonical
<1>6. \A i \in I : A[i].template = B[i].template /\ A[i].full = B[i].full /\ A[i].dims = B[i].dims
  BY <1>3, <1>4
<1> HIDE DEF I
<1> QED BY <1>5, <1>6, SameTemplateRows DEF A, B

----------------------------------------------------------------------------
(* Coverage *)

\* A part of the terms has no greater sum than all of them, where none is negative.
LEMMA WeightOfPart ==
    ASSUME NEW S, IsFiniteSet(S), NEW w, \A x \in S : w[x] \in Nat, NEW T \in SUBSET S
    PROVE  /\ Weight([x \in T |-> w[x]]) \in Nat /\ Weight([x \in S |-> w[x]]) \in Nat
           /\ Weight([x \in T |-> w[x]]) <= Weight([x \in S |-> w[x]])
           /\ T = {} => Weight([x \in T |-> w[x]]) = 0
<1> DEFINE W == [U \in SUBSET S |-> Weight([x \in U |-> w[x]])]
           f == [x \in S |-> Q(w[x], 1)]
           N == {U \in SUBSET S : W[U \cap T] <= W[U]}
<1>1. ASSUME NEW U \in SUBSET S
      PROVE  W[U] \in Nat /\ QSum(Only(f, U)) = Q(W[U], 1)
  <2> DEFINE v == [x \in U |-> w[x]]
  <2>1. IsFiniteSet(U)
    BY FS_Subset
  <2>2. DOMAIN v = U /\ \A x \in U : v[x] = w[x] /\ v[x] \in Nat
    OBVIOUS
  <2>3. Only(f, U) = [x \in U |-> Q(v[x], 1)]
    BY <2>2 DEF Only
  <2> HIDE DEF v, f
  <2>4. QSum([x \in DOMAIN v |-> Q(v[x], 1)]) = Q(Weight(v), 1) /\ Weight(v) \in Nat
    BY <2>1, <2>2, WeightIsSum, WeightType
  <2> QED BY <2>2, <2>3, <2>4 DEF v
<1>2. Summable(f) /\ DOMAIN f = S
  BY WholeNumber DEF Summable
<1>3. \A x \in S : f[x] = Q(w[x], 1)
  OBVIOUS
<1> HIDE DEF W, f
<1>4. W[{}] = 0
  <2>1. Q(W[{}], 1) = Q(0, 1)
    <3>1. QSum(Only(f, {})) = Zero
      BY <1>2, SumTakes
    <3>2. Q(0, 1) = Zero
      BY QZero
    <3>3. QSum(Only(f, {})) = Q(W[{}], 1)
      BY <1>1
    <3> QED BY <3>1, <3>2, <3>3
  <2>2. W[{}] \in Int /\ 0 \in Int
    BY <1>1
  <2>3. \A n, m \in Int : Q(n, 1) = Q(m, 1) => n = m
    BY WholeNumbers
  <2> QED BY <2>1, <2>2, <2>3, Zenon
<1>5. ASSUME NEW U \in SUBSET S, NEW x \in S \ U
      PROVE  W[U \cup {x}] = w[x] + W[U]
  <2>1. QSum(Only(f, U \cup {x})) = QAdd(f[x], QSum(Only(f, U)))
    BY <1>2, SumTakes
  <2>2. W[U] \in Nat /\ W[U \cup {x}] \in Nat /\ w[x] \in Nat
    BY <1>1
  <2>3. Q(W[U \cup {x}], 1) = QAdd(Q(w[x], 1), Q(W[U], 1))
    BY <1>1, <1>3, <2>1
  <2>4. QAdd(Q(w[x], 1), Q(W[U], 1)) = Q(w[x] + W[U], 1)
    <3>1. \A n, m \in Nat : QAdd(Q(n, 1), Q(m, 1)) = Q(n + m, 1)
      BY WholeNumbers
    <3> QED BY <2>2, <3>1, Zenon
  <2>5. w[x] + W[U] \in Int /\ W[U \cup {x}] \in Int
    BY <2>2
  <2>6. \A n, m \in Int : Q(n, 1) = Q(m, 1) => n = m
    BY WholeNumbers
  <2> QED BY <2>3, <2>4, <2>5, <2>6, Zenon
<1>6. \A U \in SUBSET S : U \in N
  <2>1. {} \in N
    BY <1>4
  <2>2. ASSUME NEW U \in SUBSET S, NEW x \in S \ U, U \in N
        PROVE  U \cup {x} \in N
    <3>1. W[U \cap T] <= W[U] /\ W[U] \in Nat /\ W[U \cap T] \in Nat /\ w[x] \in Nat
      BY <1>1, <2>2
    <3>2. W[U \cup {x}] = w[x] + W[U]
      BY <1>5
    <3>3. CASE x \in T
      <4>1. (U \cup {x}) \cap T = (U \cap T) \cup {x}
        BY <3>3
      <4>2. W[(U \cap T) \cup {x}] = w[x] + W[U \cap T]
        BY <1>5
      <4>3. W[(U \cup {x}) \cap T] = w[x] + W[U \cap T]
        BY <4>1, <4>2, Zenon
      <4>4. \A a, b, c \in Nat : a <= b => c + a <= c + b
        OBVIOUS
      <4>5. w[x] + W[U \cap T] <= w[x] + W[U]
        BY <3>1, <4>4, Zenon
      <4>6. W[(U \cup {x}) \cap T] <= W[U \cup {x}]
        BY <3>2, <4>3, <4>5, Zenon
      <4> QED BY <4>6
    <3>4. CASE x \notin T
      <4>1. (U \cup {x}) \cap T = U \cap T
        BY <3>4
      <4>2. \A a, b, c \in Nat : a <= b => a <= c + b
        OBVIOUS
      <4>3. W[U \cap T] <= w[x] + W[U]
        BY <3>1, <4>2, Zenon
      <4> QED BY <3>2, <4>1, <4>3, Zenon
    <3> QED BY <3>3, <3>4
  <2> HIDE DEF N
  <2> QED BY <2>1, <2>2, ElementInduction
<1>7. W[S \cap T] <= W[S] /\ S \cap T = T
  BY <1>6
<1> QED BY <1>1, <1>4, <1>7 DEF W

\* One times a fraction in lowest terms.
LEMMA OneTimes ==
    ASSUME NEW n \in Nat
    PROVE  QMul(One, Q(n, 1)) = Q(n, 1)
<1>1. IsValue(One, 1, 1) /\ IsValue(Q(n, 1), n, 1)
  BY Units, QIs DEF IsValue, One
<1>2. QMul(One, Q(n, 1)) = Q(1 * n, 1 * 1)
  BY <1>1, MulIs
<1>3. 1 * n = n /\ 1 * 1 = 1
  OBVIOUS
<1> QED BY <1>2, <1>3

\* The whole of the weights, and a sum of less than all but one of them.
LEMMA LessThanOne ==
    ASSUME NEW x \in Rational, NEW m \in Nat, NEW w \in Nat \ {0}, QLeq(x, Q(m, 1))
    PROVE  QDiv(QAdd(Zero, x), Q(w + m, 1)) # One
<1>1. PICK a \in Int, b \in Nat \ {0} : x.num = a /\ x.den = b /\ IsValue(x, a, b)
  BY Parts
<1>2. IsValue(Q(m, 1), m, 1)
  BY QIs
<1>3. PICK c \in Int, d \in Nat \ {0} : Q(m, 1).num = c /\ Q(m, 1).den = d /\ c = m * d
  <2>1. Q(m, 1) \in Rational /\ Q(m, 1).num * 1 = m * Q(m, 1).den
    BY <1>2 DEF IsValue
  <2>2. Q(m, 1).num \in Int /\ Q(m, 1).den \in Nat \ {0}
    BY <2>1 DEF Rational
  <2>3. \A z \in Int : z * 1 = z
    OBVIOUS
  <2> QED BY <2>1, <2>2, <2>3
<1>4. a <= m * b
  <2>1. a * d <= c * b
    BY <1>1, <1>3 DEF QLeq
  <2>2. c * b = (m * b) * d
    <3>1. \A p, q, r \in Nat : (p * q) * r = (p * r) * q
      OBVIOUS
    <3> QED BY <1>3, <3>1
  <2>3. m * b \in Int
    BY Products
  <2> QED BY <2>1, <2>2, <2>3, ScaleDown
<1>5. QAdd(Zero, x) = Q(a, b)
  <2>1. IsValue(Zero, 0, 1)
    BY Units DEF IsValue, Zero
  <2>2. QAdd(Zero, x) = Q(0 * b + a * 1, 1 * b)
    BY <1>1, <2>1, AddIs
  <2>3. 0 * b + a * 1 = a /\ 1 * b = b
    OBVIOUS
  <2> QED BY <2>2, <2>3
<1>6. QDiv(Q(a, b), Q(w + m, 1)) = Q(a * 1, b * (w + m))
  <2>1. w + m \in Nat \ {0}
    OBVIOUS
  <2> QED BY <2>1, QIs, DivIs
<1>7. ASSUME Q(a * 1, b * (w + m)) = One PROVE FALSE
  <2> DEFINE e == b * (w + m)
  <2>1. e \in Nat \ {0} /\ a * 1 = a
    BY Products
  <2>2. IsValue(One, a, e)
    BY <1>7, <2>1, QIs
  <2>3. One.num * e = a * One.den
    BY <2>2 DEF IsValue
  <2>4. One.num = 1 /\ One.den = 1
    BY DEF One
  <2> HIDE DEF e
  <2>5. e = a
    BY <2>1, <2>3, <2>4
  <2>6. e = b * w + m * b
    BY Products DEF e
  <2>7. b * w \in Nat \ {0} /\ m * b \in Nat
    BY Products
  <2> HIDE DEF e
  <2>8. \A p \in Nat \ {0}, q \in Nat : ~(p + q <= q)
    OBVIOUS
  <2> QED BY <1>4, <2>5, <2>6, <2>7, <2>8
<1> QED BY <1>5, <1>6, <1>7

\* A weighted mean of values at most one is one only if no weighted value is zero.
LEMMA NoGapInOne ==
    ASSUME NEW f, NEW w, IsFiniteSet(DOMAIN w), DOMAIN f = DOMAIN w,
           \A x \in DOMAIN w : w[x] \in Nat /\ f[x] \in Rational /\ QLeq(f[x], One),
           NEW y \in DOMAIN w, w[y] > 0, f[y] = Zero
    PROVE  WeightedMean(f, w) # One
<1> DEFINE D == DOMAIN w
           E == D \ {y}
           terms == [s \in DOMAIN f |-> QMul(f[s], Q(w[s], 1))]
           whole == [s \in D |-> Q(w[s], 1)]
           rest == [s \in E |-> w[s]]
           m == Weight(rest)
<1>1. \A s \in D : /\ Q(w[s], 1) \in Rational /\ Q(w[s], 1).num >= 0
                   /\ QMul(f[s], Q(w[s], 1)) \in Rational
  BY WholeNumber, Closed
<1>2. Summable(terms) /\ Summable(whole)
  BY <1>1 DEF Summable
<1>3. \A s \in D : QLeq(terms[s], whole[s])
  <2>1. ASSUME NEW s \in D PROVE QLeq(QMul(f[s], Q(w[s], 1)), Q(w[s], 1))
    <3>1. QLeq(QMul(f[s], Q(w[s], 1)), QMul(One, Q(w[s], 1)))
      BY <1>1, Units, MulMono
    <3> QED BY <3>1, OneTimes
  <2> QED BY <2>1
<1>4. /\ DOMAIN terms = D /\ DOMAIN whole = D
      /\ E \in SUBSET D /\ y \in D \ E /\ E \cup {y} = D
      /\ terms[y] = QMul(f[y], Q(w[y], 1))
      /\ terms = [s \in DOMAIN terms |-> terms[s]]
      /\ \A s \in E : whole[s] = Q(w[s], 1)
  OBVIOUS
<1>5. WeightedMean(f, w) = QDiv(QSum(terms), Q(Weight(w), 1))
  BY DEF WeightedMean
<1>6. IsFiniteSet(E)
  BY FS_Subset
<1>7. m \in Nat /\ QSum(Only(whole, E)) = Q(m, 1)
  <2>1. DOMAIN rest = E /\ \A s \in E : rest[s] = w[s] /\ rest[s] \in Nat
    OBVIOUS
  <2>2. Only(whole, E) = [s \in DOMAIN rest |-> Q(rest[s], 1)]
    BY <1>4, <2>1 DEF Only
  <2> HIDE DEF rest, whole
  <2> QED BY <1>6, <2>1, <2>2, WeightIsSum, WeightType
<1> HIDE DEF E, terms, whole, rest, m
<1>8. QSum(terms) = QAdd(Zero, QSum(Only(terms, E))) /\ QSum(Only(terms, E)) \in Rational
  <2>1. QSum(Only(terms, E \cup {y})) = QAdd(terms[y], QSum(Only(terms, E)))
    BY <1>2, <1>4, SumTakes
  <2>2. QSum(Only(terms, E)) \in Rational
    BY <1>2, <1>4, SumTakes
  <2>3. terms[y] = Zero
    BY <1>1, <1>4, OfNothing
  <2> QED BY <1>4, <2>1, <2>2, <2>3, SumWhole
<1>9. QLeq(QSum(Only(terms, E)), Q(m, 1))
  <2> DEFINE a == Only(terms, E)
             b == Only(whole, E)
  <2>1. DOMAIN a = E /\ DOMAIN b = E /\ \A s \in E : a[s] = terms[s] /\ b[s] = whole[s]
    BY DEF Only
  <2>2. \A s \in E : a[s] \in Rational /\ b[s] \in Rational /\ QLeq(a[s], b[s])
    BY <1>2, <1>3, <1>4, <2>1 DEF Summable
  <2> HIDE DEF a, b
  <2>3. QLeq(QSum(a), QSum(b))
    BY <1>6, <2>1, <2>2, SumMono
  <2> QED BY <1>7, <2>3 DEF a, b
<1>10. Weight(w) = w[y] + m
  <2>1. QSum(whole) = Q(Weight(w), 1) /\ Weight(w) \in Nat
    BY WeightIsSum, WeightType DEF whole
  <2>2. QSum(Only(whole, E \cup {y})) = QAdd(whole[y], QSum(Only(whole, E)))
    BY <1>2, <1>4, SumTakes
  <2>3. Only(whole, D) = whole /\ whole[y] = Q(w[y], 1)
    BY DEF Only, whole
  <2>4. Q(Weight(w), 1) = QAdd(Q(w[y], 1), Q(m, 1))
    BY <1>4, <1>7, <2>1, <2>2, <2>3
  <2>5. QAdd(Q(w[y], 1), Q(m, 1)) = Q(w[y] + m, 1)
    BY <1>7, WholeNumbers
  <2>6. \A p, q \in Int : Q(p, 1) = Q(q, 1) => p = q
    BY WholeNumbers
  <2>7. Weight(w) \in Int /\ w[y] + m \in Int
    BY <1>7, <2>1
  <2> QED BY <2>4, <2>5, <2>6, <2>7, Zenon
<1>11. w[y] \in Nat \ {0}
  OBVIOUS
<1> QED BY <1>5, <1>7, <1>8, <1>9, <1>10, <1>11, LessThanOne

\* The Templates that give a Dimension its score.
Rated(templates, policy, d) ==
    {t \in DOMAIN templates : policy[t][d] > 0 /\ d \in DOMAIN templates[t].dims}

\* A Dimension is covered at most in full, and not at all where no Template rates it.
LEMMA CoverageIs ==
    ASSUME NEW policy, IsFiniteSet(DOMAIN policy), NEW d,
           \A t \in DOMAIN policy : policy[t][d] \in Nat,
           NEW templates, DOMAIN templates \subseteq DOMAIN policy
    PROVE  LET coverage == DimensionRow(templates, policy, d).coverage
           IN  /\ coverage \in Rational /\ QLeq(coverage, One)
               /\ Rated(templates, policy, d) = {} => coverage = Zero
<1> DEFINE S == Required(templates, policy, d)
           T == Rated(templates, policy, d)
           w == [t \in S |-> policy[t][d]]
           all == Weight([t \in S |-> w[t]])
           part == Weight([t \in T |-> w[t]])
           coverage == IF all = 0 THEN Zero ELSE Q(part, all)
<1>1. S \in SUBSET DOMAIN policy /\ IsFiniteSet(S)
  BY FS_Subset DEF Required
<1>2. T \in SUBSET S
  BY DEF Required, Rated
<1>3. \A t \in S : w[t] \in Nat /\ w[t] = policy[t][d]
  BY <1>1
<1>4. DimensionRow(templates, policy, d).coverage = coverage
  <2>1. [t \in S |-> policy[t][d]] = [t \in S |-> w[t]]
        /\ [t \in T |-> policy[t][d]] = [t \in T |-> w[t]]
    BY <1>2
  <2> DEFINE weights(ts) == [t \in ts |-> policy[t][d]]
  <2>2. DimensionRow(templates, policy, d).coverage =
          IF Weight(weights(S)) = 0 THEN Zero ELSE Q(Weight(weights(T)), Weight(weights(S)))
    BY DEF DimensionRow, Rated
  <2> HIDE DEF S, T, w
  <2> QED BY <2>1, <2>2
<1> HIDE DEF w, S, T
<1>5. all \in Nat /\ part \in Nat /\ part <= all /\ (T = {} => part = 0)
  BY <1>1, <1>2, <1>3, WeightOfPart
<1> HIDE DEF all, part
<1>6. CASE all = 0
  <2>1. coverage = Zero
    BY <1>6
  <2>2. Zero \in Rational /\ QLeq(Zero, One)
    BY Units DEF QLeq, Zero, One
  <2> QED BY <1>4, <2>1, <2>2 DEF T
<1>7. CASE all # 0
  <2>1. coverage = Q(part, all) /\ all \in Nat \ {0}
    BY <1>5, <1>7
  <2>2. IsValue(Q(part, all), part, all) /\ IsValue(One, 1, 1)
    BY <1>5, <2>1, QIs, Units DEF IsValue, One
  <2>3. part * 1 <= 1 * all /\ part \in Int /\ 1 \in Int /\ 1 \in Nat \ {0}
    BY <1>5
  <2>4. QLeq(Q(part, all), One)
    BY <2>1, <2>2, <2>3, ValueLeq, Zenon
  <2>5. T = {} => Q(part, all) = Zero
    BY <1>5, <2>1, QZero
  <2>6. Q(part, all) \in Rational
    BY <2>2 DEF IsValue
  <2> HIDE DEF coverage
  <2>7. coverage \in Rational /\ QLeq(coverage, One) /\ (T = {} => coverage = Zero)
    BY <2>1, <2>4, <2>5, <2>6
  <2> QED BY <1>4, <2>7 DEF T
<1> QED BY <1>6, <1>7

\* Where the coverage is full, every weighted Dimension has a Template that rates it.
LEMMA FullCoverage ==
    ASSUME NEW templates, DOMAIN templates \subseteq DOMAIN Policy,
           WeightedMean([d \in DOMAIN Profile.dims |-> DimensionRow(templates, Policy, d).coverage],
                        Profile.dims) = One,
           NEW d \in DOMAIN Profile.dims, Profile.dims[d] > 0
    PROVE  Rated(templates, Policy, d) # {}
<1> DEFINE f == [e \in DOMAIN Profile.dims |-> DimensionRow(templates, Policy, e).coverage]
<1>1. DOMAIN Policy = DOMAIN Templates /\ \A t \in DOMAIN Templates : Policy[t] = Templates[t].weights
  BY DEF Policy
<1>2. IsFiniteSet(DOMAIN Policy) /\ IsFiniteSet(DOMAIN Profile.dims)
      /\ \A e \in DOMAIN Profile.dims :
           Profile.dims[e] \in Nat /\ \A t \in DOMAIN Policy : Policy[t][e] \in Nat
  BY <1>1, PackAssumption
<1>3. \A e \in DOMAIN Profile.dims :
        /\ f[e] \in Rational /\ QLeq(f[e], One)
        /\ Rated(templates, Policy, e) = {} => f[e] = Zero
  <2>1. ASSUME NEW e \in DOMAIN Profile.dims
        PROVE  LET coverage == DimensionRow(templates, Policy, e).coverage
               IN  /\ coverage \in Rational /\ QLeq(coverage, One)
                   /\ Rated(templates, Policy, e) = {} => coverage = Zero
    BY <1>2, CoverageIs
  <2> QED BY <2>1
<1>4. DOMAIN f = DOMAIN Profile.dims /\ WeightedMean(f, Profile.dims) = One
  OBVIOUS
<1> HIDE DEF f
<1> QED BY <1>2, <1>3, <1>4, NoGapInOne

----------------------------------------------------------------------------
(* The report of the runs, and the verifier *)

\* The runs are those that are no longer planned, and a report, until it is edited,
\* is the one of the runs.
ReportInv ==
    /\ plan \subseteq Plan(cfg) /\ DOMAIN runs = Plan(cfg) \ plan
    /\ runs # <<>> => runs = [k \in DOMAIN runs |-> runs[k]]
    /\ Written => plan = {} /\ runs # <<>> /\ report = ReportOf(runs)

\* Nothing is run and nothing is reported at first.
LEMMA InitReport == Init => ReportInv
BY DEF Init, ReportInv, Written

\* A run takes its key from the plan, a report is assembled when the plan is empty,
\* and what is edited is no longer the report as it was written.
LEMMA StepReport == ReportInv /\ PackInv /\ [Next]_vars => ReportInv'
<1> SUFFICES ASSUME ReportInv, PackInv, [Next]_vars PROVE ReportInv'
  OBVIOUS
<1>0. ASSUME UNCHANGED <<cfg, plan, runs>>
      PROVE  /\ plan' \subseteq Plan(cfg)' /\ DOMAIN runs' = Plan(cfg)' \ plan'
             /\ runs' # <<>> => runs' = [k \in DOMAIN runs' |-> runs'[k]]
  <2>1. cfg' = cfg /\ plan' = plan /\ runs' = runs
    BY <1>0
  <2>2. Plan(cfg)' = Plan(cfg)
    BY <2>1
  <2>3. /\ plan \subseteq Plan(cfg) /\ DOMAIN runs = Plan(cfg) \ plan
        /\ runs # <<>> => runs = [k \in DOMAIN runs |-> runs[k]]
    BY DEF ReportInv
  <2> HIDE DEF Plan
  <2> QED BY <2>1, <2>2, <2>3
<1>1. CASE Run
  <2> DEFINE k == CHOOSE key \in plan : TRUE
  <2>1. /\ k \in plan /\ plan' = plan \ {k} /\ cfg' = cfg
        /\ report = NoReport /\ report' = report
    BY <1>1 DEF Run, PackInv
  <2>2. PICK artifact \in Artifacts(k) : runs' = Put(runs, k, artifact)
    BY <1>1 DEF Run
  <2> HIDE DEF k
  <2>3. DOMAIN runs' = DOMAIN runs \cup {k} /\ runs' = [j \in DOMAIN runs' |-> runs'[j]]
    BY <2>2 DEF Put
  <2>4. plan' \subseteq Plan(cfg') /\ DOMAIN runs' = Plan(cfg') \ plan'
    <3>1. Plan(cfg') = Plan(cfg)
      BY <2>1
    <3>2. k \in Plan(cfg) /\ plan \subseteq Plan(cfg) /\ DOMAIN runs = Plan(cfg) \ plan
      BY <2>1 DEF ReportInv
    <3> HIDE DEF Plan
    <3> QED BY <2>1, <2>3, <3>1, <3>2
  <2>5. ~Written'
    BY <2>1 DEF Written
  <2> QED BY <2>3, <2>4, <2>5 DEF ReportInv
<1>2. CASE Report
  <2>1. report' = ReportOf(runs) /\ plan = {} /\ runs # <<>>
        /\ UNCHANGED <<cfg, plan, runs, edited>>
    BY <1>2 DEF Report
  <2>2. ReportOf(runs)' = ReportOf(runs)
    <3>1. cfg' = cfg /\ runs' = runs
      BY <2>1
    <3> QED BY <3>1 DEF ReportOf, ReportOn, Assembled
  <2> QED BY <2>1, <2>2 DEF ReportInv
<1>3. CASE Publish \/ UNCHANGED vars
  <2>1. UNCHANGED <<cfg, plan, runs, report, edited>>
    BY <1>3 DEF Publish, vars
  <2>2. Written' => Written
    BY <2>1 DEF Written
  <2>3. ReportOf(runs)' = ReportOf(runs)
    <3>1. cfg' = cfg /\ runs' = runs
      BY <2>1
    <3> QED BY <3>1 DEF ReportOf, ReportOn, Assembled
  <2>4. UNCHANGED <<cfg, plan, runs>>
    BY <2>1
  <2>5. Written' => plan' = {} /\ runs' # <<>> /\ report' = ReportOf(runs)'
    BY <2>1, <2>2, <2>3 DEF ReportInv
  <2> QED BY <1>0, <2>4, <2>5 DEF ReportInv
<1>4. CASE Edit
  <2>1. UNCHANGED <<cfg, plan, runs>> /\ edited' \in {"report", "public"}
    BY <1>4 DEF Edit
  <2>2. ~Written'
    BY <2>1, PackAssumption DEF Written
  <2>3. UNCHANGED <<cfg, plan, runs>>
    BY <2>1
  <2> QED BY <1>0, <2>2, <2>3 DEF ReportInv
<1> QED BY <1>1, <1>2, <1>3, <1>4 DEF Next

\* Of every Instance that was run, all repetitions were.
LEMMA PlanIsWhole ==
    ASSUME NEW R, DOMAIN R = Plan(cfg), NEW i \in Instances(R)
    PROVE  AllRepetitions(R, i)
<1> DEFINE Able == {u \in DOMAIN Templates : Templates[u].needs \subseteq cfg.capable}
           Us == {{Key(t, s, g, r, a) : a \in {"full"} \cup Interventions(cfg, t, g)} :
                    t \in {u \in DOMAIN Templates : Templates[u].needs \subseteq cfg.capable},
                    s \in Seeds, g \in Rungs, r \in Reps}
<1>0. Plan(cfg) = UNION Us
  BY DEF Plan
<1>1. PICK k \in Plan(cfg) : Instance(k) = i
  BY DEF Instances
<1>2. PICK u \in Able, v \in Seeds, h \in Rungs, p \in Reps :
        k \in {Key(u, v, h, p, c) : c \in {"full"} \cup Interventions(cfg, u, h)}
  BY DEF Plan
<1>3. PICK c : k = [template |-> u, seed |-> v, rung |-> h, rep |-> p, condition |-> c]
  BY <1>2 DEF Key
<1>4. i.template = u /\ i.seed = v /\ i.rung = h
  BY <1>1, <1>3 DEF Instance
<1>5. ASSUME NEW q \in Reps PROVE FullKey(i, q) \in DOMAIN R
  <2> DEFINE C == {"full"} \cup Interventions(cfg, u, h)
             X == {Key(u, v, h, q, d) : d \in C}
  <2>1. FullKey(i, q) = Key(u, v, h, q, "full")
    BY <1>4 DEF FullKey
  <2>2. FullKey(i, q) \in X
    BY <2>1
  <2>3. X \in Us
    BY <1>2
  <2> HIDE DEF C, X, Us, Plan
  <2> QED BY <1>0, <2>2, <2>3
<1> QED BY <1>5 DEF AllRepetitions

\* The bootstrap's point estimate is the report's score.
LEMMA EstimateAgrees ==
    ASSUME PackInv, ReportInv, Written, report.derived.coverage = One
    PROVE  LET stats == Statistics(runs, Policy)
           IN  /\ stats.score = report.derived.score
               /\ \A d \in DOMAIN stats.dims : stats.dims[d] = report.derived.dims[d].score
<1> DEFINE rows == InstanceRows(runs)
           templates == TemplateRows(rows, Policy)
           dims == DimensionRows(templates, Policy)
           derived == Derived(rows, Policy, cfg.official, FailureRate(runs))
           stats == Statistics(runs, Policy)
           weighted == {d \in DOMAIN Profile.dims : Profile.dims[d] > 0}
<1>1. report.derived = derived /\ DOMAIN runs = Plan(cfg) /\ Recorded(runs)
  BY DEF PackInv, ReportInv, ReportOf, ReportOn, Assembled
<1>2. /\ derived.score = ProfileScore(dims) /\ derived.dims = dims
      /\ derived.coverage =
           WeightedMean([d \in DOMAIN Profile.dims |-> dims[d].coverage], Profile.dims)
  BY DEF Derived
<1>3. TemplateRows(SampledRows(runs), Policy) = templates
  BY <1>1, PlanIsWhole, SampledTemplateRows
<1>4. stats = Estimate(SampledRows(runs), Policy)
  BY TableIs DEF Statistics, SampledRows
<1>5. /\ stats.score = IF \A d \in weighted : Rated(templates, Policy, d) # {}
                       THEN ProfileScore(dims) ELSE Zero
      /\ \A d \in DOMAIN stats.dims : stats.dims[d] = dims[d].score
  <2> HIDE DEF templates, rows, stats
  <2>1. stats = Estimate(SampledRows(runs), Policy)
    BY <1>4
  <2> QED BY <1>3, <2>1 DEF Estimate, Rated
<1>6. DOMAIN templates \subseteq DOMAIN Policy
  BY TableIs DEF TemplateRows
<1>7. dims = [d \in DOMAIN Profile.dims |-> DimensionRow(templates, Policy, d)]
  BY TableIs DEF DimensionRows
<1> HIDE DEF derived, templates, stats, dims
<1>8. [d \in DOMAIN Profile.dims |-> dims[d].coverage] =
        [d \in DOMAIN Profile.dims |-> DimensionRow(templates, Policy, d).coverage]
  BY <1>7
<1>9. \A d \in weighted : Rated(templates, Policy, d) # {}
  BY <1>1, <1>2, <1>6, <1>8, FullCoverage
<1> QED BY <1>1, <1>2, <1>5, <1>9 DEF stats

\* In every reachable state the runs are those the plan no longer holds, and the
\* report, until it is edited, is the one build_pack_report makes of them.
THEOREM ReportInvariant == Spec => [](PackInv /\ ReportInv)
<1>1. Init => ReportInv
  BY InitReport
<1>2. ReportInv /\ PackInv /\ [Next]_vars => ReportInv'
  BY StepReport
<1>3. Spec => []PackInv
  BY PackReportInvariant
<1> QED BY <1>1, <1>2, <1>3, PTL DEF Spec

\* The bootstrap's point estimate, out of the repetitions of every Instance, is the
\* report's score and its Dimensions' (hierarchical_bootstrap, template_stats and
\* build_pack_report take different ways through the runs).
THEOREM PathsAgreeHolds == Spec => []PathsAgree
<1>1. PackInv /\ ReportInv => PathsAgree
  BY EstimateAgrees DEF PathsAgree
<1> QED BY <1>1, ReportInvariant, PTL

\* The verifier accepts the report as it is written.
LEMMA ReportIsAccepted ==
    ASSUME PackInv, ReportInv, Written, ~cfg.bootstrap \/ report.derived.coverage = One
    PROVE  Verify(report)
<1> DEFINE rows == InstanceRows(runs)
           derived == Derived(rows, Policy, cfg.official, FailureRate(runs))
           given == [k \in DOMAIN report.runs |-> report.runs[k].run]
<1>1. /\ report = ReportOf(runs) /\ runs = [k \in DOMAIN runs |-> runs[k]]
  BY DEF ReportInv
<1>2. /\ report.runs = [k \in DOMAIN runs |-> [run |-> runs[k], score |-> RunScore(runs, k)]]
      /\ report.rows = rows /\ report.policy = Policy /\ report.official = cfg.official
      /\ report.failures = FailureRate(runs) /\ report.derived = derived
      /\ report.stats = (IF cfg.bootstrap THEN [Statistics(runs, Policy) EXCEPT !.score = derived.score]
                         ELSE None)
  BY <1>1, Zenon DEF ReportOf, ReportOn, Assembled
<1> HIDE DEF rows, derived
<1>3. given = runs
  BY <1>1, <1>2
<1>4. \A k \in DOMAIN runs : report.runs[k].score = RunScore(runs, k)
  BY <1>2
<1>5. ASSUME report.stats # None PROVE report.stats = Statistics(runs, Policy)
  <2> DEFINE stats == Statistics(runs, Policy)
  <2>1. cfg.bootstrap /\ report.stats = [stats EXCEPT !.score = derived.score]
    BY <1>2, <1>5
  <2>2. stats.score = derived.score
    BY <1>2, <2>1, EstimateAgrees
  <2>3. \E a, b, c, d : stats = [score |-> a, dims |-> b, intervals |-> c, interval |-> d]
    BY DEF Statistics, Estimate
  <2> HIDE DEF stats
  <2>4. [stats EXCEPT !.score = derived.score] = stats
    BY <2>2, <2>3
  <2> QED BY <2>1, <2>4 DEF stats
<1> HIDE DEF given
<1>6. report.derived = Derived(report.rows, report.policy, report.official, report.failures)
  BY <1>2 DEF derived
<1>7. /\ \A k \in DOMAIN given : report.runs[k].score = RunScore(given, k)
      /\ report.rows = InstanceRows(given)
      /\ report.failures = FailureRate(given)
      /\ report.stats # None => report.stats = Statistics(given, report.policy)
  BY <1>2, <1>3, <1>4, <1>5 DEF rows
<1> QED BY <1>6, <1>7 DEF Verify, given

----------------------------------------------------------------------------
(* Edits *)

\* The headline follows from other figures of the same report.
Follows(derived, official, failures) ==
    Headline(derived) =
        <<ProfileScore(derived.dims),
          /\ official /\ derived.coverage = One
          /\ DependenceEligible(derived.dependence) = TRUE
          /\ QLeq(failures, Profile.maxFailures),
          ~(derived.coverage = One)>>

\* What build_pack_report derives has its headline from the Dimensions, the coverage,
\* the dependence gate and the failures beside it.
LEMMA HeadlineFollows ==
    ASSUME NEW rows, NEW policy, NEW official, NEW failures
    PROVE  Follows(Derived(rows, policy, official, failures), official, failures)
BY TableIs, SMTT(60) DEF Derived, Follows, Headline

\* A report with its headline where it belongs: d is what the runs give.
ReportRecord(r) ==
    \E a, b, c, d, e, f, g :
        r = [runs |-> a, rows |-> b, policy |-> c, official |-> d, failures |-> e,
             derived |-> f, stats |-> g]
DerivedRecord(x) ==
    \E a, b, c, d, e, f, g, h, i :
        x = [templates |-> a, dims |-> b, score |-> c, causal |-> d, retention |-> e,
             dependence |-> f, coverage |-> g, partial |-> h, official |-> i]
Faithful(r, right) ==
    /\ ReportRecord(r) /\ DerivedRecord(r.derived)
    /\ r.official = cfg.official /\ r.failures = FailureRate(runs)
    /\ Headline(r.derived) = Headline(right)
    /\ r.derived.dims = right.dims /\ r.derived.coverage = right.coverage
    /\ r.derived.dependence = right.dependence

\* An edit changes a figure of the headline, or what it follows from.
LEMMA EditsAre ==
    ASSUME NEW r, ReportRecord(r), DerivedRecord(r.derived), NEW s \in Edits(r)
    PROVE  \/ Headline(s.derived) = Headline(r.derived)
           \/ /\ s.derived.dims = r.derived.dims /\ s.derived.coverage = r.derived.coverage
              /\ s.derived.dependence = r.derived.dependence
              /\ s.failures = r.failures
<1> DEFINE x == r.derived
<1>1. DOMAIN r = {"runs", "rows", "policy", "official", "failures", "derived", "stats"}
  BY DEF ReportRecord
<1>2. DOMAIN x = {"templates", "dims", "score", "causal", "retention", "dependence",
                  "coverage", "partial", "official"}
  BY DEF DerivedRecord
<1>3. ASSUME NEW v, \/ s = [r EXCEPT !.derived.score = v]
                    \/ s = [r EXCEPT !.derived.official = v]
                    \/ s = [r EXCEPT !.derived.partial = v]
      PROVE  /\ s.derived.dims = x.dims /\ s.derived.coverage = x.coverage
             /\ s.derived.dependence = x.dependence /\ s.failures = r.failures
  BY <1>1, <1>2, <1>3
<1>4. ASSUME NEW v, \/ s = [r EXCEPT !.failures = v]
                    \/ s = [r EXCEPT !.official = v]
                    \/ s = [r EXCEPT !.rows = v]
                    \/ s = [r EXCEPT !.runs = v]
      PROVE  s.derived = x
  BY <1>1, <1>4
<1>5. ASSUME NEW v, \/ s = [r EXCEPT !.derived.dims = v]
                    \/ s = [r EXCEPT !.derived.dependence = v]
      PROVE  Headline(s.derived) = Headline(x)
  BY <1>1, <1>2, <1>5, SMTT(60) DEF Headline
<1>6. \/ s = [r EXCEPT !.derived.score = One]
      \/ s = [r EXCEPT !.derived.official = TRUE]
      \/ s = [r EXCEPT !.derived.partial = FALSE]
      \/ s = [r EXCEPT !.failures = Zero]
      \/ s = [r EXCEPT !.official = TRUE]
      \/ \E d : s = [r EXCEPT !.derived.dims[d].score = One]
      \/ \E d : s = [r EXCEPT !.derived.dims[d].coverage = One]
      \/ \E d : s = [r EXCEPT !.derived.dependence[d].eligible = TRUE]
      \/ \E i : s = [r EXCEPT !.rows[i].full = One]
      \/ \E k : s = [r EXCEPT !.runs[k].score = One]
      \/ \E k : s = [r EXCEPT !.runs[k].run.valid = ~@]
  BY DEF Edits
<1>7. ASSUME \E v : s = [r EXCEPT !.derived.dims = v] \/ s = [r EXCEPT !.derived.dependence = v]
      PROVE  Headline(s.derived) = Headline(x)
  BY <1>5, <1>7
<1>8. ASSUME \E v : s = [r EXCEPT !.rows = v] \/ s = [r EXCEPT !.runs = v]
      PROVE  s.derived = x
  BY <1>4, <1>8
<1>9. \A d : /\ \E v : [r EXCEPT !.derived.dims[d].score = One] = [r EXCEPT !.derived.dims = v]
             /\ \E v : [r EXCEPT !.derived.dims[d].coverage = One] = [r EXCEPT !.derived.dims = v]
             /\ \E v : [r EXCEPT !.derived.dependence[d].eligible = TRUE] = [r EXCEPT !.derived.dependence = v]
             /\ \E v : [r EXCEPT !.rows[d].full = One] = [r EXCEPT !.rows = v]
             /\ \E v : [r EXCEPT !.runs[d].score = One] = [r EXCEPT !.runs = v]
             /\ \E v : [r EXCEPT !.runs[d].run.valid = ~@] = [r EXCEPT !.runs = v]
  OBVIOUS
<1> QED BY <1>3, <1>4, <1>6, <1>7, <1>8, <1>9

\* The public copy, field by field.
PublicDerived(x) ==
    [templates |-> Renamed(x.templates), dims |-> x.dims, score |-> x.score,
     causal |-> x.causal, retention |-> [n \in DOMAIN x.retention |-> Named(x.retention[n])],
     dependence |-> x.dependence, coverage |-> x.coverage, partial |-> x.partial,
     official |-> x.official]
PublicCopy(r) ==
    [runs |-> <<>>, rows |-> [i \in DOMAIN r.rows |-> Named(r.rows[i])],
     policy |-> Renamed(r.policy), official |-> r.official, failures |-> r.failures,
     derived |-> PublicDerived(r.derived), stats |-> r.stats]

\* Redact, field by field.
LEMMA RedactIs ==
    ASSUME NEW r, ReportRecord(r), DerivedRecord(r.derived)
    PROVE  Redact(r) = PublicCopy(r)
<1>1. PICK a, b, c, d, e, f, g :
        r = [runs |-> a, rows |-> b, policy |-> c, official |-> d, failures |-> e,
             derived |-> f, stats |-> g]
  BY DEF ReportRecord
<1>2. PICK ta, da, sa, ca, re, de, co, pa, of :
        f = [templates |-> ta, dims |-> da, score |-> sa, causal |-> ca, retention |-> re,
             dependence |-> de, coverage |-> co, partial |-> pa, official |-> of]
  BY <1>1 DEF DerivedRecord
<1> DEFINE t == Renamed(ta)
           n == [j \in DOMAIN re |-> Named(re[j])]
           m == [i \in DOMAIN b |-> Named(b[i])]
           x == [templates |-> t, dims |-> da, score |-> sa, causal |-> ca, retention |-> n,
                 dependence |-> de, coverage |-> co, partial |-> pa, official |-> of]
           s == [runs |-> <<>>, rows |-> m, policy |-> Renamed(c),
                 official |-> d, failures |-> e, derived |-> x, stats |-> g]
<1>3. PublicDerived(f) = x
  BY <1>2 DEF PublicDerived
<1>4. PublicCopy(r) = s
  BY <1>1, <1>3 DEF PublicCopy
<1>5. Redact(r) = [r EXCEPT !.runs = <<>>, !.rows = m, !.policy = Renamed(c),
                            !.derived.templates = t, !.derived.retention = n]
  <2>1. r.policy = c /\ r.rows = b /\ r.derived = f /\ f.templates = ta /\ f.retention = re
    BY <1>1, <1>2
  <2> QED BY <2>1 DEF Redact
<1> HIDE DEF n, t, m
<1>6. [f EXCEPT !.templates = t, !.retention = n] = x
  <2> DEFINE y == [f EXCEPT !.templates = t]
  <2>1. y = [templates |-> t, dims |-> da, score |-> sa, causal |-> ca, retention |-> re,
             dependence |-> de, coverage |-> co, partial |-> pa, official |-> of]
    BY <1>2
  <2>2. [f EXCEPT !.templates = t, !.retention = n] = [y EXCEPT !.retention = n]
    OBVIOUS
  <2> HIDE DEF y
  <2>3. [y EXCEPT !.retention = n] = x
    BY <2>1
  <2> QED BY <2>2, <2>3
<1> HIDE DEF x
<1>7. [r EXCEPT !.runs = <<>>, !.rows = m, !.policy = Renamed(c),
                !.derived.templates = t, !.derived.retention = n]
      = [r EXCEPT !.runs = <<>>, !.rows = m, !.policy = Renamed(c), !.derived = x]
  BY <1>1, <1>6
<1>8. [r EXCEPT !.runs = <<>>, !.rows = m, !.policy = Renamed(c), !.derived = x] = s
  <2> DEFINE r1 == [r EXCEPT !.runs = <<>>]
             r2 == [r1 EXCEPT !.rows = m]
             r3 == [r2 EXCEPT !.policy = Renamed(c)]
             r4 == [r3 EXCEPT !.derived = x]
  <2>1. r1 = [runs |-> <<>>, rows |-> b, policy |-> c, official |-> d,
              failures |-> e, derived |-> f, stats |-> g]
    BY <1>1
  <2> HIDE DEF r1
  <2>2. r2 = [runs |-> <<>>, rows |-> m, policy |-> c, official |-> d,
              failures |-> e, derived |-> f, stats |-> g]
    BY <2>1
  <2> HIDE DEF r2
  <2>3. r3 = [runs |-> <<>>, rows |-> m, policy |-> Renamed(c), official |-> d,
              failures |-> e, derived |-> f, stats |-> g]
    BY <2>2
  <2> HIDE DEF r3
  <2>4. r4 = s
    BY <2>3
  <2> HIDE DEF r4
  <2> QED BY <2>4 DEF r1, r2, r3, r4
<1> QED BY <1>4, <1>5, <1>7, <1>8

\* The report of the runs and its public copy are what they are derived from.
LEMMA WrittenIsFaithful ==
    LET right == Derived(InstanceRows(runs), Policy, cfg.official, FailureRate(runs))
    IN  /\ Faithful(ReportOf(runs), right) /\ Faithful(Redact(ReportOf(runs)), right)
        /\ Follows(right, cfg.official, FailureRate(runs))
<1> DEFINE right == Derived(InstanceRows(runs), Policy, cfg.official, FailureRate(runs))
           r == ReportOf(runs)
<1>1. Follows(right, cfg.official, FailureRate(runs))
  BY HeadlineFollows
<1>2. DerivedRecord(right)
  BY ZenonT(60) DEF Derived, DerivedRecord
<1> HIDE DEF right
<1>3. \E a, b, c, g : r = [runs |-> a, rows |-> b, policy |-> c, official |-> cfg.official,
                           failures |-> FailureRate(runs), derived |-> right, stats |-> g]
  BY DEF ReportOf, ReportOn, Assembled, right
<1> HIDE DEF r
<1>4. ReportRecord(r) /\ r.derived = right /\ r.official = cfg.official
      /\ r.failures = FailureRate(runs)
  <2>1. PICK a, b, c, g : r = [runs |-> a, rows |-> b, policy |-> c, official |-> cfg.official,
                               failures |-> FailureRate(runs), derived |-> right, stats |-> g]
    BY <1>3
  <2> QED BY <2>1 DEF ReportRecord
<1>5. Faithful(r, right)
  BY <1>2, <1>4 DEF Faithful
<1> DEFINE x == PublicDerived(right)
           s == PublicCopy(r)
<1>6. Redact(r) = s
  BY <1>2, <1>4, RedactIs
<1>7. DerivedRecord(x) /\ Headline(x) = Headline(right) /\ x.dims = right.dims
      /\ x.coverage = right.coverage /\ x.dependence = right.dependence
  BY DEF PublicDerived, DerivedRecord, Headline
<1> HIDE DEF x
<1>8. ReportRecord(s) /\ s.derived = x /\ s.official = cfg.official /\ s.failures = FailureRate(runs)
  BY <1>4 DEF ReportRecord, PublicCopy, x
<1>9. Faithful(s, right)
  BY <1>7, <1>8 DEF Faithful
<1> HIDE DEF s
<1> QED BY <1>1, <1>5, <1>6, <1>9 DEF r, right

\* What the verifier accepts of an edited report has the headline of the runs.
LEMMA EditsAreCaught ==
    ASSUME NEW right, Follows(right, cfg.official, FailureRate(runs)),
           NEW r, Faithful(r, right), NEW s \in Edits(r) \cup {r},
           s.official = cfg.official, Verify(s)
    PROVE  Headline(s.derived) = Headline(right)
<1>1. CASE s = r
  BY <1>1 DEF Faithful
<1>2. CASE s \in Edits(r) /\ Headline(s.derived) = Headline(r.derived)
  BY <1>2 DEF Faithful
<1>3. CASE /\ s.derived.dims = r.derived.dims /\ s.derived.coverage = r.derived.coverage
           /\ s.derived.dependence = r.derived.dependence /\ s.failures = r.failures
  <2>1. s.derived = Derived(s.rows, s.policy, s.official, s.failures)
    BY DEF Verify
  <2>2. Follows(s.derived, cfg.official, FailureRate(runs))
    BY <1>3, <2>1, HeadlineFollows DEF Faithful
  <2>3. s.derived.dims = right.dims /\ s.derived.coverage = right.coverage
        /\ s.derived.dependence = right.dependence
    BY <1>3 DEF Faithful
  <2> QED BY <2>2, <2>3 DEF Follows
<1> QED BY <1>1, <1>2, <1>3, EditsAre DEF Faithful

\* The public copy is redacted from the report of the runs, and one of the two is
\* edited at most once.
EditInv ==
    /\ cfg \in Configs
    /\ edited \in {None, "report", "public"}
    /\ edited # None => plan = {}
    /\ public # NoReport /\ edited = None =>
         report # NoReport /\ public = Redact(ReportOf(runs))
    /\ edited = "report" => report \in Edits(ReportOf(runs)) \cup {ReportOf(runs)}
    /\ edited = "public" => public \in Edits(Redact(ReportOf(runs)))

\* Nothing is edited at first.
LEMMA InitEdit == Init => EditInv
BY PackAssumption DEF Init, EditInv

\* Only Publish makes a public copy, out of the report of the runs, and only Edit
\* changes it or the report, once.
LEMMA StepEdit == EditInv /\ ReportInv /\ PackInv /\ [Next]_vars => EditInv'
<1> SUFFICES ASSUME EditInv, ReportInv, PackInv, [Next]_vars PROVE EditInv'
  OBVIOUS
<1>0. "report" # None /\ "public" # None
  BY PackAssumption
<1>1. CASE Run
  <2>1. plan # {} /\ UNCHANGED <<cfg, report, public, edited>>
    BY <1>1 DEF Run
  <2>2. report = NoReport /\ public = NoReport /\ edited = None
    BY <2>1 DEF PackInv, EditInv
  <2> QED BY <1>0, <2>1, <2>2 DEF EditInv
<1>2. ASSUME UNCHANGED <<cfg, plan, runs>>
      PROVE  /\ ReportOf(runs)' = ReportOf(runs)
             /\ \A r : Redact(r)' = Redact(r)
  <2>1. cfg' = cfg /\ runs' = runs
    BY <1>2
  <2> QED BY <2>1 DEF ReportOf, ReportOn, Assembled, Redact, Renamed, Named, Alias
<1>3. CASE Report
  <2>1. /\ UNCHANGED <<cfg, plan, runs, public, edited>> /\ report' = ReportOf(runs)
        /\ report = NoReport
    BY <1>3 DEF Report
  <2>2. public # NoReport => edited # None
    BY <2>1 DEF EditInv
  <2> QED BY <1>0, <1>2, <2>1, <2>2 DEF EditInv
<1>4. CASE Publish
  <2>1. /\ UNCHANGED <<cfg, plan, runs, report, edited>> /\ public' = Redact(report)
        /\ report # NoReport /\ edited = None
    BY <1>4 DEF Publish
  <2>2. report = ReportOf(runs)
    BY <2>1 DEF ReportInv, Written
  <2> QED BY <1>0, <1>2, <2>1, <2>2 DEF EditInv
<1>5. CASE Edit
  <2>1. /\ UNCHANGED <<cfg, plan, runs>> /\ public # NoReport /\ edited = None
        /\ \/ report' \in Edits(report) /\ edited' = "report" /\ UNCHANGED public
           \/ public' \in Edits(public) /\ edited' = "public" /\ UNCHANGED report
    BY <1>5 DEF Edit
  <2>2. report # NoReport /\ public = Redact(ReportOf(runs)) /\ plan = {}
    BY <2>1 DEF EditInv, PackInv
  <2>3. report = ReportOf(runs)
    BY <2>1, <2>2 DEF ReportInv, Written
  <2>4. \A r : Edits(r)' = Edits(r)
    <3>1. UNCHANGED cfg
      BY <2>1
    <3> QED BY <3>1 DEF Edits
  <2> QED BY <1>0, <1>2, <2>1, <2>2, <2>3, <2>4 DEF EditInv
<1>6. CASE UNCHANGED vars
  <2>1. UNCHANGED <<cfg, plan, runs, report, public, edited>>
    BY <1>6 DEF vars
  <2> QED BY <1>2, <2>1 DEF EditInv
<1> QED BY <1>1, <1>3, <1>4, <1>5, <1>6 DEF Next

\* No edit of a single figure or flag, in the report or in its public copy, leaves a
\* headline that is not the one of the runs and passes verify_score.
LEMMA EditsKeepHeadline == EditInv => VerifierKeepsHeadline
<1> DEFINE r == IF edited = "report" THEN report ELSE public
           right == Derived(InstanceRows(runs), Policy, cfg.official, FailureRate(runs))
<1> SUFFICES ASSUME EditInv, edited # None, r.official = cfg.official, Verify(r)
             PROVE  Headline(r.derived) = Headline(right)
  BY DEF VerifierKeepsHeadline
<1>1. \/ r \in Edits(ReportOf(runs)) \cup {ReportOf(runs)}
      \/ r \in Edits(Redact(ReportOf(runs)))
  BY DEF EditInv
<1> HIDE DEF r, right
<1> QED BY <1>1, WrittenIsFaithful, EditsAreCaught DEF right

----------------------------------------------------------------------------
(* Sets of ids in their order *)

\* Every position of a set of ids is that of one of them.
Positioned(S) ==
    /\ \A n \in 1..Cardinality(S) : \E x \in S : Position(S, x) = n - 1
    /\ \A x, y \in S : Position(S, x) = Position(S, y) => x = y

\* Finitely many ids are sorted.
LEMMA PositionsAreTaken ==
    ASSUME NEW S, IsFiniteSet(S), S \subseteq Int
    PROVE  Positioned(S)
<1> DEFINE before == [x \in S |-> {y \in S : y < x}]
           at == [x \in S |-> Position(S, x)]
           N == Cardinality(S)
<1>1. N \in Nat
  BY FS_CardinalityType
<1>2. \A x \in S : /\ before[x] \subseteq S /\ IsFiniteSet(before[x]) /\ x \notin before[x]
                   /\ Position(S, x) = Cardinality(before[x])
  BY FS_Subset DEF Position
<1>3. ASSUME NEW x \in S
      PROVE  Position(S, x) \in 0..(N - 1)
  <2>1. IsFiniteSet(before[x]) /\ before[x] \subseteq S /\ before[x] # S
    BY <1>2
  <2>2. Cardinality(before[x]) \in Nat /\ Cardinality(before[x]) < N
    <3> HIDE DEF before
    <3> QED BY <2>1, FS_CardinalityType, FS_Subset
  <2> HIDE DEF before, N
  <2> QED BY <1>1, <1>2, <2>2
<1>4. ASSUME NEW x \in S, NEW y \in S, x < y
      PROVE  Position(S, x) < Position(S, y)
  <2>1. before[x] \subseteq before[y] /\ before[x] # before[y]
    <3>1. \A z \in S : z < x => z < y
      BY <1>4
    <3>2. x \in before[y] /\ x \notin before[x]
      BY <1>2, <1>4
    <3> QED BY <3>1, <3>2
  <2>2. IsFiniteSet(before[y])
    BY <1>2
  <2> HIDE DEF before
  <2>3. Cardinality(before[x]) < Cardinality(before[y])
    <3>1. IsFiniteSet(before[x]) /\ Cardinality(before[x]) <= Cardinality(before[y])
          /\ Cardinality(before[x]) # Cardinality(before[y])
      BY <2>1, <2>2, FS_Subset
    <3> QED BY <2>2, <3>1, FS_CardinalityType
  <2> QED BY <1>2, <2>3
<1>5. \A x, y \in S : Position(S, x) = Position(S, y) => x = y
  <2> SUFFICES ASSUME NEW x \in S, NEW y \in S, x # y
               PROVE  Position(S, x) # Position(S, y)
    OBVIOUS
  <2>1. x < y \/ y < x
    OBVIOUS
  <2>2. Position(S, x) \in Int /\ Position(S, y) \in Int
    BY <1>3
  <2> QED BY <1>4, <2>1, <2>2
<1>6. at \in Injection(S, 0..(N - 1))
  BY <1>3, <1>5 DEF Injection, IsInjective
<1>7. IsFiniteSet(0..(N - 1)) /\ Cardinality(0..(N - 1)) = N
  BY <1>1, FS_Interval, SMTT(60)
<1>8. at \in Surjection(S, 0..(N - 1))
  <2> HIDE DEF at
  <2> QED BY <1>6, <1>7, FS_Injection
<1>9. ASSUME NEW n \in 1..N PROVE \E x \in S : Position(S, x) = n - 1
  <2>1. n - 1 \in 0..(N - 1)
    BY <1>1
  <2>2. \E x \in S : at[x] = n - 1
    <3> HIDE DEF at
    <3> QED BY <1>8, <2>1 DEF Surjection
  <2> QED BY <2>2
<1> QED BY <1>5, <1>9 DEF Positioned

\* b gives the members of S other names that sort as they do.
KeepsOrder(b, S) ==
    /\ S \subseteq Int /\ \A x \in S : b[x] \in Int
    /\ \A x, y \in S : x < y <=> b[x] < b[y]

\* The sequence of U is that of S, every member under its name.
NamedInOrder(S, U, b) ==
    /\ DOMAIN Ascending(U) = DOMAIN Ascending(S)
    /\ \A n \in DOMAIN Ascending(S) :
         Ascending(S)[n] \in S /\ Ascending(U)[n] = b[Ascending(S)[n]]

\* Renaming ids that keep their order renames the members of the sequence.
LEMMA AscendingRenamed ==
    ASSUME NEW S, IsFiniteSet(S), NEW b, KeepsOrder(b, S), NEW U, U = {b[x] : x \in S}
    PROVE  NamedInOrder(S, U, b)
<1>1. \A x, y \in S : b[x] = b[y] => x = y
  <2> SUFFICES ASSUME NEW x \in S, NEW y \in S, b[x] = b[y] PROVE x = y
    OBVIOUS
  <2>1. x \in Int /\ y \in Int /\ ~(x < y) /\ ~(y < x)
    BY DEF KeepsOrder
  <2> QED BY <2>1
<1>2. IsFiniteSet(U) /\ Cardinality(U) = Cardinality(S) /\ U \subseteq Int
  <2> DEFINE I == {b[x] : x \in S}
  <2>1. IsFiniteSet(I) /\ Cardinality(I) = Cardinality(S)
    BY <1>1, CountRenamed
  <2>2. U = I /\ U \subseteq Int
    BY DEF KeepsOrder
  <2> HIDE DEF I
  <2> QED BY <2>1, <2>2
<1>3. Positioned(S) /\ Positioned(U)
  BY <1>2, PositionsAreTaken DEF KeepsOrder
<1>4. ASSUME NEW x \in S
      PROVE  Position(U, b[x]) = Position(S, x)
  <2> DEFINE T == {y \in S : y < x}
             I == {b[y] : y \in T}
  <2>1. {u \in U : u < b[x]} = I
    BY DEF KeepsOrder
  <2>2. IsFiniteSet(T) /\ \A y, z \in T : b[y] = b[z] => y = z
    BY <1>1, FS_Subset
  <2>3. Cardinality(I) = Cardinality(T)
    <3> HIDE DEF T
    <3> QED BY <2>2, CountRenamed
  <2> QED BY <2>1, <2>3 DEF Position
<1>5. DOMAIN Ascending(U) = DOMAIN Ascending(S)
  BY <1>2 DEF Ascending
<1>6. ASSUME NEW n \in DOMAIN Ascending(S)
      PROVE  Ascending(S)[n] \in S /\ Ascending(U)[n] = b[Ascending(S)[n]]
  <2> DEFINE a == Ascending(S)[n]
             c == Ascending(U)[n]
  <2>0. n \in 1..Cardinality(S) /\ n \in 1..Cardinality(U)
    BY <1>2 DEF Ascending
  <2>1. a \in S /\ Position(S, a) = n - 1
    <3>1. a = CHOOSE x \in S : Position(S, x) = n - 1
      BY DEF Ascending
    <3>2. \E x \in S : Position(S, x) = n - 1
      BY <1>3, <2>0 DEF Positioned
    <3> HIDE DEF a
    <3> QED BY <3>1, <3>2, Zenon
  <2>2. c \in U /\ Position(U, c) = n - 1
    <3>1. c = CHOOSE x \in U : Position(U, x) = n - 1
      BY <2>0 DEF Ascending
    <3>2. \E x \in U : Position(U, x) = n - 1
      BY <1>3, <2>0 DEF Positioned
    <3> HIDE DEF c
    <3> QED BY <3>1, <3>2, Zenon
  <2> HIDE DEF a, c
  <2>3. b[a] \in U /\ Position(U, b[a]) = n - 1
    BY <1>4, <2>1
  <2>4. c = b[a]
    BY <1>3, <2>2, <2>3 DEF Positioned
  <2> QED BY <2>1, <2>4 DEF a, c
<1> QED BY <1>5, <1>6 DEF NamedInOrder

\* The terms g with weights w are the terms f with weights v under the names b.
TermsRenamed(S, f, v, U, g, w, b) ==
    /\ IsFiniteSet(S) /\ U = {b[x] : x \in S} /\ \A x, y \in S : b[x] = b[y] => x = y
    /\ f = [x \in S |-> f[x]] /\ v = [x \in S |-> v[x]]
    /\ g = [y \in U |-> g[y]] /\ w = [y \in U |-> w[y]]
    /\ \A x \in S : /\ f[x] \in Rational /\ v[x] \in Nat
                     /\ g[b[x]] = f[x] /\ w[b[x]] = v[x]

\* Nor does a weighted mean depend on the names of its terms.
LEMMA WeightedMeanRenamed ==
    ASSUME NEW S, NEW f, NEW v, NEW U, NEW g, NEW w, NEW b,
           TermsRenamed(S, f, v, U, g, w, b)
    PROVE  WeightedMean(g, w) = WeightedMean(f, v)
<1> USE DEF TermsRenamed
<1> DEFINE F == [s \in S |-> QMul(f[s], Q(v[s], 1))]
           G == [s \in U |-> QMul(g[s], Q(w[s], 1))]
<1>1. IsFiniteSet(U)
  <2> DEFINE I == {b[x] : x \in S}
  <2>1. IsFiniteSet(I)
    BY ImageIsFinite
  <2> HIDE DEF I
  <2>2. U = I
    BY DEF I
  <2> QED BY <2>1, <2>2
<1>2. Summable(F)
  BY WholeNumber, Closed DEF Summable
<1>3. \A x \in S : G[b[x]] = F[x]
  OBVIOUS
<1>4. Summable(G)
  <2>1. DOMAIN G = U /\ DOMAIN F = S
    OBVIOUS
  <2>2. \A x \in S : F[x] \in Rational
    BY <1>2 DEF Summable
  <2> HIDE DEF F, G
  <2> QED BY <1>1, <1>3, <2>1, <2>2 DEF Summable
<1>5. QSum(G) = QSum(F)
  <2>1. F = [x \in S |-> F[x]] /\ G = [y \in U |-> G[y]]
    OBVIOUS
  <2> HIDE DEF F, G
  <2> QED BY <1>2, <1>3, <1>4, <2>1, SumRenamed, SMTT(60)
<1>6. Weight(w) = Weight(v)
  BY WeightRenamed
<1>7. DOMAIN f = S /\ DOMAIN g = U
  OBVIOUS
<1>8. WeightedMean(g, w) = QDiv(QSum(G), Q(Weight(w), 1))
      /\ WeightedMean(f, v) = QDiv(QSum(F), Q(Weight(v), 1))
  BY <1>7 DEF WeightedMean
<1> HIDE DEF F, G
<1> QED BY <1>5, <1>6, <1>8

\* Fractions are ordered.
LEMMA LeqOrders ==
    ASSUME NEW x \in Rational, NEW y \in Rational, NEW z \in Rational
    PROVE  /\ QLeq(x, y) \/ QLeq(y, x)
           /\ QLeq(x, y) /\ QLeq(y, z) => QLeq(x, z)
<1>1. PICK a \in Int, b \in Nat \ {0} : x.num = a /\ x.den = b
  BY Parts
<1>2. PICK c \in Int, d \in Nat \ {0} : y.num = c /\ y.den = d
  BY Parts
<1>3. PICK e \in Int, f \in Nat \ {0} : z.num = e /\ z.den = f
  BY Parts
<1>4. QLeq(x, y) \/ QLeq(y, x)
  <2>1. a * d \in Int /\ c * b \in Int
    BY Products
  <2>2. \A u, w \in Int : u <= w \/ w <= u
    OBVIOUS
  <2> QED BY <1>1, <1>2, <2>1, <2>2 DEF QLeq
<1>5. ASSUME QLeq(x, y), QLeq(y, z) PROVE QLeq(x, z)
  <2>1. a * d <= c * b /\ c * f <= e * d
    BY <1>1, <1>2, <1>3, <1>5 DEF QLeq
  <2>2. a * d \in Int /\ c * b \in Int /\ c * f \in Int /\ e * d \in Int
        /\ a * f \in Int /\ e * b \in Int
    BY Products
  <2>3. (a * d) * f <= (c * b) * f /\ (c * f) * b <= (e * d) * b
    BY <2>1, <2>2, ScaleUp
  <2>4. (a * d) * f = (a * f) * d /\ (c * b) * f = (c * f) * b /\ (e * d) * b = (e * b) * d
    BY Z3T(30)
  <2>5. (a * f) * d <= (e * b) * d
    <3>1. (a * f) * d \in Int /\ (c * f) * b \in Int /\ (e * b) * d \in Int
      BY <2>2, Products
    <3>2. \A u, v, w \in Int : u <= v /\ v <= w => u <= w
      OBVIOUS
    <3>3. (a * f) * d <= (c * f) * b /\ (c * f) * b <= (e * b) * d
      BY <2>3, <2>4
    <3> QED BY <3>1, <3>2, <3>3, Zenon
  <2>6. a * f <= e * b
    BY <2>2, <2>5, ScaleDown
  <2> QED BY <1>1, <1>3, <2>6 DEF QLeq
<1> QED BY <1>4, <1>5

\* Of finitely many fractions one is the least.
LEMMA LeastExists ==
    ASSUME NEW S, IsFiniteSet(S), S # {}, NEW e, \A x \in S : e[x] \in Rational
    PROVE  \E y \in S : \A x \in S : QLeq(e[y], e[x])
<1> DEFINE Least(T) == T = {} \/ \E y \in T : \A x \in T : QLeq(e[y], e[x])
           F == {T \in SUBSET S : Least(T)}
<1>1. {} \in F
  OBVIOUS
<1>2. ASSUME NEW T \in SUBSET S, NEW x \in S \ T, T \in F
      PROVE  T \cup {x} \in F
  <2>1. QLeq(e[x], e[x])
    BY Parts
  <2>2. CASE T = {}
    BY <2>1, <2>2
  <2>3. CASE T # {}
    <3>1. PICK y \in T : \A z \in T : QLeq(e[y], e[z])
      BY <1>2, <2>3
    <3>2. \E m \in {x, y} : QLeq(e[m], e[x]) /\ QLeq(e[m], e[y])
      BY <2>1, <3>1, LeqOrders
    <3>3. PICK m \in {x, y} : QLeq(e[m], e[x]) /\ QLeq(e[m], e[y])
      BY <3>2
    <3>4. ASSUME NEW z \in T PROVE QLeq(e[m], e[z])
      <4>1. e[m] \in Rational /\ e[y] \in Rational /\ e[z] \in Rational
        OBVIOUS
      <4>2. QLeq(e[m], e[y]) /\ QLeq(e[y], e[z])
        BY <3>1, <3>3
      <4> QED BY <4>1, <4>2, LeqOrders
    <3>5. m \in T \cup {x} /\ \A z \in T \cup {x} : QLeq(e[m], e[z])
      BY <3>3, <3>4
    <3> QED BY <3>5
  <2> QED BY <2>2, <2>3
<1>3. S \in F
  <2> HIDE DEF F
  <2>1. \A T \in SUBSET S : T \in F
    BY <1>1, <1>2, ElementInduction
  <2> QED BY <2>1
<1> QED BY <1>3

----------------------------------------------------------------------------
(* A report under the public names of its Templates *)

\* b names the Templates, each by a name of its own.
Naming(b) ==
    \A s, t \in DOMAIN Templates : b[s] = b[t] => s = t

\* g is f, which is about Templates, under the names that b gives them.
NamedBy(f, g, b) ==
    /\ DOMAIN f \subseteq DOMAIN Templates
    /\ DOMAIN g = {b[t] : t \in DOMAIN f}
    /\ g = [x \in DOMAIN g |-> g[x]]
    /\ \A t \in DOMAIN f : g[b[t]] = f[t]

\* The rows B are the rows A with their Templates named by b.
NamedRows(A, B, b) ==
    /\ DOMAIN B = DOMAIN A
    /\ \A i \in DOMAIN A :
         /\ A[i].template \in DOMAIN Templates /\ B[i].template = b[A[i].template]
         /\ B[i].rung = A[i].rung /\ B[i].full = A[i].full /\ B[i].dims = A[i].dims
         /\ B[i].metrics = A[i].metrics /\ B[i].joint = A[i].joint

\* There is one way to name what is about Templates.
LEMMA NamedOnce ==
    ASSUME NEW f, NEW g, NEW h, NEW b, NamedBy(f, g, b), NamedBy(f, h, b)
    PROVE  g = h
<1>1. DOMAIN g = DOMAIN h
  BY DEF NamedBy
<1>2. \A x \in DOMAIN g : g[x] = h[x]
  BY DEF NamedBy
<1> QED BY <1>1, <1>2 DEF NamedBy

\* Under other names a Template has the same rows.
LEMMA RowsOfNamed ==
    ASSUME NEW A, NEW B, NEW b, NamedRows(A, B, b), Naming(b), NEW t \in DOMAIN Templates
    PROVE  /\ Canonical(B) = Canonical(A) /\ Canonical(A) \subseteq DOMAIN A
           /\ OfTemplate(B, b[t]) = OfTemplate(A, t)
           /\ OfTemplate(A, t) \subseteq DOMAIN A
<1>1. Canonical(B) = Canonical(A) /\ Canonical(A) \subseteq DOMAIN A
  BY DEF Canonical, NamedRows
<1>2. \A i \in Canonical(A) : B[i].template = b[t] <=> A[i].template = t
  BY <1>1 DEF NamedRows, Naming
<1> QED BY <1>1, <1>2 DEF OfTemplate

\* The aggregate of a Template does not depend on what it is called.
LEMMA TemplateRowNamed ==
    ASSUME NEW A, NEW B, NEW b, NamedRows(A, B, b), Naming(b), NEW t \in DOMAIN Templates
    PROVE  TemplateRow(B, b[t]) = TemplateRow(A, t)
<1> DEFINE S == OfTemplate(A, t)
           full(R) == Mean([i \in S |-> R[i].full])
           dims(R) == UNION {DOMAIN R[i].dims : i \in S}
           with(R, d) == {i \in S : d \in DOMAIN R[i].dims}
           score(R, d) == Mean([i \in with(R, d) |-> R[i].dims[d]])
<1>1. OfTemplate(B, b[t]) = S /\ S \subseteq DOMAIN A
  BY RowsOfNamed
<1>2. /\ TemplateRow(B, b[t]) = [full |-> full(B), dims |-> Table([d \in dims(B) |-> score(B, d)])]
      /\ TemplateRow(A, t) = [full |-> full(A), dims |-> Table([d \in dims(A) |-> score(A, d)])]
  BY <1>1 DEF TemplateRow
<1>3. \A i \in S : B[i].full = A[i].full /\ B[i].dims = A[i].dims
  BY <1>1 DEF NamedRows
<1>4. full(B) = full(A)
  <2>1. [i \in S |-> B[i].full] = [i \in S |-> A[i].full]
    BY <1>3
  <2> QED BY <2>1
<1>5. dims(B) = dims(A)
  BY <1>3
<1>6. ASSUME NEW d PROVE score(B, d) = score(A, d)
  <2>1. with(B, d) = with(A, d)
    BY <1>3
  <2>2. [i \in with(B, d) |-> B[i].dims[d]] = [i \in with(A, d) |-> A[i].dims[d]]
    BY <1>3, <2>1
  <2> QED BY <2>2
<1>7. [d \in dims(B) |-> score(B, d)] = [d \in dims(A) |-> score(A, d)]
  <2> HIDE DEF dims, score
  <2> QED BY <1>5, <1>6
<1> HIDE DEF full, dims, score
<1> QED BY <1>2, <1>4, <1>7

\* The Template rows of the named rows are the Template rows, named.
LEMMA TemplateRowsNamed ==
    ASSUME NEW A, NEW B, NEW b, NamedRows(A, B, b), Naming(b),
           NEW P, NEW N, NamedBy(P, N, b)
    PROVE  NamedBy(TemplateRows(A, P), TemplateRows(B, N), b)
<1> DEFINE S == {u \in DOMAIN P : OfTemplate(A, u) # {}}
           U == {u \in DOMAIN N : OfTemplate(B, u) # {}}
           F == [t \in S |-> TemplateRow(A, t)]
           G == [t \in U |-> TemplateRow(B, t)]
<1>1. TemplateRows(A, P) = F /\ TemplateRows(B, N) = G
  BY TableIs DEF TemplateRows
<1>2. DOMAIN P \subseteq DOMAIN Templates /\ DOMAIN N = {b[t] : t \in DOMAIN P}
  BY DEF NamedBy
<1>3. \A t \in DOMAIN P : OfTemplate(B, b[t]) = OfTemplate(A, t)
  BY <1>2, RowsOfNamed
<1>4. U = {b[t] : t \in S}
  BY <1>2, <1>3
<1>5. \A t \in S : G[b[t]] = F[t]
  BY <1>2, <1>4, TemplateRowNamed
<1>6. DOMAIN F = S /\ DOMAIN G = U /\ S \subseteq DOMAIN Templates /\ G = [x \in U |-> G[x]]
  BY <1>2
<1> HIDE DEF S, U, F, G
<1>7. DOMAIN G = {b[t] : t \in DOMAIN F}
  BY <1>4, <1>6
<1> QED BY <1>1, <1>5, <1>6, <1>7 DEF NamedBy

\* The Templates in U, by their names in N, weigh as much as those in S.
SameWeight(P, N, S, U, d) ==
    Weight([t \in U |-> N[t][d]]) = Weight([t \in S |-> P[t][d]])

\* The weight of Templates does not depend on what they are called.
LEMMA WeightNamed ==
    ASSUME NEW b, Naming(b), NEW P, NEW N, NamedBy(P, N, b), NEW d,
           \A t \in DOMAIN P : P[t][d] \in Nat,
           NEW S \in SUBSET DOMAIN P, IsFiniteSet(S), NEW U, U = {b[t] : t \in S}
    PROVE  SameWeight(P, N, S, U, d)
<1> DEFINE v == [t \in S |-> P[t][d]]
           w == [t \in U |-> N[t][d]]
<1>1. v = [x \in S |-> v[x]] /\ w = [y \in U |-> w[y]] /\ \A x \in S : v[x] \in Nat
  OBVIOUS
<1>2. \A x, y \in S : b[x] = b[y] => x = y
  BY DEF Naming, NamedBy
<1>3. \A x \in S : w[b[x]] = v[x]
  BY DEF NamedBy
<1> HIDE DEF v, w
<1>4. Weight(w) = Weight(v)
  BY <1>1, <1>2, <1>3, WeightRenamed
<1> QED BY <1>4 DEF v, w, SameWeight

\* A Dimension has the same score and coverage.
LEMMA DimensionRowNamed ==
    ASSUME NEW b, Naming(b), NEW P, NEW N, NamedBy(P, N, b), IsFiniteSet(DOMAIN P),
           NEW T, NEW G, NamedBy(T, G, b), DOMAIN T \subseteq DOMAIN P, NEW d,
           \A t \in DOMAIN P : P[t][d] \in Nat,
           \A t \in DOMAIN T : d \in DOMAIN T[t].dims => T[t].dims[d] \in Rational
    PROVE  DimensionRow(G, N, d) = DimensionRow(T, P, d)
<1> DEFINE R == {t \in DOMAIN T : P[t][d] > 0 /\ d \in DOMAIN T[t].dims}
           L == {t \in DOMAIN G : N[t][d] > 0 /\ d \in DOMAIN G[t].dims}
           Q1 == {t \in DOMAIN P : P[t][d] > 0}
           Q2 == {t \in DOMAIN N : N[t][d] > 0}
           f == [t \in R |-> T[t].dims[d]]
           g == [t \in L |-> G[t].dims[d]]
           v == [t \in R |-> P[t][d]]
           w == [t \in L |-> N[t][d]]
           m == [t \in Q1 |-> P[t][d]]
           n == [t \in Q2 |-> N[t][d]]
<1>1. /\ DimensionRow(T, P, d) =
           [score |-> IF R = {} THEN Zero ELSE WeightedMean(f, v),
            coverage |-> IF Weight(m) = 0 THEN Zero ELSE Q(Weight(v), Weight(m))]
      /\ DimensionRow(G, N, d) =
           [score |-> IF L = {} THEN Zero ELSE WeightedMean(g, w),
            coverage |-> IF Weight(n) = 0 THEN Zero ELSE Q(Weight(w), Weight(n))]
  BY DEF DimensionRow, Required
<1>2. \A t \in DOMAIN P : N[b[t]] = P[t]
  BY DEF NamedBy
<1>3. \A t \in DOMAIN T : G[b[t]] = T[t] /\ b[t] \in DOMAIN G /\ b[t] \in DOMAIN N
  BY DEF NamedBy
<1>4. L = {b[t] : t \in R}
  <2>1. DOMAIN G = {b[t] : t \in DOMAIN T}
    BY DEF NamedBy
  <2> QED BY <1>2, <1>3, <2>1
<1>5. Q2 = {b[t] : t \in Q1}
  <2>1. DOMAIN N = {b[t] : t \in DOMAIN P}
    BY DEF NamedBy
  <2> QED BY <1>2, <2>1
<1>6. R \in SUBSET DOMAIN P /\ Q1 \in SUBSET DOMAIN P /\ IsFiniteSet(R) /\ IsFiniteSet(Q1)
  BY FS_Subset
<1>7. f = [x \in R |-> f[x]] /\ v = [x \in R |-> v[x]]
      /\ g = [y \in L |-> g[y]] /\ w = [y \in L |-> w[y]]
      /\ \A x \in R : f[x] \in Rational /\ v[x] \in Nat
  OBVIOUS
<1>8. \A x \in R : g[b[x]] = f[x] /\ w[b[x]] = v[x]
  BY <1>2, <1>3, <1>4
<1>9. \A x, y \in R : b[x] = b[y] => x = y
  BY DEF Naming, NamedBy
<1>10. Weight(w) = Weight(v) /\ Weight(n) = Weight(m)
  <2> HIDE DEF R, L, Q1, Q2
  <2>1. SameWeight(P, N, R, L, d)
    BY <1>4, <1>6, WeightNamed
  <2>2. SameWeight(P, N, Q1, Q2, d)
    BY <1>5, <1>6, WeightNamed
  <2> QED BY <2>1, <2>2 DEF SameWeight
<1>11. R = {} <=> L = {}
  BY <1>4
<1> HIDE DEF R, L, f, g, v, w, m, n, Q1, Q2
<1>12. WeightedMean(g, w) = WeightedMean(f, v)
  <2>1. TermsRenamed(R, f, v, L, g, w, b)
    BY <1>4, <1>6, <1>7, <1>8, <1>9 DEF TermsRenamed
  <2> QED BY <2>1, WeightedMeanRenamed
<1> QED BY <1>1, <1>10, <1>11, <1>12

\* The Instances of a Template that have a metric, its mean over them, and the weight
\* of the Template in the causal metrics of the pack.
WithMetric(rows, t, m) == {i \in OfTemplate(rows, t) : m \in DOMAIN rows[i].metrics}
MetricOf(rows, t, m) == Mean([i \in WithMetric(rows, t, m) |-> rows[i].metrics[m].value])
CausalWeight(policy, t) == IF policy[t][Causal] > 0 THEN policy[t][Causal] ELSE 1
Measured(rows, policy, m) == {t \in DOMAIN policy : WithMetric(rows, t, m) # {}}
MetricRow(rows, policy, m) ==
    WeightedMean([t \in Measured(rows, policy, m) |-> MetricOf(rows, t, m)],
                 [t \in Measured(rows, policy, m) |-> CausalWeight(policy, t)])

\* What a row needs for its metrics to be averaged.
MetricsRational(rows) ==
    /\ IsFiniteSet(DOMAIN rows)
    /\ \A i \in DOMAIN rows : \A m \in DOMAIN rows[i].metrics :
         rows[i].metrics[m].value \in Rational

\* A Template has the same metrics under another name.
LEMMA MetricOfNamed ==
    ASSUME NEW A, NEW B, NEW b, NamedRows(A, B, b), Naming(b), MetricsRational(A),
           NEW t \in DOMAIN Templates, NEW m
    PROVE  /\ WithMetric(B, b[t], m) = WithMetric(A, t, m)
           /\ MetricOf(B, b[t], m) = MetricOf(A, t, m)
           /\ MetricOf(A, t, m) \in Rational
<1>1. OfTemplate(B, b[t]) = OfTemplate(A, t) /\ OfTemplate(A, t) \subseteq DOMAIN A
  BY RowsOfNamed
<1>2. \A i \in OfTemplate(A, t) : B[i].metrics = A[i].metrics
  BY <1>1 DEF NamedRows
<1>3. WithMetric(B, b[t], m) = WithMetric(A, t, m)
      /\ WithMetric(A, t, m) \subseteq OfTemplate(A, t)
  BY <1>1, <1>2 DEF WithMetric
<1> DEFINE f == [i \in WithMetric(A, t, m) |-> A[i].metrics[m].value]
           g == [i \in WithMetric(B, b[t], m) |-> B[i].metrics[m].value]
<1>4. g = f
  BY <1>2, <1>3
<1>5. IsFiniteSet(DOMAIN f) /\ \A i \in DOMAIN f : f[i] \in Rational
  <2>1. IsFiniteSet(WithMetric(A, t, m))
    BY <1>1, <1>3, FS_Subset DEF MetricsRational
  <2>2. \A i \in WithMetric(A, t, m) : i \in DOMAIN A /\ m \in DOMAIN A[i].metrics
    BY <1>1, <1>3 DEF WithMetric
  <2> QED BY <2>1, <2>2 DEF MetricsRational
<1>6. MetricOf(A, t, m) = Mean(f) /\ MetricOf(B, b[t], m) = Mean(g)
  BY DEF MetricOf
<1> HIDE DEF f, g
<1>7. Mean(f) \in Rational
  BY <1>5, MeanType
<1> QED BY <1>3, <1>4, <1>6, <1>7

\* The causal metrics of the pack are the same under other names.
LEMMA CausalRowsNamed ==
    ASSUME NEW A, NEW B, NEW b, NamedRows(A, B, b), Naming(b), MetricsRational(A),
           NEW P, NEW N, NamedBy(P, N, b), IsFiniteSet(DOMAIN P),
           \A t \in DOMAIN P : P[t][Causal] \in Nat
    PROVE  CausalRows(B, N) = CausalRows(A, P)
<1> DEFINE names(R) == UNION {DOMAIN R[i].metrics : i \in Canonical(R)}
<1>1. \A R, M : CausalRows(R, M) = [m \in names(R) |-> MetricRow(R, M, m)]
  BY DEF CausalRows, MetricRow, Measured, MetricOf, WithMetric, CausalWeight
<1>2. Canonical(B) = Canonical(A) /\ Canonical(A) \subseteq DOMAIN A
  BY DEF Canonical, NamedRows
<1>3. names(B) = names(A)
  BY <1>2 DEF NamedRows
<1>4. DOMAIN P \subseteq DOMAIN Templates /\ DOMAIN N = {b[t] : t \in DOMAIN P}
      /\ \A t \in DOMAIN P : N[b[t]] = P[t]
  BY DEF NamedBy
<1>5. ASSUME NEW m PROVE MetricRow(B, N, m) = MetricRow(A, P, m)
  <2> DEFINE S == Measured(A, P, m)
             U == Measured(B, N, m)
             f == [t \in S |-> MetricOf(A, t, m)]
             g == [t \in U |-> MetricOf(B, t, m)]
             v == [t \in S |-> CausalWeight(P, t)]
             w == [t \in U |-> CausalWeight(N, t)]
  <2>1. \A t \in DOMAIN P : /\ WithMetric(B, b[t], m) = WithMetric(A, t, m)
                            /\ MetricOf(B, b[t], m) = MetricOf(A, t, m)
                            /\ MetricOf(A, t, m) \in Rational
    BY <1>4, MetricOfNamed
  <2>2. U = {b[t] : t \in S}
    BY <1>4, <2>1 DEF Measured
  <2>3. S \subseteq DOMAIN P /\ IsFiniteSet(S)
    BY FS_Subset DEF Measured
  <2>4. \A x, y \in S : b[x] = b[y] => x = y
    BY <1>4, <2>3 DEF Naming
  <2>5. \A t \in S : CausalWeight(N, b[t]) = CausalWeight(P, t) /\ CausalWeight(P, t) \in Nat
    BY <1>4, <2>3 DEF CausalWeight
  <2>6. \A x \in S : /\ f[x] \in Rational /\ v[x] \in Nat
                     /\ g[b[x]] = f[x] /\ w[b[x]] = v[x]
    <3> HIDE DEF S, U
    <3>1. \A x \in S : b[x] \in U /\ x \in DOMAIN P
      BY <2>2, <2>3
    <3> QED BY <2>1, <2>5, <3>1
  <2>7. f = [x \in S |-> f[x]] /\ v = [x \in S |-> v[x]]
        /\ g = [y \in U |-> g[y]] /\ w = [y \in U |-> w[y]]
    OBVIOUS
  <2>8. MetricRow(A, P, m) = WeightedMean(f, v) /\ MetricRow(B, N, m) = WeightedMean(g, w)
    BY DEF MetricRow
  <2> HIDE DEF S, U, f, g, v, w
  <2>9. TermsRenamed(S, f, v, U, g, w, b)
    BY <2>2, <2>3, <2>4, <2>6, <2>7 DEF TermsRenamed
  <2> QED BY <2>8, <2>9, WeightedMeanRenamed
<1>6. [m \in names(B) |-> MetricRow(B, N, m)] = [m \in names(A) |-> MetricRow(A, P, m)]
  <2> HIDE DEF names
  <2> QED BY <1>3, <1>5
<1> HIDE DEF names
<1> QED BY <1>1, <1>6

\* The Templates of a report, and the curve of one of them.
Ids(rows) == {rows[i].template : i \in DOMAIN rows}
AtRung(rows, t, g) == {i \in DOMAIN rows : rows[i].template = t /\ rows[i].rung = g}
Curve(rows, t) ==
    [g \in {h \in Rungs : AtRung(rows, t, h) # {}} |->
        Mean([i \in AtRung(rows, t, g) |-> rows[i].full])]

\* The curves under the public names, in their order.
CurvesNamed(A, B, b) ==
    /\ DOMAIN Retention(B) = DOMAIN Retention(A)
    /\ Retention(B) = [n \in DOMAIN Retention(A) |-> Retention(B)[n]]
    /\ \A n \in DOMAIN Retention(A) :
         \E t, curve : /\ Retention(A)[n] = [template |-> t, curve |-> curve]
                       /\ Retention(B)[n] = [template |-> b[t], curve |-> curve]

\* The ids of finitely many rows are finitely many.
LEMMA IdsAreFinite ==
    ASSUME NEW rows, NEW S, IsFiniteSet(S)
    PROVE  IsFiniteSet({rows[i].template : i \in S})
<1> DEFINE c == [i \in S |-> rows[i].template]
           I == {c[i] : i \in S}
<1>1. IsFiniteSet(I)
  <2> HIDE DEF c
  <2> QED BY ImageIsFinite
<1>2. I = {rows[i].template : i \in S}
  OBVIOUS
<1> QED BY <1>1, <1>2

\* retention_block sorts by id: where the names keep the order, the curves are in place.
LEMMA RetentionNamed ==
    ASSUME NEW A, NEW B, NEW b, NamedRows(A, B, b), Naming(b), IsFiniteSet(DOMAIN A),
           KeepsOrder(b, Ids(A))
    PROVE  CurvesNamed(A, B, b)
<1>1. \A R : Retention(R) = [n \in DOMAIN Ascending(Ids(R)) |->
                               [template |-> Ascending(Ids(R))[n],
                                curve |-> Curve(R, Ascending(Ids(R))[n])]]
  BY DEF Retention, Ids, Curve, AtRung
<1>2. IsFiniteSet(Ids(A)) /\ Ids(A) \subseteq DOMAIN Templates
  BY IdsAreFinite DEF Ids, NamedRows
<1>3. Ids(B) = {b[t] : t \in Ids(A)}
  BY DEF Ids, NamedRows
<1>4. ASSUME NEW t \in DOMAIN Templates PROVE Curve(B, b[t]) = Curve(A, t)
  <2>1. \A g : AtRung(B, b[t], g) = AtRung(A, t, g)
    BY DEF AtRung, NamedRows, Naming
  <2>2. ASSUME NEW g
        PROVE  [i \in AtRung(B, b[t], g) |-> B[i].full] = [i \in AtRung(A, t, g) |-> A[i].full]
    <3>1. \A i \in AtRung(A, t, g) : B[i].full = A[i].full
      BY DEF AtRung, NamedRows
    <3> QED BY <2>1, <3>1
  <2> QED BY <2>1, <2>2 DEF Curve
<1>5. /\ DOMAIN Ascending(Ids(B)) = DOMAIN Ascending(Ids(A))
      /\ \A n \in DOMAIN Ascending(Ids(A)) :
           /\ Ascending(Ids(A))[n] \in Ids(A)
           /\ Ascending(Ids(B))[n] = b[Ascending(Ids(A))[n]]
  BY <1>2, <1>3, AscendingRenamed DEF NamedInOrder
<1>6. ASSUME NEW n \in DOMAIN Ascending(Ids(A))
      PROVE  \E t, curve : /\ Retention(A)[n] = [template |-> t, curve |-> curve]
                           /\ Retention(B)[n] = [template |-> b[t], curve |-> curve]
  <2> DEFINE t == Ascending(Ids(A))[n]
  <2>1. /\ Retention(A)[n] = [template |-> t, curve |-> Curve(A, t)]
        /\ Retention(B)[n] = [template |-> b[t], curve |-> Curve(B, b[t])]
    BY <1>1, <1>5
  <2>2. Curve(B, b[t]) = Curve(A, t)
    <3>1. t \in DOMAIN Templates
      BY <1>2, <1>5
    <3> HIDE DEF t
    <3> QED BY <1>4, <3>1
  <2> HIDE DEF t
  <2> QED BY <2>1, <2>2
<1>7. DOMAIN Retention(A) = DOMAIN Ascending(Ids(A))
      /\ DOMAIN Retention(B) = DOMAIN Ascending(Ids(B))
      /\ Retention(B) = [n \in DOMAIN Retention(B) |-> Retention(B)[n]]
  BY <1>1
<1> QED BY <1>5, <1>6, <1>7 DEF CurvesNamed

\* The Instances behind the gate of a Dimension, those of one of their Templates, and
\* the worst effect among these.
Gated(rows, d) == {i \in Canonical(rows) : d \in DOMAIN rows[i].joint}
Strata(rows, d) == {rows[i].template : i \in Gated(rows, d)}
Stratum(rows, d, t) == {i \in Gated(rows, d) : rows[i].template = t}
Worst(rows, d, t) ==
    CHOOSE x \in {rows[i].joint[d].effect : i \in Stratum(rows, d, t)} :
        \A i \in Stratum(rows, d, t) : QLeq(x, rows[i].joint[d].effect)
Draw(rows, d, t) == {<<i.seed, rows[i].joint[d].effect>> : i \in Stratum(rows, d, t)}
GateRow(rows, d) ==
    LET total == Weight([i \in Gated(rows, d) |-> rows[i].joint[d].total])
        valid == Weight([i \in Gated(rows, d) |-> rows[i].joint[d].valid])
        complete == {i \in Gated(rows, d) : rows[i].joint[d].valid = rows[i].joint[d].total}
    IN  [eligible |-> IF valid = 0 THEN None
                      ELSE /\ Cardinality(complete) >= Profile.minInstances
                           /\ valid = total
                           /\ QLeq(Profile.floor,
                                   Mean([t \in Strata(rows, d) |-> Worst(rows, d, t)])),
         valid |-> valid, total |-> total,
         draws |-> [n \in DOMAIN Ascending(Strata(rows, d)) |->
                      Draw(rows, d, Ascending(Strata(rows, d))[n])]]

\* What a row needs for its effects to be compared and averaged.
EffectsRational(rows) ==
    /\ IsFiniteSet(DOMAIN rows)
    /\ \A i \in DOMAIN rows : \A d \in DOMAIN rows[i].joint :
         rows[i].joint[d].effect \in Rational

\* joint_dependence, Dimension by Dimension.
LEMMA DependenceIs ==
    ASSUME NEW rows
    PROVE  Dependence(rows) =
             [d \in {e \in DOMAIN Profile.dims : Profile.dims[e] > 0} |-> GateRow(rows, d)]
BY DEF Dependence, GateRow, Gated, Strata, Stratum, Worst, Draw

\* A stratum is the same under another name, and has a worst effect.
LEMMA StratumNamed ==
    ASSUME NEW A, NEW B, NEW b, NamedRows(A, B, b), Naming(b), EffectsRational(A), NEW d
    PROVE  /\ Gated(B, d) = Gated(A, d) /\ Gated(A, d) \subseteq DOMAIN A
           /\ Strata(A, d) \subseteq DOMAIN Templates
           /\ Strata(B, d) = {b[t] : t \in Strata(A, d)}
           /\ \A t \in Strata(A, d) : /\ Worst(B, d, b[t]) = Worst(A, d, t)
                                      /\ Worst(A, d, t) \in Rational
                                      /\ Draw(B, d, b[t]) = Draw(A, d, t)
<1>1. Canonical(B) = Canonical(A) /\ Canonical(A) \subseteq DOMAIN A
  BY DEF Canonical, NamedRows
<1>2. Gated(B, d) = Gated(A, d) /\ Gated(A, d) \subseteq DOMAIN A
  BY <1>1 DEF Gated, NamedRows
<1>3. Strata(A, d) \subseteq DOMAIN Templates /\ Strata(B, d) = {b[t] : t \in Strata(A, d)}
  BY <1>2 DEF Strata, NamedRows
<1>4. ASSUME NEW t \in Strata(A, d)
      PROVE  /\ Worst(B, d, b[t]) = Worst(A, d, t) /\ Worst(A, d, t) \in Rational
             /\ Draw(B, d, b[t]) = Draw(A, d, t)
  <2> DEFINE S == Stratum(A, d, t)
             e == [i \in S |-> A[i].joint[d].effect]
  <2>1. Stratum(B, d, b[t]) = S
    BY <1>2, <1>3 DEF Stratum, NamedRows, Naming
  <2>2. S \subseteq DOMAIN A /\ S # {} /\ IsFiniteSet(S) /\ S \subseteq Gated(A, d)
    BY <1>2, FS_Subset DEF Stratum, Strata, EffectsRational
  <2>3. \A i \in S : B[i].joint = A[i].joint /\ A[i].joint[d].effect \in Rational
    BY <2>2 DEF NamedRows, EffectsRational, Gated
  <2>4. Draw(B, d, b[t]) = Draw(A, d, t)
    BY <2>1, <2>3 DEF Draw
  <2>5. {B[i].joint[d].effect : i \in S} = {A[i].joint[d].effect : i \in S}
    BY <2>3, SMTT(60)
  <2>6. Worst(B, d, b[t]) =
          CHOOSE x \in {A[i].joint[d].effect : i \in S} :
              \A i \in S : QLeq(x, A[i].joint[d].effect)
    BY <2>1, <2>3, <2>5 DEF Worst
  <2>7. Worst(A, d, t) =
          CHOOSE x \in {A[i].joint[d].effect : i \in S} :
              \A i \in S : QLeq(x, A[i].joint[d].effect)
    BY DEF Worst
  <2>8. Worst(A, d, t) \in Rational
    <3>1. \A i \in S : e[i] = A[i].joint[d].effect /\ e[i] \in Rational
      BY <2>3
    <3> HIDE DEF S, e
    <3>2. \E y \in S : \A i \in S : QLeq(e[y], e[i])
      BY <2>2, <3>1, LeastExists
    <3>3. \E x \in {A[i].joint[d].effect : i \in S} : \A i \in S : QLeq(x, A[i].joint[d].effect)
      BY <3>1, <3>2
    <3>4. Worst(A, d, t) \in {A[i].joint[d].effect : i \in S}
      BY <2>7, <3>3
    <3> QED BY <2>3, <3>4
  <2> QED BY <2>4, <2>6, <2>7, <2>8
<1> QED BY <1>2, <1>3, <1>4

\* The gate of every Dimension is the same, and it draws from the strata in one order.
LEMMA DependenceNamed ==
    ASSUME NEW A, NEW B, NEW b, NamedRows(A, B, b), Naming(b), EffectsRational(A),
           KeepsOrder(b, Ids(A))
    PROVE  Dependence(B) = Dependence(A)
<1>1. ASSUME NEW d PROVE GateRow(B, d) = GateRow(A, d)
  <2> DEFINE S == Gated(A, d)
             T == Strata(A, d)
             U == Strata(B, d)
             f == [t \in T |-> Worst(A, d, t)]
             g == [t \in U |-> Worst(B, d, t)]
             total(R) == Weight([i \in S |-> R[i].joint[d].total])
             valid(R) == Weight([i \in S |-> R[i].joint[d].valid])
             complete(R) == {i \in S : R[i].joint[d].valid = R[i].joint[d].total}
             draws(R, V) == [n \in DOMAIN Ascending(V) |-> Draw(R, d, Ascending(V)[n])]
             row(t, v, c, m, w) ==
                 [eligible |-> IF v = 0 THEN None
                               ELSE /\ Cardinality(c) >= Profile.minInstances
                                    /\ v = t /\ QLeq(Profile.floor, m),
                  valid |-> v, total |-> t, draws |-> w]
  <2>1. /\ Gated(B, d) = S /\ S \subseteq DOMAIN A /\ T \subseteq DOMAIN Templates
        /\ U = {b[t] : t \in T}
        /\ \A t \in T : /\ Worst(B, d, b[t]) = Worst(A, d, t)
                        /\ Worst(A, d, t) \in Rational
                        /\ Draw(B, d, b[t]) = Draw(A, d, t)
    BY StratumNamed
  <2>2. /\ GateRow(A, d) = row(total(A), valid(A), complete(A), Mean(f), draws(A, T))
        /\ GateRow(B, d) = row(total(B), valid(B), complete(B), Mean(g), draws(B, U))
    BY <2>1 DEF GateRow
  <2>3. \A i \in S : B[i].joint = A[i].joint
    BY <2>1 DEF NamedRows
  <2>4. total(B) = total(A) /\ valid(B) = valid(A) /\ complete(B) = complete(A)
    <3>1. [i \in S |-> B[i].joint[d].total] = [i \in S |-> A[i].joint[d].total]
      BY <2>3
    <3>2. [i \in S |-> B[i].joint[d].valid] = [i \in S |-> A[i].joint[d].valid]
      BY <2>3
    <3>3. complete(B) = complete(A)
      BY <2>3
    <3> QED BY <3>1, <3>2, <3>3
  <2>5. IsFiniteSet(T)
    <3>1. IsFiniteSet(S)
      BY <2>1, FS_Subset DEF EffectsRational
    <3> HIDE DEF S
    <3>2. IsFiniteSet({A[i].template : i \in S})
      BY <3>1, IdsAreFinite
    <3> QED BY <3>2 DEF Strata, S
  <2>6. Mean(g) = Mean(f)
    <3>1. \A x, y \in T : b[x] = b[y] => x = y
      BY <2>1 DEF Naming
    <3>2. f = [x \in T |-> f[x]] /\ g = [y \in U |-> g[y]] /\ DOMAIN f = T
      OBVIOUS
    <3>3. \A x \in T : f[x] \in Rational /\ g[b[x]] = f[x]
      BY <2>1
    <3> HIDE DEF f, g, T, U
    <3>4. Summable(f)
      BY <2>5, <3>2, <3>3 DEF Summable
    <3> QED BY <2>1, <3>1, <3>2, <3>3, <3>4, MeanRenamed
  <2>7. draws(B, U) = draws(A, T)
    <3>1. KeepsOrder(b, T)
      <4>1. T \subseteq Ids(A)
        BY <2>1 DEF Strata, Ids
      <4> HIDE DEF T
      <4> QED BY <4>1 DEF KeepsOrder
    <3>0. U = {b[t] : t \in T}
      BY <2>1
    <3> HIDE DEF T, U
    <3>2. /\ DOMAIN Ascending(U) = DOMAIN Ascending(T)
          /\ \A n \in DOMAIN Ascending(T) :
               Ascending(T)[n] \in T /\ Ascending(U)[n] = b[Ascending(T)[n]]
      <4>1. NamedInOrder(T, U, b)
        BY <2>5, <3>0, <3>1, AscendingRenamed
      <4> QED BY <4>1 DEF NamedInOrder
    <3>3. \A n \in DOMAIN Ascending(T) :
            Draw(B, d, Ascending(U)[n]) = Draw(A, d, Ascending(T)[n])
      BY <2>1, <3>2
    <3> QED BY <3>2, <3>3
  <2> HIDE DEF f, g, total, valid, complete, draws, T, U, S
  <2> QED BY <2>2, <2>4, <2>6, <2>7
<1>2. [d \in {e \in DOMAIN Profile.dims : Profile.dims[e] > 0} |-> GateRow(B, d)] =
        [d \in {e \in DOMAIN Profile.dims : Profile.dims[e] > 0} |-> GateRow(A, d)]
  BY <1>1
<1> QED BY <1>2, DependenceIs

\* All observations of causal_metrics_by_dimension are fractions, and finitely many.
LEMMA ObservationsType ==
    ASSUME NEW R, Recorded(R), NEW K, NEW name \in MetricNames
    PROVE  Mean(Observations(R, Comparisons(R, K), name)) \in Rational
<1> DEFINE C == Comparisons(R, K)
           deltas(kinds) == [k \in Of(C, kinds) |-> Delta(C[k])]
           harms == [k \in Of(C, {"harmful"}) |-> QMax(Zero, Delta(C[k]))]
           tracked == [kp \in Tracked(R, C) |->
                          IF QLeq(One, R[kp[1]].probes[kp[2]].score) THEN One ELSE Zero]
<1>1. \A k \in DOMAIN C : Delta(C[k]) \in Rational
  BY ComparisonType, Closed DEF Delta
<1>2. \A kinds : Of(C, kinds) \subseteq DOMAIN C /\ IsFiniteSet(Of(C, kinds))
  BY ComparisonsAreFinite DEF Of
<1>3. CASE name \in Credited
  <2> DEFINE O == Observations(R, C, name)
  <2>1. Summable(O)
    BY <1>3, ObservedType
  <2> HIDE DEF O
  <2>2. Mean(O) \in Rational
    BY <2>1, MeanType DEF Summable
  <2> QED BY <2>2 DEF O
<1>4. \A kinds : Mean(deltas(kinds)) \in Rational
  <2> SUFFICES ASSUME NEW kinds PROVE Mean(deltas(kinds)) \in Rational
    OBVIOUS
  <2> DEFINE f == deltas(kinds)
  <2>1. DOMAIN f = Of(C, kinds) /\ \A k \in DOMAIN f : f[k] \in Rational
    BY <1>1, <1>2
  <2> HIDE DEF f
  <2>2. Mean(f) \in Rational
    BY <1>2, <2>1, MeanType
  <2> QED BY <2>2 DEF f
<1>5. Mean(harms) \in Rational
  <2>1. DOMAIN harms = Of(C, {"harmful"}) /\ \A k \in DOMAIN harms : harms[k] \in Rational
    BY <1>1, <1>2, Closed, Units
  <2> HIDE DEF harms
  <2> QED BY <1>2, <2>1, MeanType
<1>6. Mean(tracked) \in Rational
  <2> DEFINE Ps == UNION {DOMAIN ProbesOf(j) : j \in DOMAIN C}
  <2>1. IsFiniteSet(Ps)
    <3> DEFINE c == [j \in DOMAIN C |-> DOMAIN ProbesOf(j)]
               I == {c[j] : j \in DOMAIN C}
    <3>1. IsFiniteSet(DOMAIN C) /\ \A j \in DOMAIN C : j \in DOMAIN R
      BY ComparisonsAreFinite, ComparisonType
    <3>2. \A j \in DOMAIN C : IsFiniteSet(DOMAIN ProbesOf(j))
      BY <3>1, KeyIs, PackAssumption DEF Recorded, ProbesOf
    <3>3. IsFiniteSet(I)
      <4> HIDE DEF c, C
      <4> QED BY <3>1, ImageIsFinite
    <3>4. \A X \in I : IsFiniteSet(X)
      BY <3>2
    <3>5. Ps = UNION I
      OBVIOUS
    <3> HIDE DEF I, Ps
    <3> QED BY <3>3, <3>4, <3>5, FS_UNION
  <2>2. IsFiniteSet(Tracked(R, C))
    <3>1. IsFiniteSet(Of(C, {"twin"}) \X Ps)
      <4> HIDE DEF Ps, C
      <4> QED BY <1>2, <2>1, FS_Product
    <3>2. Tracked(R, C) \subseteq Of(C, {"twin"}) \X Ps
      BY DEF Tracked
    <3> HIDE DEF Ps, C
    <3> QED BY <3>1, <3>2, FS_Subset
  <2>3. DOMAIN tracked = Tracked(R, C) /\ \A kp \in DOMAIN tracked : tracked[kp] \in Rational
    BY Units
  <2> HIDE DEF tracked
  <2> QED BY <2>2, <2>3, MeanType
<1>7. /\ name = "memory_benefit" => Observations(R, C, name) = deltas({"relevant", "no_memory"})
      /\ name = "memory_harm" => Observations(R, C, name) = harms
      /\ name = "tracking" => Observations(R, C, name) = tracked
      /\ name = "consolidation" => Observations(R, C, name) = deltas({"no_maintenance"})
  BY DEF Observations
<1> HIDE DEF deltas, harms, tracked
<1>8. CASE name \notin Credited
  <2>1. name \in {"memory_benefit", "memory_harm", "tracking", "consolidation"}
    BY <1>8 DEF MetricNames, Credited
  <2> HIDE DEF C
  <2> QED BY <1>4, <1>5, <1>6, <1>7, <2>1 DEF C
<1> QED BY <1>3, <1>8

\* What the aggregates take means over.
DimsRational(rows) ==
    /\ IsFiniteSet(DOMAIN rows)
    /\ \A i \in DOMAIN rows : \A d \in DOMAIN rows[i].dims : rows[i].dims[d] \in Rational

\* The scores of an Instance in its Dimensions are fractions.
LEMMA DimensionScoresType ==
    ASSUME NEW R, Recorded(R), NEW i \in Instances(R),
           NEW d \in DOMAIN DimensionScores(R, i.template, Fulls(R, i), Metrics(R, Keys(R, i)))
    PROVE  DimensionScores(R, i.template, Fulls(R, i), Metrics(R, Keys(R, i)))[d] \in Rational
<1> DEFINE t == i.template
           K == Fulls(R, i)
           M == Metrics(R, Keys(R, i))
           D == DimensionScores(R, t, K, M)
           plain == PlainOf(R, t, K)
<1>1. D = WithCausal(t, M, plain)
  BY PlainScores
<1>2. CASE d = Causal
  <2>1. CausalScore(M) # None /\ D[Causal] = CausalScore(M)
    BY <1>2, CausalIsTheScore
  <2>2. "hmb" \in DOMAIN M
    BY <2>1 DEF CausalScore
  <2>3. ASSUME NEW m \in DOMAIN M PROVE M[m].value \in Rational
    <3>1. m \in MetricNames
      BY TableIs DEF Metrics, MetricsOf, MeansOf
    <3>2. M[m].value = Mean(Observations(R, Comparisons(R, Keys(R, i)), m))
      BY MetricIs
    <3> QED BY <3>1, <3>2, ObservationsType
  <2> HIDE DEF M, D
  <2>4. PICK x \in Rational : CausalScore(M) = QMul(M["hmb"].value, x)
    BY <2>2, <2>3, CausalMean
  <2>5. D[Causal] \in Rational
    BY <2>1, <2>2, <2>3, <2>4, Closed
  <2> QED BY <1>2, <2>5 DEF D, M
<1>3. CASE d # Causal
  <2>1. DOMAIN D \subseteq (Templates[t].dims \ {Causal}) \cup {Causal}
    <3>1. WithCausal(t, M, plain) = IF Causal \in Templates[t].dims /\ CausalScore(M) # None
                                    THEN Put(plain, Causal, CausalScore(M)) ELSE plain
      BY TableIs DEF WithCausal
    <3>2. DOMAIN plain = Templates[t].dims \ {Causal}
      BY DEF PlainOf
    <3> HIDE DEF plain, M
    <3> QED BY <1>1, <3>1, <3>2 DEF Put
  <2>2. d \in Templates[t].dims \ {Causal}
    BY <1>3, <2>1
  <2> DEFINE f == [k \in K |-> TaggedScore(R, k, d)]
  <2>3. D[d] = Mean(f)
    <3>1. D[d] = plain[d]
      BY <2>2, PlainScores
    <3>2. plain[d] = Mean(f)
      BY <2>2 DEF PlainOf
    <3> QED BY <3>1, <3>2
  <2>4. DOMAIN f = K /\ IsFiniteSet(K) /\ \A k \in K : f[k] \in Rational
    BY FullRuns, ScoresAreLowest DEF Lowest
  <2> HIDE DEF f, K
  <2>5. Mean(f) \in Rational
    BY <2>4, MeanType
  <2> QED BY <2>3, <2>5 DEF K
<1> QED BY <1>2, <1>3

\* What the aggregates of a report rest on.
RowsOf(R, rows) ==
    /\ DOMAIN rows = Instances(R)
    /\ MetricsRational(rows) /\ EffectsRational(rows) /\ DimsRational(rows)
    /\ \A i \in DOMAIN rows :
         /\ rows[i].template = i.template /\ i.template \in DOMAIN Templates
         /\ \E g, full, dims, metrics, joint :
              rows[i] = [template |-> i.template, rung |-> g, full |-> full, dims |-> dims,
                         metrics |-> metrics, joint |-> joint]

\* The Instance rows of recorded runs have nothing but fractions in them.
LEMMA RowsAre ==
    ASSUME NEW R, Recorded(R)
    PROVE  RowsOf(R, InstanceRows(R))
<1> DEFINE rows == InstanceRows(R)
           M(i) == Metrics(R, Keys(R, i))
           D(i) == DimensionScores(R, i.template, Fulls(R, i), M(i))
<1>1. /\ DOMAIN rows = Instances(R)
      /\ \A i \in Instances(R) :
           rows[i] = [template |-> i.template, rung |-> i.rung, full |-> InstanceScore(R, i),
                      dims |-> D(i), metrics |-> M(i), joint |-> JointEvidence(R, i)]
  BY TableIs DEF InstanceRows, InstanceRow
<1>2. IsFiniteSet(Instances(R))
  <2> DEFINE c == [k \in DOMAIN R |-> Instance(k)]
             I == {c[k] : k \in DOMAIN R}
  <2>1. IsFiniteSet(I)
    <3> HIDE DEF c
    <3> QED BY ImageIsFinite DEF Recorded
  <2>2. I = Instances(R)
    BY DEF Instances
  <2> QED BY <2>1, <2>2
<1>3. ASSUME NEW i \in Instances(R) PROVE i.template \in DOMAIN Templates
  <2>1. PICK k \in DOMAIN R : i = Instance(k)
    BY DEF Instances
  <2> QED BY <2>1, KeyIs DEF Recorded, Instance
<1>4. ASSUME NEW i \in Instances(R), NEW m \in DOMAIN M(i) PROVE M(i)[m].value \in Rational
  <2>1. m \in MetricNames
    BY TableIs DEF Metrics, MetricsOf, MeansOf
  <2>2. M(i)[m].value = Mean(Observations(R, Comparisons(R, Keys(R, i)), m))
    BY MetricIs
  <2> QED BY <2>1, <2>2, ObservationsType
<1>5. ASSUME NEW i \in Instances(R), NEW d \in DOMAIN JointEvidence(R, i)
      PROVE  JointEvidence(R, i)[d].effect \in Rational
  <2> DEFINE all == OpportunitiesOf(R, i, d)
             effects == [kp \in all |-> Q(Following(R, kp), 1)]
  <2>1. JointEvidence(R, i)[d] = JointRow(R, all)
    BY TableIs DEF JointEvidence
  <2>2. IsFiniteSet(all)
    BY OpportunitiesAre
  <2>3. \A kp \in all : Following(R, kp) \in Int
    BY DEF Following
  <2>4. DOMAIN effects = all /\ JointRow(R, all).effect = Mean(effects)
        /\ \A kp \in all : effects[kp] \in Rational
    BY <2>3, QIs DEF JointRow, IsValue
  <2> HIDE DEF effects, all
  <2> QED BY <2>1, <2>2, <2>4, MeanType
<1>6. \A i \in Instances(R) : \A d \in DOMAIN D(i) : D(i)[d] \in Rational
  BY DimensionScoresType
<1> HIDE DEF rows, M, D
<1>7. MetricsRational(rows)
  BY <1>1, <1>2, <1>4 DEF MetricsRational
<1>8. EffectsRational(rows)
  BY <1>1, <1>2, <1>5 DEF EffectsRational
<1>9. DimsRational(rows)
  BY <1>1, <1>2, <1>6 DEF DimsRational
<1>10. RowsOf(R, rows)
  BY <1>1, <1>3, <1>7, <1>8, <1>9 DEF RowsOf
<1> QED BY <1>10 DEF rows

\* So have the Template rows.
LEMMA TemplateDimsType ==
    ASSUME NEW rows, DimsRational(rows), NEW policy, NEW t \in DOMAIN TemplateRows(rows, policy),
           NEW d \in DOMAIN TemplateRows(rows, policy)[t].dims
    PROVE  TemplateRows(rows, policy)[t].dims[d] \in Rational
<1> DEFINE S == {i \in OfTemplate(rows, t) : d \in DOMAIN rows[i].dims}
           f == [i \in S |-> rows[i].dims[d]]
<1>1. TemplateRows(rows, policy)[t].dims[d] = Mean(f)
  <2>1. TemplateRows(rows, policy)[t] = TemplateRow(rows, t)
    BY TableIs DEF TemplateRows
  <2> DEFINE dims == UNION {DOMAIN rows[i].dims : i \in OfTemplate(rows, t)}
             with(e) == {i \in OfTemplate(rows, t) : e \in DOMAIN rows[i].dims}
             score(e) == Mean([i \in with(e) |-> rows[i].dims[e]])
  <2>2. TemplateRow(rows, t).dims = [e \in dims |-> score(e)]
    BY TableIs DEF TemplateRow
  <2>3. score(d) = Mean(f)
    OBVIOUS
  <2> HIDE DEF dims, score, f
  <2>4. d \in dims
    BY <2>1, <2>2
  <2> QED BY <2>1, <2>2, <2>3, <2>4
<1>2. S \subseteq DOMAIN rows
  BY DEF OfTemplate, Canonical
<1>3. IsFiniteSet(S) /\ DOMAIN f = S /\ \A i \in S : f[i] \in Rational
  BY <1>2, FS_Subset DEF DimsRational
<1> HIDE DEF f, S
<1> QED BY <1>1, <1>3, MeanType

\* redact_report_for_public names what a report says of its Templates.
LEMMA RenamedIs ==
    ASSUME NEW b, Naming(b), \A t \in DOMAIN Templates : Alias(t) = b[t],
           NEW f, DOMAIN f \subseteq DOMAIN Templates
    PROVE  NamedBy(f, Renamed(f), b)
<1> DEFINE I == {Alias(t) : t \in DOMAIN f}
           g == [a \in I |-> f[CHOOSE t \in DOMAIN f : Alias(t) = a]]
<1>1. I = {b[t] : t \in DOMAIN f}
  OBVIOUS
<1>2. ASSUME NEW t \in DOMAIN f PROVE g[b[t]] = f[t]
  <2>1. b[t] \in I
    BY <1>1
  <2>2. (CHOOSE s \in DOMAIN f : Alias(s) = b[t]) = t
    BY DEF Naming
  <2> QED BY <2>1, <2>2
<1>3. DOMAIN g = I /\ g = [x \in I |-> g[x]] /\ Renamed(f) = g
  BY DEF Renamed
<1> HIDE DEF g, I
<1> QED BY <1>1, <1>2, <1>3 DEF NamedBy

\* The rows of the public copy are the rows under the public names.
LEMMA PublicRows ==
    ASSUME NEW R, Recorded(R)
    PROVE  NamedRows(InstanceRows(R), [i \in DOMAIN InstanceRows(R) |-> Named(InstanceRows(R)[i])],
                     cfg.aliases)
<1> DEFINE A == InstanceRows(R)
           B == [i \in DOMAIN A |-> Named(A[i])]
<1>1. RowsOf(R, A)
  BY RowsAre
<1> HIDE DEF A
<1>2. ASSUME NEW i \in DOMAIN A
      PROVE  /\ A[i].template \in DOMAIN Templates /\ B[i].template = cfg.aliases[A[i].template]
             /\ B[i].rung = A[i].rung /\ B[i].full = A[i].full /\ B[i].dims = A[i].dims
             /\ B[i].metrics = A[i].metrics /\ B[i].joint = A[i].joint
  <2>1. PICK g, full, dims, metrics, joint :
          A[i] = [template |-> i.template, rung |-> g, full |-> full, dims |-> dims,
                  metrics |-> metrics, joint |-> joint]
    BY <1>1 DEF RowsOf
  <2>2. A[i].template \in DOMAIN Templates
    BY <1>1 DEF RowsOf
  <2>3. B[i] = [A[i] EXCEPT !.template = cfg.aliases[A[i].template]]
    BY DEF Named, Alias
  <2> QED BY <2>1, <2>2, <2>3
<1>3. NamedRows(A, B, cfg.aliases)
  BY <1>2 DEF NamedRows
<1> QED BY <1>3 DEF A

\* Everything verify_score derives from the public rows is what it derives from the
\* private ones, under the public names.
LEMMA DerivedNamed ==
    ASSUME NEW A, NEW B, NamedRows(A, B, cfg.aliases), Naming(cfg.aliases),
           KeepsOrder(cfg.aliases, Ids(A)),
           MetricsRational(A), EffectsRational(A), DimsRational(A),
           NEW official, NEW failures
    PROVE  Derived(B, Renamed(Policy), official, failures) =
             PublicDerived(Derived(A, Policy, official, failures))
<1> DEFINE b == cfg.aliases
           N == Renamed(Policy)
           T == TemplateRows(A, Policy)
           G == TemplateRows(B, N)
           full(rows, policy, templates, dims) ==
             LET coverage == WeightedMean([d \in DOMAIN Profile.dims |-> dims[d].coverage], Profile.dims)
                 dependence == Dependence(rows)
                 complete == coverage = One
             IN  [templates |-> templates,
                  dims |-> dims, score |-> ProfileScore(dims), causal |-> CausalRows(rows, policy),
                  retention |-> Retention(rows), dependence |-> dependence, coverage |-> coverage,
                  partial |-> ~complete,
                  official |-> /\ official /\ complete
                               /\ DependenceEligible(dependence) = TRUE
                               /\ QLeq(failures, Profile.maxFailures)]
<1>0. /\ Derived(A, Policy, official, failures) = full(A, Policy, T, DimensionRows(T, Policy))
      /\ Derived(B, N, official, failures) = full(B, N, G, DimensionRows(G, N))
  BY TableIs DEF Derived
<1>1. DOMAIN Policy = DOMAIN Templates /\ IsFiniteSet(DOMAIN Policy)
      /\ \A t \in DOMAIN Policy, d \in DOMAIN Profile.dims \cup {Causal} : Policy[t][d] \in Nat
  BY PackAssumption DEF Policy, Causal
<1>2. NamedBy(Policy, N, b)
  BY <1>1, RenamedIs DEF Alias
<1>3. NamedBy(T, G, b)
  <2> HIDE DEF N
  <2> QED BY <1>2, TemplateRowsNamed
<1>4. DOMAIN T \subseteq DOMAIN Policy
  BY TableIs DEF TemplateRows
<1>5. G = Renamed(T)
  <2>1. NamedBy(T, Renamed(T), b)
    <3> HIDE DEF T
    <3> QED BY <1>1, <1>4, RenamedIs DEF Alias
  <2> HIDE DEF T, G, N
  <2> QED BY <1>3, <2>1, NamedOnce
<1>6. DimensionRows(G, N) = DimensionRows(T, Policy)
  <2>1. \A t \in DOMAIN T : \A d \in DOMAIN T[t].dims : T[t].dims[d] \in Rational
    BY TemplateDimsType
  <2> HIDE DEF T, G, N
  <2>2. ASSUME NEW d \in DOMAIN Profile.dims
        PROVE  DimensionRow(G, N, d) = DimensionRow(T, Policy, d)
    <3>1. \A t \in DOMAIN Policy : Policy[t][d] \in Nat
      BY <1>1
    <3>2. \A t \in DOMAIN T : d \in DOMAIN T[t].dims => T[t].dims[d] \in Rational
      BY <2>1
    <3> QED BY <1>1, <1>2, <1>3, <1>4, <3>1, <3>2, DimensionRowNamed
  <2>3. [d \in DOMAIN Profile.dims |-> DimensionRow(G, N, d)] =
          [d \in DOMAIN Profile.dims |-> DimensionRow(T, Policy, d)]
    BY <2>2
  <2> QED BY <2>3, TableIs DEF DimensionRows
<1>7. CausalRows(B, N) = CausalRows(A, Policy)
  <2> HIDE DEF N
  <2>1. \A t \in DOMAIN Policy : Policy[t][Causal] \in Nat
    BY <1>1
  <2> QED BY <1>1, <1>2, <2>1, CausalRowsNamed
<1>8. Dependence(B) = Dependence(A)
  BY DependenceNamed
<1>9. Retention(B) = [n \in DOMAIN Retention(A) |-> Named(Retention(A)[n])]
  <2>1. CurvesNamed(A, B, b)
    BY RetentionNamed DEF EffectsRational
  <2>2. ASSUME NEW n \in DOMAIN Retention(A)
        PROVE  Retention(B)[n] = Named(Retention(A)[n])
    <3>1. PICK t, curve : /\ Retention(A)[n] = [template |-> t, curve |-> curve]
                          /\ Retention(B)[n] = [template |-> b[t], curve |-> curve]
      BY <2>1 DEF CurvesNamed
    <3>2. Named(Retention(A)[n]) = [template |-> b[t], curve |-> curve]
      BY <3>1 DEF Named, Alias
    <3> QED BY <3>1, <3>2
  <2>3. Retention(B) = [n \in DOMAIN Retention(A) |-> Retention(B)[n]]
    BY <2>1 DEF CurvesNamed
  <2> QED BY <2>2, <2>3
<1> HIDE DEF T, G, N
<1>10. full(B, N, G, DimensionRows(G, N)) = PublicDerived(full(A, Policy, T, DimensionRows(T, Policy)))
  BY <1>5, <1>6, <1>7, <1>8, <1>9 DEF PublicDerived
<1> QED BY <1>0, <1>10 DEF N

----------------------------------------------------------------------------
(* The verifier is exact *)

\* The Templates that were run were to be executed.
LEMMA IdsAreExecuted ==
    ASSUME NEW R, Recorded(R), DOMAIN R \subseteq Plan(cfg)
    PROVE  Ids(InstanceRows(R)) \subseteq Executed
<1> SUFFICES ASSUME NEW i \in DOMAIN InstanceRows(R)
             PROVE  InstanceRows(R)[i].template \in Executed
  BY DEF Ids
<1>1. i \in Instances(R) /\ InstanceRows(R)[i].template = i.template
  BY RowsAre DEF RowsOf
<1>2. PICK k \in DOMAIN R : i = Instance(k)
  BY <1>1 DEF Instances
<1>3. PICK u \in DOMAIN Templates, v \in Seeds, h \in Rungs, p \in Reps :
        /\ Templates[u].needs \subseteq cfg.capable
        /\ k \in {Key(u, v, h, p, c) : c \in {"full"} \cup Interventions(cfg, u, h)}
  BY DEF Plan
<1>4. k.template = u
  BY <1>3 DEF Key
<1> QED BY <1>1, <1>2, <1>3, <1>4 DEF Instance, Executed, Supported

\* verify_score accepts the public copy, of which it sees the rows alone.
LEMMA CopyIsAccepted ==
    ASSUME PackInv, ReportInv, EditInv, Written, public # NoReport, AliasesKeepOrder
    PROVE  Verify(public)
<1> DEFINE A == InstanceRows(runs)
           B == [i \in DOMAIN A |-> Named(A[i])]
           x == Derived(A, Policy, cfg.official, FailureRate(runs))
<1>1. /\ public = Redact(ReportOf(runs)) /\ DOMAIN runs \subseteq Plan(cfg) /\ Recorded(runs)
      /\ cfg \in Configs
  BY DEF EditInv, ReportInv, PackInv, Written
<1>2. \E a, g : ReportOf(runs) =
        [runs |-> a, rows |-> A, policy |-> Policy, official |-> cfg.official,
         failures |-> FailureRate(runs), derived |-> x, stats |-> g]
  BY DEF ReportOf, ReportOn, Assembled
<1>3. ReportRecord(ReportOf(runs)) /\ DerivedRecord(ReportOf(runs).derived)
  BY WrittenIsFaithful DEF Faithful
<1>4. RowsOf(runs, A)
  BY <1>1, RowsAre
<1>5. NamedRows(A, B, cfg.aliases)
  BY <1>1, PublicRows
<1>6. Naming(cfg.aliases)
  BY DEF AliasesKeepOrder, Naming
<1>7. KeepsOrder(cfg.aliases, Ids(A))
  <2>1. Ids(A) \subseteq Executed
    BY <1>1, IdsAreExecuted
  <2>2. Executed \subseteq DOMAIN Templates
    BY DEF Executed
  <2> HIDE DEF A
  <2> QED BY <1>1, <2>1, <2>2, PackAssumption DEF AliasesKeepOrder, KeepsOrder
<1> HIDE DEF A, B, x
<1>8. /\ public.runs = <<>> /\ public.rows = [i \in DOMAIN A |-> Named(A[i])]
      /\ public.policy = Renamed(Policy) /\ public.official = cfg.official
      /\ public.failures = FailureRate(runs) /\ public.derived = PublicDerived(x)
  BY <1>1, <1>2, <1>3, RedactIs DEF PublicCopy
<1>9. Derived(B, Renamed(Policy), cfg.official, FailureRate(runs)) = PublicDerived(x)
  <2>1. MetricsRational(A) /\ EffectsRational(A) /\ DimsRational(A)
    BY <1>4 DEF RowsOf
  <2> QED BY <1>5, <1>6, <1>7, <2>1, DerivedNamed DEF x
<1>10. public.rows = B
  BY <1>8 DEF B
<1> QED BY <1>8, <1>9, <1>10 DEF Verify

\* verify_score accepts what the harness writes and publishes - where the pack was run
\* in full, if the report has statistics, and where the aliases sort as the ids do -
\* and no edit of one figure or flag that changes the headline.
THEOREM VerifierIsExactHolds == Spec => []VerifierIsExact
<1>1. PackInv /\ ReportInv /\ EditInv => VerifierIsExact
  <2>1. PackInv /\ ReportInv => VerifierAcceptsWritten
    BY ReportIsAccepted DEF VerifierAcceptsWritten
  <2>2. PackInv /\ ReportInv /\ EditInv => VerifierAcceptsRenamed
    BY CopyIsAccepted DEF VerifierAcceptsRenamed
  <2>3. EditInv => VerifierKeepsHeadline
    BY EditsKeepHeadline
  <2> QED BY <2>1, <2>2, <2>3 DEF VerifierIsExact
<1>2. Init => EditInv
  BY InitEdit
<1>3. EditInv /\ ReportInv /\ PackInv /\ [Next]_vars => EditInv'
  BY StepEdit
<1> QED BY <1>1, <1>2, <1>3, ReportInvariant, PTL DEF Spec

=============================================================================
