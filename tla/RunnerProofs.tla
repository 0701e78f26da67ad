---------------------------- MODULE RunnerProofs ----------------------------
(***************************************************************************)
(* Theorems about Runner, for every scenario, condition, Agent and bound:  *)
(* what a run does after a lifecycle failure, that it releases every Agent *)
(* instance it built, that its sessions share only the state handed over,  *)
(* and that its world does not depend on the condition.                    *)
(***************************************************************************)
EXTENDS Runner, FiniteSets, Integers, SequencesExt, SequenceTheorems,
        FiniteSetTheorems, WellFoundedInduction, TLAPS

----------------------------------------------------------------------------
(* Induction *)

\* The least-number principle.
LEMMA LeastNumber ==
    ASSUME NEW T, T \subseteq Nat, T # {}
    PROVE  \E x \in T : \A y \in T : x <= y
<1> DEFINE R == {ss \in Nat \X Nat : ss[1] < ss[2]}
<1>1. IsWellFoundedOn(R, Nat)
  BY NatLessThanWellFounded DEF OpToRel
<1> HIDE DEF R
<1>2. PICK x \in T : \A y \in T : ~(<<y, x>> \in R)
  BY <1>1, WFMin
<1>3. \A y \in T : ~(y < x)
  BY <1>2 DEF R
<1> QED BY <1>3

\* What holds of 0 and of the successor of what it holds of, holds of every number.
LEMMA NatSetInduction ==
    ASSUME NEW N, N \subseteq Nat, 0 \in N, \A n \in N : n + 1 \in N
    PROVE  N = Nat
<1> SUFFICES ASSUME Nat \ N # {} PROVE FALSE
  OBVIOUS
<1>1. PICK x \in Nat \ N : \A y \in Nat \ N : x <= y
  BY LeastNumber
<1>2. x - 1 \in N
  BY <1>1
<1> QED BY <1>1, <1>2

----------------------------------------------------------------------------
(* FlattenSeq *)

\* The recursive function of FlattenSeq, up to n.
IsFlatten(s, n, f) == f = [i \in 1..n |-> IF i = 1 THEN s[i] ELSE f[i - 1] \o s[i]]

\* There is such a function for every sequence.
LEMMA FlattenExists ==
    ASSUME NEW s, NEW n \in Nat
    PROVE  \E f : IsFlatten(s, n, f)
<1> DEFINE N == {m \in Nat : \E f : IsFlatten(s, m, f)}
<1>1. 0 \in N
  <2>1. IsFlatten(s, 0, <<>>)
    BY DEF IsFlatten
  <2> QED BY <2>1
<1>2. ASSUME NEW m \in N PROVE m + 1 \in N
  <2>1. PICK f : IsFlatten(s, m, f)
    OBVIOUS
  <2> DEFINE g == [i \in 1..(m + 1) |-> IF i = m + 1
                                       THEN IF i = 1 THEN s[i] ELSE f[i - 1] \o s[i]
                                       ELSE f[i]]
             h == [i \in 1..(m + 1) |-> IF i = 1 THEN s[i] ELSE g[i - 1] \o s[i]]
  <2>2. \A i \in 1..m : f[i] = IF i = 1 THEN s[i] ELSE f[i - 1] \o s[i]
    BY <2>1 DEF IsFlatten
  <2>3. \A i \in 1..(m + 1) : g[i] = h[i]
    <3> TAKE i \in 1..(m + 1)
    <3>1. CASE i = m + 1
      BY <3>1, <2>2
    <3>2. CASE i # m + 1
      BY <3>2, <2>2
    <3> QED BY <3>1, <3>2
  <2>4. g = h
    BY <2>3
  <2>5. IsFlatten(s, m + 1, g)
    BY <2>4 DEF IsFlatten
  <2> QED BY <2>5
<1> HIDE DEF N
<1>3. N = Nat
  BY <1>1, <1>2, NatSetInduction DEF N
<1> QED BY <1>3 DEF N

\* FlattenSeq is what its recursion says.
LEMMA FlattenIs ==
    ASSUME NEW s, Len(s) \in Nat, Len(s) # 0
    PROVE  \E f : IsFlatten(s, Len(s), f) /\ FlattenSeq(s) = f[Len(s)]
<1> DEFINE f == CHOOSE g : IsFlatten(s, Len(s), g)
<1>1. IsFlatten(s, Len(s), f)
  BY FlattenExists
<1>2. FlattenSeq(s) = f[Len(s)]
  BY DEF FlattenSeq, IsFlatten
<1> QED BY <1>1, <1>2

\* It holds what the sequences hold, and nothing else.
LEMMA FlattenRange ==
    ASSUME NEW S, NEW s \in Seq(Seq(S))
    PROVE  /\ FlattenSeq(s) \in Seq(S)
           /\ Range(FlattenSeq(s)) = UNION {Range(s[i]) : i \in DOMAIN s}
<1>1. CASE s = <<>>
  <2>1. Len(s) = 0 /\ DOMAIN s = {}
    BY <1>1
  <2>2. FlattenSeq(s) = <<>>
    BY <1>1, <2>1 DEF FlattenSeq
  <2> QED BY <2>1, <2>2 DEF Range
<1>2. CASE s # <<>>
  <2>1. Len(s) \in Nat /\ Len(s) # 0 /\ DOMAIN s = 1..Len(s)
    BY <1>2
  <2>2. PICK f : IsFlatten(s, Len(s), f) /\ FlattenSeq(s) = f[Len(s)]
    BY <2>1, FlattenIs
  <2> DEFINE Upto(n) == UNION {Range(s[i]) : i \in 1..n}
             N == {n \in Nat : n \in 1..Len(s) => f[n] \in Seq(S) /\ Range(f[n]) = Upto(n)}
  <2>3. 0 \in N
    <3>1. 0 \notin 1..Len(s)
      BY <2>1
    <3> QED BY <3>1
  <2>4. /\ \A i \in 1..Len(s) : i = 1 => f[i] = s[i]
        /\ \A i \in 1..Len(s) : i # 1 => f[i] = f[i - 1] \o s[i]
    BY <2>2 DEF IsFlatten
  <2>5. ASSUME NEW n \in N PROVE n + 1 \in N
    <3> SUFFICES ASSUME n + 1 \in 1..Len(s)
                 PROVE  f[n + 1] \in Seq(S) /\ Range(f[n + 1]) = Upto(n + 1)
      OBVIOUS
    <3>1. s[n + 1] \in Seq(S) /\ n \in Nat
      OBVIOUS
    <3>2. CASE n = 0
      <4>1. f[1] = s[1]
        BY <2>1, <2>4
      <4>2. 1..1 = {1}
        OBVIOUS
      <4>3. Upto(1) = Range(s[1])
        BY <4>2
      <4> QED BY <3>1, <3>2, <4>1, <4>3
    <3>3. CASE n # 0
      <4>1. n \in 1..Len(s) /\ n + 1 # 1 /\ n + 1 - 1 = n
        BY <3>1, <3>3
      <4>2. f[n + 1] = f[n] \o s[n + 1]
        <5>1. PICK i \in 1..Len(s) : i = n + 1
          OBVIOUS
        <5>2. i # 1 /\ i - 1 = n
          BY <4>1, <5>1
        <5>3. f[i] = f[i - 1] \o s[i]
          BY <2>4, <5>2, Zenon
        <5> QED BY <5>1, <5>2, <5>3, Zenon
      <4>3. f[n] \in Seq(S) /\ Range(f[n]) = Upto(n)
        BY <4>1
      <4>4. f[n + 1] \in Seq(S) /\ Range(f[n + 1]) = Range(f[n]) \cup Range(s[n + 1])
        BY <3>1, <4>2, <4>3, ConcatProperties, RangeConcatenation, SMTT(60)
      <4>5. 1..(n + 1) = 1..n \cup {n + 1}
        BY <3>1
      <4>6. Upto(n + 1) = Upto(n) \cup Range(s[n + 1])
        BY <4>5, Zenon
      <4> QED BY <4>3, <4>4, <4>6, Zenon
    <3> QED BY <3>2, <3>3
  <2> HIDE DEF N
  <2>6. N = Nat
    BY <2>3, <2>5, NatSetInduction DEF N
  <2>7. f[Len(s)] \in Seq(S) /\ Range(f[Len(s)]) = Upto(Len(s))
    <3>1. Len(s) \in N /\ Len(s) \in 1..Len(s)
      BY <2>1, <2>6
    <3> QED BY <3>1 DEF N
  <2> QED BY <2>1, <2>2, <2>7, Zenon
<1> QED BY <1>1, <1>2

\* FlattenSeq concatenates the pieces one after another.
LEMMA FlattenPrefixes ==
    ASSUME NEW S, NEW s \in Seq(Seq(S))
    PROVE  \E F : /\ F \in [0..Len(s) -> Seq(S)]
                  /\ F[0] = <<>>
                  /\ \A i \in 1..Len(s) : F[i] = F[i - 1] \o s[i]
                  /\ FlattenSeq(s) = F[Len(s)]
<1>0. Len(s) \in Nat /\ DOMAIN s = 1..Len(s) /\ \A i \in 1..Len(s) : s[i] \in Seq(S)
  OBVIOUS
<1>1. CASE Len(s) = 0
  <2>1. s = <<>>
    BY <1>0, <1>1
  <2>2. FlattenSeq(s) = <<>>
    BY <1>1, <2>1 DEF FlattenSeq
  <2> DEFINE F == [i \in 0..0 |-> <<>>]
  <2>3. F \in [0..0 -> Seq(S)] /\ F[0] = <<>>
    OBVIOUS
  <2> HIDE DEF F
  <2> QED BY <1>1, <2>2, <2>3
<1>2. CASE Len(s) # 0
  <2>1. PICK f : IsFlatten(s, Len(s), f) /\ FlattenSeq(s) = f[Len(s)]
    BY <1>0, <1>2, FlattenIs
  <2>2. /\ \A i \in 1..Len(s) : i = 1 => f[i] = s[i]
        /\ \A i \in 1..Len(s) : i # 1 => f[i] = f[i - 1] \o s[i]
    BY <2>1 DEF IsFlatten
  <2> DEFINE F == [i \in 0..Len(s) |-> IF i = 0 THEN <<>> ELSE f[i]]
             Next1(i) == F[i] \in Seq(S) /\ F[i] = F[i - 1] \o s[i]
             N == {i \in Nat : i \in 1..Len(s) => Next1(i)}
  <2>3. F[0] = <<>> /\ \A i \in 1..Len(s) : F[i] = f[i]
    BY <1>0
  <2> HIDE DEF F, Next1
  <2>4. 0 \in N
    OBVIOUS
  <2>5. ASSUME NEW i \in N PROVE i + 1 \in N
    <3> SUFFICES ASSUME i + 1 \in 1..Len(s) PROVE Next1(i + 1)
      OBVIOUS
    <3>1. (i + 1) - 1 = i /\ s[i + 1] \in Seq(S) /\ F[i + 1] = f[i + 1]
      BY <1>0, <2>3
    <3>2. CASE i = 0
      <4>1. F[i + 1] = s[i + 1]
        BY <2>2, <3>1, <3>2
      <4>2. <<>> \o s[i + 1] = s[i + 1]
        BY <3>1, ConcatEmptySeq
      <4> QED BY <2>3, <3>1, <3>2, <4>1, <4>2 DEF Next1
    <3>3. CASE i # 0
      <4>1. i \in 1..Len(s) /\ F[i] \in Seq(S) /\ F[i] = f[i]
        <5>1. i \in 1..Len(s)
          BY <1>0, <3>3
        <5>2. Next1(i) /\ F[i] = f[i]
          BY <2>3, <5>1
        <5> QED BY <5>1, <5>2 DEF Next1
      <4>2. f[i + 1] = f[(i + 1) - 1] \o s[i + 1]
        <5>1. PICK j \in 1..Len(s) : j = i + 1
          OBVIOUS
        <5>2. j # 1
          BY <3>3, <5>1
        <5>3. f[j] = f[j - 1] \o s[j]
          BY <2>2, <5>2, Zenon
        <5> QED BY <5>1, <5>3, Zenon
      <4>3. F[i + 1] = F[i] \o s[i + 1]
        BY <3>1, <4>1, <4>2
      <4>4. F[i] \o s[i + 1] \in Seq(S)
        BY <3>1, <4>1, ConcatProperties
      <4> QED BY <3>1, <4>3, <4>4 DEF Next1
    <3> QED BY <3>2, <3>3
  <2>6. N \subseteq Nat
    OBVIOUS
  <2>7. \A i \in 1..Len(s) : F[i] \in Seq(S) /\ F[i] = F[i - 1] \o s[i]
    <3> HIDE DEF N
    <3>1. N = Nat
      BY <2>4, <2>5, <2>6, NatSetInduction
    <3>2. \A i \in 1..Len(s) : i \in N
      BY <1>0, <3>1
    <3>3. \A i \in 1..Len(s) : Next1(i)
      BY <3>2, Zenon DEF N
    <3> QED BY <3>3 DEF Next1
  <2>8. F \in [0..Len(s) -> Seq(S)]
    <3>1. \A i \in 0..Len(s) : F[i] \in Seq(S)
      <4> TAKE i \in 0..Len(s)
      <4>1. i = 0 \/ i \in 1..Len(s)
        BY <1>0
      <4>2. <<>> \in Seq(S)
        OBVIOUS
      <4> QED BY <2>3, <2>7, <4>1, <4>2
    <3>2. F = [i \in 0..Len(s) |-> F[i]]
      BY DEF F
    <3> QED BY <3>1, <3>2
  <2>9. FlattenSeq(s) = F[Len(s)]
    BY <1>0, <1>2, <2>1, <2>3
  <2> QED BY <2>3, <2>7, <2>8, <2>9
<1> QED BY <1>1, <1>2

\* The values of T stand in s once at most.
Once(T, s) == \A i, j \in 1..Len(s) : s[i] = s[j] /\ s[i] \in T => i = j

\* Putting two such sequences together.
LEMMA OnceConcat ==
    ASSUME NEW S, NEW s \in Seq(S), NEW t \in Seq(S), NEW T, Once(T, s), Once(T, t),
           Range(s) \cap Range(t) \cap T = {}
    PROVE  Once(T, s \o t) /\ s \o t \in Seq(S) /\ Range(s \o t) = Range(s) \cup Range(t)
<1> DEFINE u == s \o t
<1>1. /\ u \in Seq(S) /\ Len(u) = Len(s) + Len(t) /\ Len(s) \in Nat /\ Len(t) \in Nat
      /\ \A i \in 1..(Len(s) + Len(t)) : u[i] = IF i <= Len(s) THEN s[i] ELSE t[i - Len(s)]
  BY ConcatProperties
<1>2. Range(u) = Range(s) \cup Range(t)
  BY RangeConcatenation
<1>3. /\ DOMAIN s = 1..Len(s) /\ DOMAIN t = 1..Len(t)
      /\ \A i \in 1..Len(s) : s[i] \in Range(s)
      /\ \A i \in 1..Len(t) : t[i] \in Range(t)
  BY DEF Range
<1> HIDE DEF u
<1>4. ASSUME NEW i \in 1..Len(u), NEW j \in 1..Len(u), u[i] = u[j], u[i] \in T
      PROVE  i = j
  <2>1. CASE i <= Len(s) /\ j <= Len(s)
    BY <1>1, <1>4, <2>1, SMTT(60) DEF Once
  <2>2. CASE i > Len(s) /\ j > Len(s)
    <3>1. i - Len(s) \in 1..Len(t) /\ j - Len(s) \in 1..Len(t)
      BY <1>1, <2>2
    <3>2. u[i] = t[i - Len(s)] /\ u[j] = t[j - Len(s)]
      BY <1>1, <2>2
    <3>3. i - Len(s) = j - Len(s)
      BY <1>4, <3>1, <3>2 DEF Once
    <3> QED BY <1>1, <3>3
  <2>3. CASE i <= Len(s) /\ j > Len(s)
    <3>1. i \in 1..Len(s) /\ j - Len(s) \in 1..Len(t) /\ u[i] = s[i] /\ u[j] = t[j - Len(s)]
      BY <1>1, <2>3
    <3> QED BY <1>3, <1>4, <3>1
  <2>4. CASE i > Len(s) /\ j <= Len(s)
    <3>1. j \in 1..Len(s) /\ i - Len(s) \in 1..Len(t) /\ u[j] = s[j] /\ u[i] = t[i - Len(s)]
      BY <1>1, <2>4
    <3> QED BY <1>3, <1>4, <3>1
  <2> QED BY <1>1, <2>1, <2>2, <2>3, <2>4
<1>5. Once(T, u)
  BY <1>4 DEF Once
<1> QED BY <1>1, <1>2, <1>5 DEF u

\* Pieces that hold a value of T once, and share none, make a sequence that does.
LEMMA FlattenOnce ==
    ASSUME NEW S, NEW s \in Seq(Seq(S)), NEW T,
           \A i \in 1..Len(s) : Once(T, s[i]),
           \A i, j \in 1..Len(s) : i # j => Range(s[i]) \cap Range(s[j]) \cap T = {}
    PROVE  Once(T, FlattenSeq(s))
<1>0. Len(s) \in Nat /\ DOMAIN s = 1..Len(s) /\ \A i \in 1..Len(s) : s[i] \in Seq(S)
  OBVIOUS
<1>1. PICK F : /\ F \in [0..Len(s) -> Seq(S)]
               /\ F[0] = <<>>
               /\ \A i \in 1..Len(s) : F[i] = F[i - 1] \o s[i]
               /\ FlattenSeq(s) = F[Len(s)]
  BY FlattenPrefixes
<1> DEFINE N == {n \in Nat : n \in 0..Len(s) =>
                    /\ Once(T, F[n])
                    /\ \A x \in Range(F[n]) : \E i \in 1..n : x \in Range(s[i])}
<1>2. 0 \in N
  <2>1. Once(T, <<>>) /\ Range(<<>>) = {}
    BY DEF Once, Range
  <2> QED BY <1>1, <2>1
<1>3. ASSUME NEW n \in N PROVE n + 1 \in N
  <2> SUFFICES ASSUME n + 1 \in 0..Len(s)
               PROVE  /\ Once(T, F[n + 1])
                      /\ \A x \in Range(F[n + 1]) : \E i \in 1..(n + 1) : x \in Range(s[i])
    OBVIOUS
  <2>1. n \in 0..Len(s) /\ n + 1 \in 1..Len(s) /\ (n + 1) - 1 = n /\ n \in Nat
    BY <1>0
  <2>2. Once(T, F[n]) /\ \A x \in Range(F[n]) : \E i \in 1..n : x \in Range(s[i])
    BY <2>1
  <2>3. F[n] \in Seq(S) /\ s[n + 1] \in Seq(S) /\ F[n + 1] = F[n] \o s[n + 1]
    BY <1>0, <1>1, <2>1
  <2>4. Range(F[n]) \cap Range(s[n + 1]) \cap T = {}
    <3> SUFFICES ASSUME NEW x \in Range(F[n]), x \in Range(s[n + 1]), x \in T PROVE FALSE
      OBVIOUS
    <3>1. PICK i \in 1..n : x \in Range(s[i])
      BY <2>2
    <3>2. i \in 1..Len(s) /\ i # n + 1
      BY <1>0, <2>1, <3>1
    <3> QED BY <2>1, <3>1, <3>2
  <2>5. Once(T, F[n + 1]) /\ Range(F[n + 1]) = Range(F[n]) \cup Range(s[n + 1])
    BY <2>1, <2>2, <2>3, <2>4, OnceConcat
  <2>6. \A i \in 1..n : i \in 1..(n + 1)
    BY <2>1
  <2>7. n + 1 \in 1..(n + 1)
    BY <2>1
  <2> QED BY <2>2, <2>5, <2>6, <2>7
<1>4. N \subseteq Nat
  OBVIOUS
<1> HIDE DEF N
<1>5. N = Nat
  BY <1>2, <1>3, <1>4, NatSetInduction
<1>6. Once(T, F[Len(s)])
  <2>1. Len(s) \in N /\ Len(s) \in 0..Len(s)
    BY <1>0, <1>5
  <2> QED BY <2>1 DEF N
<1> QED BY <1>1, <1>6

----------------------------------------------------------------------------
(* Recursion up to a number *)

\* A function given by its value at 0 and a step from each value to the next, up to n.
IsRecursion(V, base, n, G, f) ==
    f \in [0..n -> V] /\ f[0] = base /\ \A i \in 1..n : f[i] = G[<<i, f[i - 1]>>]

\* Such a function exists.
LEMMA RecursionExists ==
    ASSUME NEW V, NEW base \in V, NEW n \in Nat, NEW G \in [(1..n) \X V -> V]
    PROVE  \E f : IsRecursion(V, base, n, G, f)
<1> USE DEF IsRecursion
<1> DEFINE Upto(m, f) == IsRecursion(V, base, m, G, f)
           N == {m \in Nat : m <= n => \E f : Upto(m, f)}
<1>1. 0 \in N
  <2>1. Upto(0, [i \in 0..0 |-> base])
    OBVIOUS
  <2> QED BY <2>1
<1>2. ASSUME NEW m \in N PROVE m + 1 \in N
  <2> SUFFICES ASSUME m + 1 <= n PROVE \E f : Upto(m + 1, f)
    OBVIOUS
  <2>1. PICK f : Upto(m, f)
    BY <1>2
  <2>2. <<m + 1, f[m]>> \in (1..n) \X V
    BY <2>1
  <2>3. G[<<m + 1, f[m]>>] \in V
    BY <2>2
  <2> DEFINE v == G[<<m + 1, f[m]>>]
             g == [i \in 0..(m + 1) |-> IF i = m + 1 THEN v ELSE f[i]]
  <2> HIDE DEF v
  <2>4. g \in [0..(m + 1) -> V] /\ g[0] = base
    BY <2>1, <2>3 DEF v
  <2>5. \A i \in 1..(m + 1) : g[i] = G[<<i, g[i - 1]>>]
    <3> TAKE i \in 1..(m + 1)
    <3>1. CASE i = m + 1
      <4>1. g[i] = v /\ g[i - 1] = f[m]
        BY <3>1
      <4> QED BY <3>1, <4>1 DEF v
    <3>2. CASE i # m + 1
      <4>1. i \in 1..m
        BY <3>2
      <4>2. g[i] = f[i] /\ g[i - 1] = f[i - 1]
        BY <3>2
      <4> QED BY <2>1, <4>1, <4>2
    <3> QED BY <3>1, <3>2
  <2> QED BY <2>4, <2>5
<1>3. N \subseteq Nat
  OBVIOUS
<1> HIDE DEF N
<1>4. N = Nat
  BY <1>1, <1>2, <1>3, NatSetInduction
<1>5. n \in N
  BY <1>4
<1> QED BY <1>5 DEF N

----------------------------------------------------------------------------
(* Short sequences, and the rest of one *)

\* The empty sequence, and one with a single element.
LEMMA NoTodo == <<>> \in Seq(Range(<<>>))
  OBVIOUS

\* A sequence with a single element.
LEMMA OneStep ==
    ASSUME NEW x
    PROVE  <<x>> \in Seq(Range(<<x>>)) /\ Len(<<x>>) = 1 /\ <<x>>[1] = x
<1>1. <<x>> \in Seq({x})
  OBVIOUS
<1> QED BY <1>1, SeqOfRange

\* A pair, extended.
LEMMA ShortConcat ==
    ASSUME NEW a, NEW b, NEW c
    PROVE  <<a, b>> \o <<>> = <<a, b>> /\ <<a, b>> \o <<c>> = <<a, b, c>>
<1>1. <<a, b>> \in Seq({a, b, c}) /\ <<c>> \in Seq({a, b, c}) /\ <<a, b, c>> \in Seq({a, b, c})
  OBVIOUS
<1>2. PICK s, t, u : s = <<a, b>> /\ t = <<c>> /\ u = <<a, b, c>>
  OBVIOUS
<1>3. s \o t = u
  <2>1. Len(s) = 2 /\ Len(t) = 1 /\ Len(u) = 3 /\ s[1] = a /\ s[2] = b /\ t[1] = c
        /\ u[1] = a /\ u[2] = b /\ u[3] = c
    BY <1>2
  <2>2. \A i \in 1..3 : (s \o t)[i] = u[i]
    BY <1>1, <1>2, <2>1
  <2>3. s \o t \in Seq({a, b, c}) /\ Len(s \o t) = 3
    BY <1>1, <1>2, <2>1, ConcatProperties
  <2> QED BY <1>1, <1>2, <2>1, <2>2, <2>3, SeqEqual
<1>4. s \o <<>> = s
  BY <1>1, <1>2, ConcatEmptySeq
<1> QED BY <1>2, <1>3, <1>4

\* Pairs and triples are sequences.
LEMMA ShortSeqs ==
    ASSUME NEW a, NEW b, NEW c
    PROVE  /\ <<a, b>> \in Seq(Range(<<a, b>>)) /\ Len(<<a, b>>) = 2
           /\ <<a, b>>[1] = a /\ <<a, b>>[2] = b
           /\ <<a, b, c>> \in Seq(Range(<<a, b, c>>)) /\ Len(<<a, b, c>>) = 3
           /\ <<a, b, c>>[1] = a /\ <<a, b, c>>[2] = b /\ <<a, b, c>>[3] = c
<1>1. <<a, b>> \in Seq({a, b}) /\ <<a, b, c>> \in Seq({a, b, c})
  OBVIOUS
<1>2. <<a, b>> \in Seq(Range(<<a, b>>)) /\ <<a, b, c>> \in Seq(Range(<<a, b, c>>))
  BY <1>1, SeqOfRange
<1> QED BY <1>2

\* One element, put behind none or another.
LEMMA PairConcat ==
    ASSUME NEW a, NEW c
    PROVE  <<>> \o <<c>> = <<c>> /\ <<a>> \o <<c>> = <<a, c>>
<1>1. <<a>> \in Seq({a, c}) /\ <<c>> \in Seq({a, c}) /\ <<a, c>> \in Seq({a, c})
  OBVIOUS
<1>2. PICK s, t, u : s = <<a>> /\ t = <<c>> /\ u = <<a, c>>
  OBVIOUS
<1>3. s \o t = u
  <2>1. Len(s) = 1 /\ Len(t) = 1 /\ Len(u) = 2 /\ s[1] = a /\ t[1] = c /\ u[1] = a /\ u[2] = c
    BY <1>2
  <2>2. \A i \in 1..2 : (s \o t)[i] = u[i]
    BY <1>1, <1>2, <2>1
  <2>3. s \o t \in Seq({a, c}) /\ Len(s \o t) = 2
    BY <1>1, <1>2, <2>1, ConcatProperties
  <2> QED BY <1>1, <1>2, <2>1, <2>2, <2>3, SeqEqual
<1>4. <<>> \o t = t
  BY <1>1, <1>2, ConcatEmptySeq
<1> QED BY <1>2, <1>3, <1>4

\* The rest of a sequence.
LEMMA TailFacts ==
    ASSUME NEW t, t \in Seq(Range(t)), t # <<>>
    PROVE  /\ Tail(t) \in Seq(Range(Tail(t))) /\ Len(t) \in Nat /\ Len(t) >= 1
           /\ Len(Tail(t)) = Len(t) - 1 /\ Head(t) = t[1]
           /\ \A i \in 1..(Len(t) - 1) : Tail(t)[i] = t[i + 1]
<1> PICK S : S = Range(t)
  OBVIOUS
<1>1. t \in Seq(S) /\ t # <<>>
  OBVIOUS
<1>2. /\ Tail(t) \in Seq(S) /\ Len(t) \in Nat /\ Len(t) >= 1
      /\ Len(Tail(t)) = Len(t) - 1 /\ Head(t) = t[1]
      /\ \A i \in 1..(Len(t) - 1) : Tail(t)[i] = t[i + 1]
  BY <1>1
<1>3. Tail(t) \in Seq(Range(Tail(t)))
  BY <1>2, SeqOfRange
<1> QED BY <1>2, <1>3

\* A function on 1..n is a sequence.
LEMMA FunctionIsSeq ==
    ASSUME NEW W, NEW n \in Nat, NEW f \in [1..n -> W]
    PROVE  f \in Seq(W) /\ Len(f) = n
OBVIOUS

----------------------------------------------------------------------------
(* The inductive invariant                                                  *)

\* An Agent instance has the fields of FreshAgent, and was closed some number
\* of times; what it observed is left open.
IsAgent(a) ==
    /\ a = [reset |-> a.reset, restored |-> a.restored, memory |-> a.memory,
            handed |-> a.handed, closes |-> a.closes]
    /\ a.closes \in Nat

\* Instances form a sequence, never empty.
AreAgents(ags) ==
    /\ ags \in Seq(Range(ags))
    /\ Len(ags) > 0
    /\ \A k \in 1..Len(ags) : IsAgent(ags[k])

\* A failure on record has ended the walk over the timeline.
FailureStops == ~valid => stage \in {"closing", "closed", "returned"}

\* All instances but the last have been closed, and the last one has when the
\* condition that had to close it is past doing so.
Released ==
    /\ \A k \in 1..Len(agents) : k < Len(agents) => agents[k].closes > 0
    /\ stage \in {"closed", "raised"} => agents[Len(agents)].closes > 0
    /\ stage = "returned" /\ cell.closes => agents[Len(agents)].closes > 0

RunInv == AreAgents(agents) /\ FailureStops /\ Released

\* The memory of every instance is what it was, and there is no new instance.
SameMemories ==
    /\ Len(agents') = Len(agents)
    /\ \A k \in DOMAIN agents : agents'[k].memory = agents[k].memory

----------------------------------------------------------------------------
(* What the steps do to the instances                                       *)

\* Every update of one field of an instance leaves it an instance, and its other
\* fields as they were.
LEMMA AgentUpdate ==
  ASSUME NEW a, IsAgent(a)
  PROVE  /\ \A v : IsAgent([a EXCEPT !.reset = v]) /\ [a EXCEPT !.reset = v].closes = a.closes
         /\ \A v : IsAgent([a EXCEPT !.restored = v]) /\ [a EXCEPT !.restored = v].closes = a.closes
         /\ \A v : IsAgent([a EXCEPT !.memory = v]) /\ [a EXCEPT !.memory = v].closes = a.closes
         /\ \A v : IsAgent([a EXCEPT !.handed = v]) /\ [a EXCEPT !.handed = v].closes = a.closes
         /\ \A n \in Nat : /\ IsAgent([a EXCEPT !.closes = n])
                           /\ [a EXCEPT !.closes = n].closes = n
                           /\ [a EXCEPT !.closes = n].memory = a.memory
  BY DEF IsAgent

\* Giving the last instance another value keeps the sequence and the others.
LEMMA LastUpdate ==
  ASSUME NEW ags, AreAgents(ags), NEW a, IsAgent(a)
  PROVE  LET new == [ags EXCEPT ![Len(ags)] = a]
         IN  /\ AreAgents(new)
             /\ Len(new) = Len(ags)
             /\ DOMAIN ags = 1..Len(ags) /\ Len(ags) \in DOMAIN ags
             /\ new[Len(ags)] = a
             /\ \A k \in DOMAIN ags : k # Len(ags) => new[k] = ags[k]
<1> DEFINE S == Range(ags) \cup {a}
<1>1. ags \in Seq(S) /\ a \in S /\ Len(ags) > 0
  BY SeqMonotonic DEF AreAgents
<1> HIDE DEF S
<1>2. Len(ags) \in 1..Len(ags) /\ DOMAIN ags = 1..Len(ags)
  BY <1>1
<1> DEFINE new == [ags EXCEPT ![Len(ags)] = a]
<1>3. /\ new \in Seq(S) /\ Len(new) = Len(ags)
      /\ \A k \in 1..Len(ags) : new[k] = IF k = Len(ags) THEN a ELSE ags[k]
  BY <1>1, <1>2, ExceptSeq
<1> HIDE DEF new
<1>4. new \in Seq(Range(new))
  BY <1>3, SeqOfRange
<1>5. \A k \in 1..Len(new) : IsAgent(new[k])
  BY <1>3, SMTT(60) DEF AreAgents
<1>6. /\ AreAgents(new) /\ new[Len(ags)] = a
      /\ \A k \in DOMAIN ags : k # Len(ags) => new[k] = ags[k]
  BY <1>1, <1>2, <1>3, <1>4, <1>5 DEF AreAgents
<1> QED
  BY <1>2, <1>3, <1>6 DEF new

\* A new instance keeps the sequence and those before it.
LEMMA OneMoreAgent ==
  ASSUME NEW ags, AreAgents(ags), NEW a, IsAgent(a)
  PROVE  LET new == Append(ags, a)
         IN  /\ AreAgents(new)
             /\ Len(new) = Len(ags) + 1 /\ Len(ags) \in Nat
             /\ new[Len(ags) + 1] = a
             /\ \A k \in 1..Len(ags) : new[k] = ags[k]
<1> DEFINE S == Range(ags) \cup {a}
<1>1. ags \in Seq(S) /\ a \in S
  BY SeqMonotonic DEF AreAgents
<1> HIDE DEF S
<1>2. Len(ags) \in Nat
  BY <1>1
<1> DEFINE new == Append(ags, a)
<1>3. /\ new \in Seq(S) /\ Len(new) = Len(ags) + 1
      /\ \A k \in 1..Len(ags) : new[k] = ags[k]
      /\ new[Len(ags) + 1] = a
  BY <1>1, AppendProperties
<1> HIDE DEF new
<1>4. new \in Seq(Range(new))
  BY <1>3, SeqOfRange
<1>5. \A k \in 1..Len(new) : IsAgent(new[k])
  BY <1>2, <1>3 DEF AreAgents
<1>6. AreAgents(new)
  BY <1>2, <1>3, <1>4, <1>5 DEF AreAgents
<1> QED
  BY <1>2, <1>3, <1>6 DEF new

\* An update of the current instance that is not its closing preserves RunInv.
LEMMA Touched ==
  ASSUME RunInv, NEW b, IsAgent(b), b.closes = agents[Len(agents)].closes,
         agents' = [agents EXCEPT ![Len(agents)] = b],
         stage = "running", stage' \in {"running", "closing"},
         cell' = cell, FailureStops'
  PROVE  RunInv'
<1>1. /\ AreAgents(agents') /\ Len(agents') = Len(agents)
      /\ DOMAIN agents = 1..Len(agents)
      /\ agents'[Len(agents)] = b
      /\ \A k \in DOMAIN agents : k # Len(agents) => agents'[k] = agents[k]
  BY LastUpdate DEF RunInv
<1>2. Released'
  BY <1>1 DEF RunInv, Released
<1> QED
  BY <1>1, <1>2 DEF RunInv

\* Closing the current instance, once or twice, leaves no instance
\* unclosed.
LEMMA ClosedAgent ==
  ASSUME RunInv, NEW n \in {1, 2}, Release(n)
  PROVE  /\ AreAgents(agents)' /\ SameMemories
         /\ \A k \in 1..Len(agents') : agents'[k].closes > 0
         /\ Len(agents') \in 1..Len(agents')
<1> DEFINE a == agents[Len(agents)]
           b == [a EXCEPT !.closes = @ + n]
<1>1. AreAgents(agents) /\ agents' = [agents EXCEPT ![Len(agents)] = b]
  BY DEF Release, Current, RunInv
<1>2. DOMAIN agents = 1..Len(agents) /\ Len(agents) \in DOMAIN agents
  BY <1>1 DEF AreAgents
<1>3. IsAgent(a) /\ a.closes \in Nat
  BY <1>1, <1>2 DEF AreAgents, IsAgent
<1> HIDE DEF a
<1>4. a.closes + n \in Nat /\ a.closes + n > 0 /\ b = [a EXCEPT !.closes = a.closes + n]
  BY <1>3
<1>5. IsAgent(b) /\ b.closes > 0 /\ b.memory = a.memory
  BY <1>3, <1>4, AgentUpdate
<1> HIDE DEF b
<1>6. /\ AreAgents(agents') /\ Len(agents') = Len(agents)
      /\ agents'[Len(agents)] = b
      /\ \A k \in DOMAIN agents : k # Len(agents) => agents'[k] = agents[k]
  BY <1>1, <1>5, LastUpdate
<1>7. SameMemories
  BY <1>2, <1>5, <1>6 DEF SameMemories, a
<1>8. \A k \in 1..Len(agents) : k < Len(agents) => agents[k].closes > 0
  BY DEF RunInv, Released
<1> QED
  BY <1>2, <1>5, <1>6, <1>7, <1>8

----------------------------------------------------------------------------
(* What one step may do                                                     *)

\* Nothing is told to the Agent, or done to the world, after a failure.
Quiet == ~valid => world' = world /\ SameMemories

\* The steps of a run that leave its instances alone.
LEMMA StepAlone ==
  ASSUME RunInv,
         \/ \E d \in Descriptors \cup {NoDescriptor} : Describe(d)
         \/ NextEvent \/ Resend
         \/ \E fault \in Fault : ProbeFailure(fault)
         \/ MaintainAgent \/ MaintainWithoutCall
         \/ \E score \in {0, 1}, recalled \in BOOLEAN : RespondToProbe(score, recalled)
         \/ \E score \in {0, 1} : FinishAct(score)
         \/ \E id \in ToolCallIds : CallTool(id)
         \/ Misbehave \/ ScorePending \/ Return
         \/ UNCHANGED vars
  PROVE  RunInv' /\ Quiet
<1> USE DEF Record, GiveUp, Invoking, Done, Unchanged, EndActLoop, FailureStops
<1>1. agents' = agents /\ cell' = cell
  <2>1. CASE \E d \in Descriptors \cup {NoDescriptor} : Describe(d)
    BY <2>1 DEF Describe
  <2>2. CASE NextEvent \/ Resend
    BY <2>2 DEF NextEvent, Resend
  <2>3. CASE \E fault \in Fault : ProbeFailure(fault)
    BY <2>3 DEF ProbeFailure
  <2>4. CASE MaintainAgent \/ MaintainWithoutCall
    BY <2>4 DEF MaintainAgent, MaintainWithoutCall
  <2>5. CASE \E score \in {0, 1}, recalled \in BOOLEAN : RespondToProbe(score, recalled)
    BY <2>5 DEF RespondToProbe
  <2>6. CASE \E score \in {0, 1} : FinishAct(score)
    BY <2>6 DEF FinishAct
  <2>7. CASE \E id \in ToolCallIds : CallTool(id)
    BY <2>7 DEF CallTool
  <2>8. CASE Misbehave
    BY <2>8 DEF Misbehave
  <2>9. CASE ScorePending \/ Return \/ UNCHANGED vars
    BY <2>9 DEF ScorePending, Return, vars
  <2> QED
    BY <2>1, <2>2, <2>3, <2>4, <2>5, <2>6, <2>7, <2>8, <2>9
<1>2. SameMemories
  BY <1>1 DEF SameMemories
<1>3. /\ FailureStops'
      /\ ~valid => world' = world
      /\ \/ stage' \notin {"closed", "raised", "returned"}
         \/ stage' = stage
         \/ stage' = "returned" /\ stage = (IF cell.closes THEN "closed" ELSE "closing")
  <2>1. CASE \E d \in Descriptors \cup {NoDescriptor} : Describe(d)
    BY <2>1 DEF Describe, RunInv
  <2>2. CASE NextEvent \/ Resend
    BY <2>2 DEF NextEvent, Resend, RunInv
  <2>3. CASE \E fault \in Fault : ProbeFailure(fault)
    BY <2>3 DEF ProbeFailure, RunInv
  <2>4. CASE MaintainAgent \/ MaintainWithoutCall
    BY <2>4 DEF MaintainAgent, MaintainWithoutCall, RunInv
  <2>5. CASE \E score \in {0, 1}, recalled \in BOOLEAN : RespondToProbe(score, recalled)
    BY <2>5 DEF RespondToProbe, RunInv
  <2>6. CASE \E score \in {0, 1} : FinishAct(score)
    BY <2>6 DEF FinishAct, RunInv
  <2>7. CASE \E id \in ToolCallIds : CallTool(id)
    BY <2>7 DEF CallTool, RunInv
  <2>8. CASE Misbehave
    BY <2>8 DEF Misbehave, RunInv
  <2>9. CASE ScorePending \/ Return \/ UNCHANGED vars
    BY <2>9 DEF ScorePending, AtEnd, Return, vars, RunInv
  <2> QED
    BY <2>1, <2>2, <2>3, <2>4, <2>5, <2>6, <2>7, <2>8, <2>9
<1>4. Released'
  BY <1>1, <1>3 DEF RunInv, Released
<1> QED
  BY <1>1, <1>2, <1>3, <1>4 DEF RunInv, Quiet

\* Giving the current instance any other reset, restored, memory or handed leaves
\* an instance that was closed as often.
LEMMA FieldUpdate ==
  ASSUME RunInv,
         \/ \E v : agents' = [agents EXCEPT ![Current].reset = v]
         \/ \E v : agents' = [agents EXCEPT ![Current].restored = v]
         \/ \E v : agents' = [agents EXCEPT ![Current].memory = v]
         \/ \E v : agents' = [agents EXCEPT ![Current].handed = v]
  PROVE  \E b : /\ IsAgent(b) /\ b.closes = agents[Len(agents)].closes
                /\ agents' = [agents EXCEPT ![Len(agents)] = b]
<1> DEFINE a == agents[Len(agents)]
           Target == \E b : /\ IsAgent(b) /\ b.closes = a.closes
                            /\ agents' = [agents EXCEPT ![Len(agents)] = b]
<1>1. IsAgent(a)
  BY DEF RunInv, AreAgents
<1>2. ASSUME NEW v, agents' = [agents EXCEPT ![Current].reset = v]
      PROVE  Target
  <2>1. agents' = [agents EXCEPT ![Len(agents)] = [a EXCEPT !.reset = v]]
    BY <1>2 DEF Current
  <2>2. IsAgent([a EXCEPT !.reset = v]) /\ [a EXCEPT !.reset = v].closes = a.closes
    BY <1>1, AgentUpdate
  <2> QED
    BY <2>1, <2>2
<1>3. ASSUME NEW v, agents' = [agents EXCEPT ![Current].restored = v]
      PROVE  Target
  <2>1. agents' = [agents EXCEPT ![Len(agents)] = [a EXCEPT !.restored = v]]
    BY <1>3 DEF Current
  <2>2. IsAgent([a EXCEPT !.restored = v]) /\ [a EXCEPT !.restored = v].closes = a.closes
    BY <1>1, AgentUpdate
  <2> QED
    BY <2>1, <2>2
<1>4. ASSUME NEW v, agents' = [agents EXCEPT ![Current].memory = v]
      PROVE  Target
  <2>1. agents' = [agents EXCEPT ![Len(agents)] = [a EXCEPT !.memory = v]]
    BY <1>4 DEF Current
  <2>2. IsAgent([a EXCEPT !.memory = v]) /\ [a EXCEPT !.memory = v].closes = a.closes
    BY <1>1, AgentUpdate
  <2> QED
    BY <2>1, <2>2
<1>5. ASSUME NEW v, agents' = [agents EXCEPT ![Current].handed = v]
      PROVE  Target
  <2>1. agents' = [agents EXCEPT ![Len(agents)] = [a EXCEPT !.handed = v]]
    BY <1>5 DEF Current
  <2>2. IsAgent([a EXCEPT !.handed = v]) /\ [a EXCEPT !.handed = v].closes = a.closes
    BY <1>1, AgentUpdate
  <2> QED
    BY <2>1, <2>2
<1> QED
  BY <1>2, <1>3, <1>4, <1>5

\* The steps that change the current instance, and the running stage, only.
LEMMA StepTouched ==
  ASSUME RunInv,
         \/ \E fault \in Fault : Retry(fault) \/ LifecycleFailure(fault)
         \/ ResetAgent \/ ObserveEvent \/ RestoreAgent
         \/ \E state \in {Nothing, Current} : EndSession(state)
  PROVE  RunInv' /\ Quiet
<1> USE DEF Record, GiveUp, Invoking, Done, FailureStops
<1> DEFINE Running == /\ stage = "running" /\ stage' \in {"running", "closing"}
                      /\ cell' = cell /\ FailureStops' /\ valid
           Update == \/ agents' = agents
                     \/ \E v : agents' = [agents EXCEPT ![Current].reset = v]
                     \/ \E v : agents' = [agents EXCEPT ![Current].restored = v]
                     \/ \E v : agents' = [agents EXCEPT ![Current].memory = v]
                     \/ \E v : agents' = [agents EXCEPT ![Current].handed = v]
<1>1. ASSUME NEW fault \in Fault, Retry(fault) \/ LifecycleFailure(fault)
      PROVE  Running /\ Update
  <2>1. Running
    BY <1>1 DEF Retry, LifecycleFailure, RunInv
  <2>2. agents' = AfterFault(fault)
    BY <1>1 DEF Retry, LifecycleFailure
  <2>3. agents' = agents
        \/ agents' = [agents EXCEPT ![Current].memory = Append(@, Head(todo))]
    BY <2>2 DEF AfterFault
  <2> QED
    BY <2>1, <2>3
<1>2. ASSUME ResetAgent PROVE Running /\ Update
  <2>1. Running
    BY <1>2 DEF ResetAgent, RunInv
  <2>2. agents' = [agents EXCEPT ![Current].reset = TRUE]
    BY <1>2 DEF ResetAgent
  <2> QED
    BY <2>1, <2>2
<1>3. ASSUME ObserveEvent PROVE Running /\ Update
  <2>1. Running
    BY <1>3 DEF ObserveEvent, RunInv
  <2>2. agents' = [agents EXCEPT ![Current].memory = Append(@, Head(todo))]
    BY <1>3 DEF ObserveEvent
  <2> QED
    BY <2>1, <2>2
<1>4. ASSUME RestoreAgent PROVE Running /\ Update
  <2>1. Running
    BY <1>4 DEF RestoreAgent, RunInv
  <2>2. agents' = [agents EXCEPT ![Current].restored = agents[Current - 1].handed]
    BY <1>4 DEF RestoreAgent
  <2> QED
    BY <2>1, <2>2
<1>5. ASSUME NEW state, EndSession(state) PROVE Running /\ Update
  <2>1. Running
    BY <1>5 DEF EndSession, RunInv
  <2>2. agents' = [agents EXCEPT ![Current].handed = state]
    BY <1>5 DEF EndSession
  <2> QED
    BY <2>1, <2>2
<1>6. Running /\ Update
  BY <1>1, <1>2, <1>3, <1>4, <1>5
<1>7. CASE agents' = agents
  BY <1>6, <1>7 DEF RunInv, Released, Quiet
<1>8. CASE agents' # agents
  <2>1. PICK b : /\ IsAgent(b) /\ b.closes = agents[Len(agents)].closes
                 /\ agents' = [agents EXCEPT ![Len(agents)] = b]
    BY <1>6, <1>8, FieldUpdate
  <2> QED
    BY <1>6, <2>1, Touched DEF Quiet
<1> QED
  BY <1>7, <1>8

\* The steps that close the current instance, and the replacement of it.
LEMMA StepClosing ==
  ASSUME RunInv,
         \/ \E fault \in Fault : TaskFailure(fault)
         \/ ReplaceFails \/ ScoringFails
         \/ \E outcome \in {"success", "failure"} : Close(outcome)
  PROVE  RunInv' /\ Quiet
<1>1. /\ \E n \in {1, 2} : Release(n)
      /\ world' = world
      /\ FailureStops'
  <2>1. CASE \E fault \in Fault : TaskFailure(fault)
    BY <2>1 DEF TaskFailure, Invoking, Raise, FailureStops, RunInv
  <2>2. CASE ReplaceFails
    BY <2>2 DEF ReplaceFails, Replacing, Raise, FailureStops, RunInv
  <2>3. CASE ScoringFails
    BY <2>3 DEF ScoringFails, AtEnd, Raise, FailureStops, RunInv
  <2>4. CASE \E outcome \in {"success", "failure"} : Close(outcome)
    BY <2>4 DEF Close, Record, FailureStops, RunInv
  <2> QED
    BY <2>1, <2>2, <2>3, <2>4
<1>2. /\ AreAgents(agents)' /\ SameMemories
      /\ \A k \in 1..Len(agents') : agents'[k].closes > 0
      /\ Len(agents') \in 1..Len(agents')
  BY <1>1, ClosedAgent
<1> QED
  BY <1>1, <1>2 DEF RunInv, Released, Quiet

\* A session boundary replaces the instance: the old one is closed first.
LEMMA StepReplace ==
  ASSUME RunInv, ReplaceAgent
  PROVE  RunInv' /\ Quiet
<1> DEFINE a == agents[Len(agents)]
           b == [a EXCEPT !.closes = @ + 1]
           old == [agents EXCEPT ![Len(agents)] = b]
<1>1. AreAgents(agents) /\ stage = "running" /\ stage' = stage /\ valid /\ FailureStops'
  BY DEF RunInv, ReplaceAgent, Replacing, FailureStops
<1>2. agents' = Append(old, FreshAgent)
  BY DEF ReplaceAgent, Current
<1>3. IsAgent(a) /\ a.closes \in Nat
  BY <1>1 DEF AreAgents, IsAgent
<1> HIDE DEF a
<1>4. a.closes + 1 \in Nat /\ a.closes + 1 > 0 /\ b = [a EXCEPT !.closes = a.closes + 1]
  BY <1>3
<1>5. IsAgent(b) /\ b.closes > 0
  BY <1>3, <1>4, AgentUpdate
<1> HIDE DEF b
<1>6. /\ AreAgents(old) /\ Len(old) = Len(agents)
      /\ DOMAIN agents = 1..Len(agents)
      /\ old[Len(agents)] = b
      /\ \A k \in DOMAIN agents : k # Len(agents) => old[k] = agents[k]
  BY <1>1, <1>5, LastUpdate
<1> HIDE DEF old
<1>7. IsAgent(FreshAgent)
  BY DEF IsAgent, FreshAgent
<1>8. /\ AreAgents(agents') /\ Len(agents') = Len(old) + 1 /\ Len(old) \in Nat
      /\ \A k \in 1..Len(old) : agents'[k] = old[k]
  BY <1>2, <1>6, <1>7, OneMoreAgent
<1>9. \A k \in 1..Len(agents') : k < Len(agents') => agents'[k].closes > 0
  BY <1>5, <1>6, <1>8 DEF RunInv, Released
<1> QED
  BY <1>1, <1>8, <1>9 DEF RunInv, Released, Quiet

----------------------------------------------------------------------------
(* The theorems                                                             *)

\* A run starts with one instance that nobody has closed yet.
LEMMA InitRunInv == Init => RunInv
<1> SUFFICES ASSUME Init PROVE RunInv
  OBVIOUS
<1>1. agents = <<FreshAgent>> /\ IsAgent(FreshAgent)
  BY DEF Init, IsAgent, FreshAgent
<1>2. agents \in Seq({FreshAgent}) /\ Len(agents) = 1 /\ agents[1] = FreshAgent
  BY <1>1
<1>3. agents \in Seq(Range(agents))
  BY <1>2, SeqOfRange
<1>4. AreAgents(agents)
  BY <1>1, <1>2, <1>3 DEF AreAgents
<1> QED
  BY <1>2, <1>4 DEF Init, RunInv, FailureStops, Released

\* Every step preserves the invariant and is quiet after a failure.
LEMMA StepRunInv == RunInv /\ [Next]_vars => RunInv' /\ Quiet
  BY StepAlone, StepTouched, StepClosing, StepReplace DEF Next, Lifecycle, Probe

\* Once a lifecycle failure is on record, run_condition shows the Agent nothing
\* more, builds no instance and leaves the world alone: every failure path of
\* invoke ends the walk over the timeline.
THEOREM NothingFollowsFailure == Spec => NothingAfterFailure
<1>1. RunInv /\ [Next]_vars => RunInv'
  BY StepRunInv
<1>2. RunInv /\ [Next]_vars =>
         [~valid => /\ world' = world
                    /\ Len(agents') = Len(agents)
                    /\ \A k \in DOMAIN agents : agents'[k].memory = agents[k].memory]_vars
  BY StepRunInv DEF Quiet, SameMemories
<1> QED
  BY <1>1, <1>2, InitRunInv, PTL DEF Spec, NothingAfterFailure

\* Every Agent instance a run built, through any number of session boundaries and
\* on every way out, has been closed when the run ends (close_agent).
THEOREM AgentsReleased == Spec => []EveryAgentReleased
<1>1. RunInv /\ [Next]_vars => RunInv'
  BY StepRunInv
<1>2. RunInv => EveryAgentReleased
  <2> SUFFICES ASSUME RunInv, Ended, NEW k \in DOMAIN agents
               PROVE  \/ agents[k].closes > 0
                      \/ k = Len(agents) /\ stage = "returned" /\ ~cell.closes
    BY DEF EveryAgentReleased
  <2>1. Len(agents) \in Nat /\ k \in 1..Len(agents)
    BY DEF RunInv, AreAgents
  <2> QED
    BY <2>1 DEF RunInv, Released, Ended
<1> QED
  BY <1>1, <1>2, InitRunInv, PTL DEF Spec

----------------------------------------------------------------------------
(* What crosses a session boundary                                          *)

\* The steps a timeline asks for, under some identifiers: none of them manages the
\* instances of the Agent.
Management == {"replace", "reset", "restore"}
Asked(ids) ==
    {Step(op, for, id) : op \in {"observe", "act", "maintain", "session_boundary", "respond"},
                         for \in {"task", "event", "injection", "probe"}, id \in ids}

\* None of them manages the instances.
LEMMA AskedIsPlain == \A ids : \A s \in Asked(ids) : s.op \notin Management
BY DEF Asked, Step, Management

\* What an event asks by itself.
LEMMA HandlerAsks ==
    ASSUME NEW ids, NEW e, e.id \in ids
    PROVE  HandlerSteps(e) \in Seq(Asked(ids))
<1>1. /\ Step("act", "task", e.id) \in Asked(ids)
      /\ Step("observe", "event", e.id) \in Asked(ids)
      /\ Step("maintain", "event", e.id) \in Asked(ids)
      /\ Step("session_boundary", "event", e.id) \in Asked(ids)
  BY DEF Asked
<1> HIDE DEF Asked
<1>2. HandlerSteps(e) \in {<<>>, <<Step("act", "task", e.id)>>, <<Step("observe", "event", e.id)>>,
                           <<Step("observe", "event", e.id), Step("maintain", "event", e.id)>>,
                           <<Step("observe", "event", e.id), Step("session_boundary", "event", e.id)>>}
  BY DEF HandlerSteps
<1>3. ASSUME NEW s1 \in Asked(ids), NEW s2 \in Asked(ids)
      PROVE  {<<>>, <<s1>>, <<s1, s2>>} \subseteq Seq(Asked(ids))
  OBVIOUS
<1> QED BY <1>1, <1>2, <1>3

\* What a probe asks.
LEMMA ProbeAsks ==
    ASSUME NEW ids, NEW p, p.id \in ids, p.delivery \in {"respond", "act", "observe_only"}
    PROVE  ProbeSteps(p) \in Seq(Asked(ids))
<1>1. Step("observe", "injection", p.id) \in Asked(ids)
  BY DEF Asked
<1>2. Step(IF p.delivery = "observe_only" THEN "observe" ELSE p.delivery, "probe", p.id)
        \in Asked(ids)
  BY DEF Asked
<1> HIDE DEF Asked
<1> QED BY <1>1, <1>2 DEF ProbeSteps

\* The planned probes are probes of the scenario.
LEMMA PlannedAreProbes ==
    ASSUME cell \in Conditions
    PROVE  Planned \in Seq(Range(Probes))
<1> DEFINE f == [i \in DOMAIN Probes |->
                   IF Probes[i].id \in cell.executed THEN <<Probes[i]>> ELSE <<>>]
<1>1. f \in Seq(Seq(Range(Probes)))
  <2>1. ASSUME NEW i \in DOMAIN Probes PROVE f[i] \in Seq(Range(Probes))
    <3>1. Probes[i] \in Range(Probes)
      BY DEF Range
    <3> QED BY <3>1
  <2>2. f \in [DOMAIN Probes -> Seq(Range(Probes))]
    BY <2>1
  <2> HIDE DEF f
  <2> QED BY <2>2, ScenarioAssumption
<1> HIDE DEF f
<1>2. FlattenSeq(f) \in Seq(Range(Probes))
  BY <1>1, FlattenRange
<1> QED BY <1>2 DEF Planned, PlanOf, f

\* What an event sets off are such steps.
LEMMA EventAsks ==
    ASSUME cell \in Conditions, NEW event
    PROVE  \E ids : StepsOf(event) \in Seq(Asked(ids))
<1> DEFINE ids == {event.id} \cup {i.id : i \in Range(cell.injections)}
                    \cup {p.id : p \in Range(Probes)}
           S == Asked(ids)
           n == Len(cell.injections)
<1>1. cell.injections \in Seq(Range(cell.injections))
  BY ScenarioAssumption
<1>2. PICK inj : inj = cell.injections
  OBVIOUS
<1> DEFINE f == [i \in DOMAIN cell.injections |->
              IF cell.injections[i].anchor = event.id THEN HandlerSteps(cell.injections[i])
              ELSE <<>>]
           g == [i \in DOMAIN Planned |->
              IF Planned[i].after = event.id THEN ProbeSteps(Planned[i]) ELSE <<>>]
<1>3. FlattenSeq(f) \in Seq(S)
  <2>1. ASSUME NEW i \in DOMAIN cell.injections PROVE f[i] \in Seq(S)
    <3>1. cell.injections[i].id \in ids
      BY DEF Range
    <3>2. HandlerSteps(cell.injections[i]) \in Seq(S)
      BY <3>1, HandlerAsks
    <3> QED BY <3>2
  <2>2. f \in [DOMAIN cell.injections -> Seq(S)]
    BY <2>1
  <2> HIDE DEF f, S
  <2>3. f \in Seq(Seq(S))
    BY <1>1, <2>2
  <2> QED BY <2>3, FlattenRange
<1>4. FlattenSeq(g) \in Seq(S)
  <2>1. ASSUME NEW i \in DOMAIN Planned PROVE g[i] \in Seq(S)
    <3>1. Planned[i] \in Range(Probes)
      BY PlannedAreProbes
    <3>2. PICK j \in DOMAIN Probes : Planned[i] = Probes[j]
      BY <3>1 DEF Range
    <3>3. Planned[i].id \in ids /\ Planned[i].delivery \in {"respond", "act", "observe_only"}
      BY <3>1, <3>2, ScenarioAssumption
    <3>4. ProbeSteps(Planned[i]) \in Seq(S)
      BY <3>3, ProbeAsks
    <3> QED BY <3>4
  <2>2. g \in [DOMAIN Planned -> Seq(S)]
    BY <2>1
  <2> HIDE DEF g, S
  <2>3. g \in Seq(Seq(S))
    BY <2>2, PlannedAreProbes
  <2> QED BY <2>3, FlattenRange
<1>5. HandlerSteps(event) \in Seq(S)
  BY HandlerAsks
<1>6. (IF event.id \in cell.past THEN <<Step("observe", "injection", event.id)>> ELSE <<>>)
        \in Seq(S)
  <2>1. Step("observe", "injection", event.id) \in S
    BY DEF Asked
  <2> HIDE DEF S
  <2> QED BY <2>1
<1>7. StepsOf(event) = HandlerSteps(event) \o FlattenSeq(f)
        \o (IF event.id \in cell.past THEN <<Step("observe", "injection", event.id)>> ELSE <<>>)
        \o FlattenSeq(g)
  BY DEF StepsOf
<1> HIDE DEF S, f, g
<1>8. StepsOf(event) \in Seq(S)
  <2>1. HandlerSteps(event) \o FlattenSeq(f) \in Seq(S)
    BY <1>3, <1>5
  <2>2. HandlerSteps(event) \o FlattenSeq(f)
        \o (IF event.id \in cell.past THEN <<Step("observe", "injection", event.id)>> ELSE <<>>)
        \in Seq(S)
    BY <1>6, <2>1
  <2> QED BY <1>4, <1>7, <2>2
<1> QED BY <1>8 DEF S

\* From its n-th on, the steps left are those of the timeline.
PlainFrom(n) == \A i \in 1..Len(todo) : i >= n => todo[i].op \notin Management

\* The n-th step left is this operation.
NextIs(n, op) == Len(todo) >= n /\ todo[n].op = op

\* An instance that was reset, and given what the one before it handed back.
Ready(k) ==
    /\ agents[k].reset
    /\ k > 1 => agents[k].restored = agents[k - 1].handed

\* Where a run is between two instances: within a session, before the first reset,
\* before the replacement, before the reset after it, and before the restoration.
SessionPhase ==
    LET n == Len(agents)
    IN  \/ PlainFrom(1) /\ Ready(n)
        \/ NextIs(1, "reset") /\ n = 1 /\ agents[n].memory = <<>> /\ PlainFrom(2)
        \/ /\ NextIs(1, "replace") /\ NextIs(2, "reset") /\ Ready(n)
           /\ IF agents[n].handed = Nothing THEN PlainFrom(3)
              ELSE NextIs(3, "restore") /\ PlainFrom(4)
        \/ /\ NextIs(1, "reset") /\ n > 1
           /\ agents[n].memory = <<>> /\ agents[n].restored = Nothing
           /\ IF agents[n - 1].handed = Nothing THEN PlainFrom(2)
              ELSE NextIs(2, "restore") /\ PlainFrom(3)
        \/ /\ NextIs(1, "restore") /\ n > 1
           /\ agents[n].memory = <<>> /\ agents[n].reset /\ PlainFrom(2)

SessionInv ==
    /\ RunInv
    /\ cell \in Conditions
    /\ todo \in Seq(Range(todo))
    /\ stage = "describing" => Len(agents) = 1 /\ agents[1].memory = <<>>
    /\ stage = "running" => SessionPhase
    /\ \A k \in 1..Len(agents) : agents[k].memory # <<>> => Ready(k)

\* The operation that is invoked tells where the run is.
LEMMA OperationTells ==
    ASSUME SessionInv, stage = "running", todo # <<>>
    PROVE  /\ Head(todo) = todo[1] /\ Len(todo) \in Nat /\ Len(todo) >= 1
           /\ Head(todo).op \notin Management => PlainFrom(1) /\ Ready(Len(agents))
<1>1. Head(todo) = todo[1] /\ Len(todo) \in Nat /\ Len(todo) >= 1
  BY DEF SessionInv
<1> QED BY <1>1 DEF SessionInv, SessionPhase, NextIs, Management

\* Taking off the first step.
LEMMA TakeOff ==
    ASSUME todo \in Seq(Range(todo)), todo # <<>>, todo' = Tail(todo)
    PROVE  /\ todo' \in Seq(Range(todo')) /\ Len(todo') = Len(todo) - 1 /\ Len(todo) \in Nat
           /\ \A i \in 1..Len(todo') : todo'[i] = todo[i + 1]
<1>1. /\ todo' \in Seq(Range(todo)) /\ Len(todo') = Len(todo) - 1 /\ Len(todo) \in Nat
      /\ \A i \in 1..Len(todo') : todo'[i] = todo[i + 1]
  BY HeadTailProperties
<1> QED BY <1>1, SeqOfRange

\* Taking off the first step leaves plain steps plain.
LEMMA PlainTail ==
    ASSUME todo \in Seq(Range(todo)), todo # <<>>, todo' = Tail(todo)
    PROVE  /\ PlainFrom(1) => PlainFrom(1)'
           /\ PlainFrom(2) => PlainFrom(1)'
           /\ PlainFrom(3) => PlainFrom(2)'
           /\ PlainFrom(4) => PlainFrom(3)'
           /\ \A op : NextIs(2, op) => NextIs(1, op)'
           /\ \A op : NextIs(3, op) => NextIs(2, op)'
<1>1. /\ Len(todo') = Len(todo) - 1 /\ Len(todo) \in Nat
      /\ \A i \in 1..Len(todo') : todo'[i] = todo[i + 1]
  BY TakeOff
<1>2. \A i \in 1..Len(todo') : i + 1 \in 1..Len(todo)
  BY <1>1
<1>3. ASSUME NEW n \in {1, 2, 3}, PlainFrom(n + 1) PROVE PlainFrom(n)'
  BY <1>1, <1>2, <1>3 DEF PlainFrom
<1>4. PlainFrom(1) => PlainFrom(2)
  BY DEF PlainFrom
<1>5. /\ PlainFrom(2) => PlainFrom(1)'
      /\ PlainFrom(3) => PlainFrom(2)'
      /\ PlainFrom(4) => PlainFrom(3)'
  <2>1. PlainFrom(1 + 1) => PlainFrom(1)'
    BY <1>3
  <2>2. PlainFrom(2 + 1) => PlainFrom(2)'
    BY <1>3
  <2>3. PlainFrom(3 + 1) => PlainFrom(3)'
    BY <1>3
  <2> QED BY <2>1, <2>2, <2>3
<1>6. \A op : NextIs(2, op) => NextIs(1, op)'
  BY <1>1 DEF NextIs
<1>7. \A op : NextIs(3, op) => NextIs(2, op)'
  BY <1>1, SMTT(60) DEF NextIs
<1> QED BY <1>4, <1>5, <1>6, <1>7

\* An update of the current instance leaves the others, and what they were given.
LEMMA OthersReady ==
    ASSUME AreAgents(agents), NEW b, IsAgent(b), agents' = [agents EXCEPT ![Len(agents)] = b]
    PROVE  /\ Len(agents') = Len(agents) /\ Len(agents) \in Nat /\ Len(agents) >= 1
           /\ agents'[Len(agents)] = b
           /\ \A k \in 1..Len(agents) : k # Len(agents) => agents'[k] = agents[k]
           /\ \A k \in 1..Len(agents) : k # Len(agents) => (Ready(k)' <=> Ready(k))
<1>1. Len(agents) \in Nat /\ Len(agents) >= 1
  BY DEF AreAgents
<1>2. /\ Len(agents') = Len(agents) /\ agents'[Len(agents)] = b /\ DOMAIN agents = 1..Len(agents)
      /\ \A k \in DOMAIN agents : k # Len(agents) => agents'[k] = agents[k]
  BY LastUpdate
<1>3. ASSUME NEW k \in 1..Len(agents), k # Len(agents) PROVE Ready(k)' <=> Ready(k)
  <2>1. agents'[k] = agents[k]
    BY <1>2, <1>3, Zenon
  <2>2. k > 1 => k - 1 \in 1..Len(agents) /\ k - 1 # Len(agents)
    BY <1>1, <1>3
  <2>3. k > 1 => agents'[k - 1] = agents[k - 1]
    BY <1>2, <2>2
  <2> QED BY <2>1, <2>3, Zenon DEF Ready
<1> QED BY <1>1, <1>2, <1>3, Zenon


\* What the fields of an instance are after an update of another.
LEMMA FieldsKept ==
    ASSUME NEW a, IsAgent(a), NEW v
    PROVE  /\ [a EXCEPT !.memory = v].reset = a.reset
           /\ [a EXCEPT !.memory = v].restored = a.restored
           /\ [a EXCEPT !.handed = v].reset = a.reset
           /\ [a EXCEPT !.handed = v].restored = a.restored
           /\ [a EXCEPT !.handed = v].memory = a.memory
           /\ [a EXCEPT !.handed = v].handed = v
           /\ [a EXCEPT !.closes = v].reset = a.reset
           /\ [a EXCEPT !.closes = v].restored = a.restored
           /\ [a EXCEPT !.closes = v].memory = a.memory
           /\ [a EXCEPT !.closes = v].handed = a.handed
           /\ [a EXCEPT !.reset = v].reset = v
           /\ [a EXCEPT !.reset = v].restored = a.restored
           /\ [a EXCEPT !.reset = v].memory = a.memory
           /\ [a EXCEPT !.restored = v].reset = a.reset
           /\ [a EXCEPT !.restored = v].restored = v
           /\ [a EXCEPT !.restored = v].memory = a.memory
BY DEF IsAgent

\* A step that leaves what the instances were given, and shows something only to one
\* that is ready for it.
LEMMA SameSession ==
    ASSUME SessionInv,
           \/ agents' = agents
           \/ Ready(Len(agents)) /\ \E v : agents' = [agents EXCEPT ![Current].memory = v]
           \/ \E v : agents' = [agents EXCEPT ![Current].handed = v]
           \/ \E n \in {1, 2} : Release(n)
    PROVE  /\ Len(agents') = Len(agents)
           /\ Ready(Len(agents)) => Ready(Len(agents))'
           /\ \A k \in 1..Len(agents') : agents'[k].memory # <<>> => Ready(k)'
<1> DEFINE a == agents[Len(agents)]
<1>0. AreAgents(agents) /\ IsAgent(a) /\ a.closes \in Nat /\ Len(agents) \in 1..Len(agents)
  BY DEF SessionInv, RunInv, AreAgents, IsAgent
<1> DEFINE Keeps(b) == /\ IsAgent(b) /\ agents' = [agents EXCEPT ![Len(agents)] = b]
                       /\ b.reset = a.reset /\ b.restored = a.restored
                       /\ b.memory = a.memory \/ Ready(Len(agents))
<1>1. \E b : Keeps(b)
  <2>1. CASE agents' = agents
    <3>1. agents' = [agents EXCEPT ![Len(agents)] = a]
      BY <2>1, <1>0 DEF AreAgents
    <3> QED BY <1>0, <3>1
  <2>2. ASSUME NEW v, agents' = [agents EXCEPT ![Current].memory = v], Ready(Len(agents))
        PROVE  Keeps([a EXCEPT !.memory = v])
    <3> DEFINE b == [a EXCEPT !.memory = v]
    <3>1. agents' = [agents EXCEPT ![Len(agents)] = b]
      BY <2>2 DEF Current
    <3> HIDE DEF a
    <3>2. IsAgent(b)
      BY <1>0, AgentUpdate
    <3>3. b.reset = a.reset /\ b.restored = a.restored
      BY <1>0, FieldsKept
    <3> HIDE DEF b
    <3>4. Keeps(b)
      BY <2>2, <3>1, <3>2, <3>3
    <3> QED BY <3>4 DEF b
  <2>3. ASSUME NEW v, agents' = [agents EXCEPT ![Current].handed = v]
        PROVE  Keeps([a EXCEPT !.handed = v])
    <3> DEFINE b == [a EXCEPT !.handed = v]
    <3>1. agents' = [agents EXCEPT ![Len(agents)] = b]
      BY <2>3 DEF Current
    <3> HIDE DEF a
    <3>2. IsAgent(b)
      BY <1>0, AgentUpdate
    <3>3. b.reset = a.reset /\ b.restored = a.restored /\ b.memory = a.memory
      BY <1>0, FieldsKept
    <3> HIDE DEF b
    <3>4. Keeps(b)
      BY <3>1, <3>2, <3>3
    <3> QED BY <3>4 DEF b
  <2>4. ASSUME NEW n \in {1, 2}, Release(n)
        PROVE  Keeps([a EXCEPT !.closes = a.closes + n])
    <3> DEFINE b == [a EXCEPT !.closes = a.closes + n]
    <3>1. agents' = [agents EXCEPT ![Len(agents)] = b]
      BY <2>4 DEF Current, Release
    <3>2. a.closes + n \in Nat
      BY <1>0, <2>4
    <3> HIDE DEF a
    <3>3. IsAgent(b)
      BY <1>0, <3>2, AgentUpdate
    <3>4. b.reset = a.reset /\ b.restored = a.restored /\ b.memory = a.memory
      BY <1>0, FieldsKept
    <3> HIDE DEF b
    <3>5. Keeps(b)
      BY <3>1, <3>3, <3>4
    <3> QED BY <3>5 DEF b
  <2> HIDE DEF Keeps
  <2> QED BY <2>1, <2>2, <2>3, <2>4
<1>11. PICK b : Keeps(b)
  BY <1>1
<1>2. /\ Len(agents') = Len(agents) /\ Len(agents) \in Nat /\ Len(agents) >= 1
      /\ agents'[Len(agents)] = b
      /\ \A k \in 1..Len(agents) : k # Len(agents) => agents'[k] = agents[k]
      /\ \A k \in 1..Len(agents) : k # Len(agents) => (Ready(k)' <=> Ready(k))
  BY <1>0, <1>11, OthersReady
<1>3. Ready(Len(agents)) => Ready(Len(agents))'
  <2>1. Len(agents) > 1 => Len(agents) - 1 \in 1..Len(agents) /\ Len(agents) - 1 # Len(agents)
    BY <1>2
  <2>2. Len(agents) > 1 => agents'[Len(agents) - 1] = agents[Len(agents) - 1]
    BY <1>2, <2>1
  <2> QED BY <1>11, <1>2, <2>2, ZenonT(60) DEF Ready
<1>4. ASSUME NEW k \in 1..Len(agents), agents'[k].memory # <<>> PROVE Ready(k)'
  <2>1. CASE k # Len(agents)
    BY <1>2, <1>4, <2>1 DEF SessionInv
  <2>2. CASE k = Len(agents)
    <3>1. Ready(Len(agents))
      BY <1>0, <1>11, <1>2, <1>4, <2>2 DEF SessionInv
    <3>2. Ready(Len(agents))'
      BY <1>3, <3>1
    <3> QED BY <1>2, <2>2, <3>2
  <2> QED BY <2>1, <2>2
<1> QED BY <1>2, <1>3, <1>4

\* A step of a session: it may show the current instance something, but it leaves
\* only plain steps.
LEMMA PlainStep ==
    ASSUME SessionInv, RunInv', stage = "running", PlainFrom(1), Ready(Len(agents)),
           \/ agents' = agents
           \/ \E v : agents' = [agents EXCEPT ![Current].memory = v],
           cell' = cell, stage' # "describing", todo' \in Seq(Range(todo')),
           stage' = "running" => PlainFrom(1)'
    PROVE  SessionInv'
<1>1. /\ Len(agents') = Len(agents)
      /\ Ready(Len(agents))'
      /\ \A k \in 1..Len(agents') : agents'[k].memory # <<>> => Ready(k)'
  BY SameSession
<1>2. stage' = "running" => SessionPhase'
  BY <1>1 DEF SessionPhase
<1>3. cell' \in Conditions
  BY DEF SessionInv
<1> QED BY <1>1, <1>2, <1>3 DEF SessionInv

\* A step that ends the run of the timeline.
LEMMA ClosingStep ==
    ASSUME SessionInv, RunInv', agents' = agents \/ \E n \in {1, 2} : Release(n),
           cell' = cell, stage' \notin {"describing", "running"}, todo' \in Seq(Range(todo'))
    PROVE  SessionInv'
<1>1. \A k \in 1..Len(agents') : agents'[k].memory # <<>> => Ready(k)'
  BY SameSession
<1> QED BY <1>1 DEF SessionInv

\* The steps on one call, within a session or in between.
LEMMA CallSteps ==
    ASSUME SessionInv, RunInv', NEW fault \in Fault, Retry(fault) \/ LifecycleFailure(fault)
    PROVE  SessionInv'
<1> USE DEF Invoking
<1>1. /\ stage = "running" /\ todo # <<>> /\ cell' = cell /\ Head(todo) = todo[1]
      /\ agents' = AfterFault(fault)
      /\ \/ stage' = stage /\ todo' = todo
         \/ stage' = "closing" /\ todo' = <<>>
  BY OperationTells DEF Retry, LifecycleFailure, GiveUp
<1>2. todo' \in Seq(Range(todo'))
  BY <1>1, NoTodo DEF SessionInv
<1>3. CASE todo[1].op \in Management
  <2>1. agents' = agents
    BY <1>1, <1>3 DEF AfterFault, Management
  <2>2. CASE stage' = "closing"
    BY <1>1, <1>2, <2>1, <2>2, ClosingStep
  <2>3. CASE stage' = stage /\ todo' = todo
    BY <1>1, <2>1, <2>3 DEF SessionInv, SessionPhase, PlainFrom, NextIs, Ready
  <2> QED BY <1>1, <2>2, <2>3
<1>4. CASE todo[1].op \notin Management
  <2>1. PlainFrom(1) /\ Ready(Len(agents))
    BY <1>1, <1>4, OperationTells
  <2>2. agents' = agents \/ \E v : agents' = [agents EXCEPT ![Current].memory = v]
    BY <1>1 DEF AfterFault
  <2>3. stage' = "running" => PlainFrom(1)'
    BY <1>1, <2>1 DEF PlainFrom
  <2> QED BY <1>1, <1>2, <2>1, <2>2, <2>3, PlainStep
<1> QED BY <1>3, <1>4

\* The steps that finish what is at the head of the list, within a session.
LEMMA PlainDone ==
    ASSUME SessionInv, RunInv', stage = "running", todo # <<>>, Head(todo).op \notin Management,
           \/ agents' = agents
           \/ \E v : agents' = [agents EXCEPT ![Current].memory = v],
           cell' = cell, stage' = stage, todo' = Tail(todo)
    PROVE  SessionInv'
<1>1. PlainFrom(1) /\ Ready(Len(agents)) /\ todo \in Seq(Range(todo))
  BY OperationTells DEF SessionInv
<1>2. todo' \in Seq(Range(todo')) /\ PlainFrom(1)'
  BY <1>1, TakeOff, PlainTail
<1> QED BY <1>1, <1>2, PlainStep

\* The steps of probes, tasks and events that finish what is at the head of the list.
LEMMA PlainSteps ==
    ASSUME SessionInv, RunInv',
           \/ \E fault \in Fault : ProbeFailure(fault)
           \/ ObserveEvent \/ MaintainAgent
           \/ \E score \in {0, 1}, recalled \in BOOLEAN : RespondToProbe(score, recalled)
           \/ \E score \in {0, 1} : FinishAct(score)
           \/ Misbehave
    PROVE  SessionInv'
<1> USE DEF Invoking, Done, Unchanged, EndActLoop, Management
<1>1. /\ stage = "running" /\ todo # <<>> /\ Head(todo).op \notin Management
      /\ cell' = cell /\ stage' = stage /\ todo' = Tail(todo)
      /\ agents' = agents \/ ObserveEvent
  <2>1. CASE \E fault \in Fault : ProbeFailure(fault)
    BY <2>1 DEF ProbeFailure
  <2>2. CASE ObserveEvent
    BY <2>2 DEF ObserveEvent
  <2>3. CASE MaintainAgent
    BY <2>3 DEF MaintainAgent
  <2>4. CASE \E score \in {0, 1}, recalled \in BOOLEAN : RespondToProbe(score, recalled)
    BY <2>4 DEF RespondToProbe
  <2>5. CASE \E score \in {0, 1} : FinishAct(score)
    BY <2>5 DEF FinishAct
  <2>6. CASE Misbehave
    BY <2>6 DEF Misbehave
  <2> QED BY <2>1, <2>2, <2>3, <2>4, <2>5, <2>6
<1>2. agents' = agents \/ \E v : agents' = [agents EXCEPT ![Current].memory = v]
  BY <1>1 DEF ObserveEvent
<1> QED BY <1>1, <1>2, PlainDone

\* The steps that end the walk over the timeline, and those after it.
LEMMA EndingSteps ==
    ASSUME SessionInv, RunInv',
           \/ \E fault \in Fault : TaskFailure(fault)
           \/ ReplaceFails \/ ScoringFails \/ ScorePending \/ Return
           \/ \E outcome \in {"success", "failure"} : Close(outcome)
    PROVE  SessionInv'
<1>1. /\ cell' = cell /\ todo' = todo /\ stage' \notin {"describing", "running"}
      /\ agents' = agents \/ \E n \in {1, 2} : Release(n)
  <2>1. CASE \E fault \in Fault : TaskFailure(fault)
    BY <2>1 DEF TaskFailure, Raise
  <2>2. CASE ReplaceFails
    BY <2>2 DEF ReplaceFails, Raise
  <2>3. CASE ScoringFails
    BY <2>3 DEF ScoringFails, Raise
  <2>4. CASE ScorePending \/ Return
    BY <2>4 DEF ScorePending, Return
  <2>5. CASE \E outcome \in {"success", "failure"} : Close(outcome)
    BY <2>5 DEF Close
  <2> QED BY <2>1, <2>2, <2>3, <2>4, <2>5
<1>2. todo' \in Seq(Range(todo'))
  BY <1>1 DEF SessionInv
<1> QED BY <1>1, <1>2, ClosingStep

\* Skipping or failing maintenance.
LEMMA MaintenanceStep ==
    ASSUME SessionInv, RunInv', MaintainWithoutCall
    PROVE  SessionInv'
<1>1. /\ stage = "running" /\ todo # <<>> /\ Head(todo).op \notin Management
      /\ cell' = cell /\ agents' = agents
      /\ \/ stage' = stage /\ todo' = Tail(todo)
         \/ stage' = "closing" /\ todo' = <<>>
  BY DEF MaintainWithoutCall, GiveUp, Management
<1>2. CASE stage' = "closing" /\ todo' = <<>>
  BY <1>1, <1>2, NoTodo, ClosingStep
<1>3. CASE stage' = stage /\ todo' = Tail(todo)
  BY <1>1, <1>3, PlainDone
<1> QED BY <1>1, <1>2, <1>3

\* Putting plain steps first.
LEMMA PlainConcat ==
    ASSUME NEW s, NEW t, s \in Seq(Range(s)), t \in Seq(Range(t))
    PROVE  /\ s \o t \in Seq(Range(s \o t)) /\ Len(s) \in Nat /\ Len(t) \in Nat
           /\ Len(s \o t) = Len(s) + Len(t)
           /\ \A i \in 1..Len(s) : (s \o t)[i] = s[i]
           /\ \A i \in 1..Len(s \o t) : i > Len(s) => i - Len(s) \in 1..Len(t)
                                                     /\ (s \o t)[i] = t[i - Len(s)]
<1> DEFINE S == Range(s) \cup Range(t)
           u == s \o t
<1>1. s \in Seq(S) /\ t \in Seq(S)
  BY SeqMonotonic
<1> HIDE DEF S
<1>2. /\ u \in Seq(S) /\ Len(u) = Len(s) + Len(t) /\ Len(s) \in Nat /\ Len(t) \in Nat
      /\ \A i \in 1..(Len(s) + Len(t)) : u[i] = IF i <= Len(s) THEN s[i] ELSE t[i - Len(s)]
  BY <1>1, ConcatProperties
<1> HIDE DEF u
<1>3. u \in Seq(Range(u))
  BY <1>2, SeqOfRange
<1>4. ASSUME NEW i \in 1..Len(u), i > Len(s)
      PROVE  i - Len(s) \in 1..Len(t) /\ u[i] = t[i - Len(s)]
  BY <1>2, <1>4
<1>5. ASSUME NEW i \in 1..Len(s) PROVE u[i] = s[i]
  BY <1>2
<1>6. /\ u \in Seq(Range(u)) /\ Len(s) \in Nat /\ Len(t) \in Nat
      /\ Len(u) = Len(s) + Len(t)
      /\ \A i \in 1..Len(s) : u[i] = s[i]
      /\ \A i \in 1..Len(u) : i > Len(s) => i - Len(s) \in 1..Len(t)
                                           /\ u[i] = t[i - Len(s)]
  BY <1>2, <1>3, <1>4, <1>5
<1> QED BY <1>6 DEF u

\* The result of a tool call is observed before the act loop goes on.
LEMMA ToolStep ==
    ASSUME SessionInv, RunInv', NEW id, CallTool(id)
    PROVE  SessionInv'
<1> DEFINE first == [Step("observe", "tool", Head(todo).id) EXCEPT !.call = id]
<1>1. /\ stage = "running" /\ todo # <<>> /\ Head(todo).op \notin Management
      /\ cell' = cell /\ agents' = agents /\ stage' = stage
      /\ todo' = <<first>> \o todo
  BY DEF CallTool, Invoking, Unchanged, Management
<1>2. PlainFrom(1) /\ Ready(Len(agents)) /\ todo \in Seq(Range(todo))
  BY <1>1, OperationTells DEF SessionInv
<1>3. first.op \notin Management
  BY DEF Step, Management
<1> HIDE DEF first
<1>4. PICK one : one = <<first>>
  OBVIOUS
<1>41. one \in Seq(Range(one)) /\ Len(one) = 1 /\ one[1] = first
  BY <1>4, OneStep
<1>42. PICK t, u : t = todo /\ u = todo'
  OBVIOUS
<1>43. u = one \o t /\ t \in Seq(Range(t))
  BY <1>1, <1>2, <1>4, <1>42
<1>44. /\ u \in Seq(Range(u)) /\ Len(t) \in Nat /\ Len(u) = Len(one) + Len(t)
       /\ \A i \in 1..Len(one) : u[i] = one[i]
       /\ \A i \in 1..Len(u) : i > Len(one) => i - Len(one) \in 1..Len(t)
                                              /\ u[i] = t[i - Len(one)]
  BY <1>41, <1>43, PlainConcat
<1>5. /\ todo' \in Seq(Range(todo')) /\ todo'[1] = first
      /\ \A i \in 1..Len(todo') : i > 1 => i - 1 \in 1..Len(todo) /\ todo'[i] = todo[i - 1]
      /\ Len(todo') \in Nat
  BY <1>41, <1>42, <1>44
<1>6. PlainFrom(1)'
  BY <1>2, <1>3, <1>5, SMTT(60) DEF PlainFrom
<1> QED BY <1>1, <1>2, <1>5, <1>6, PlainStep

\* The next event brings only plain steps.
LEMMA EventStep ==
    ASSUME SessionInv, RunInv', NextEvent
    PROVE  SessionInv'
<1>1. PICK event : todo' = StepsOf(event)
  BY DEF NextEvent
<1>2. /\ stage = "running" /\ todo = <<>> /\ cell' = cell /\ agents' = agents /\ stage' = stage
  BY DEF NextEvent
<1>3. PICK ids : todo' \in Seq(Asked(ids))
  BY <1>1, EventAsks DEF SessionInv
<1>4. todo' \in Seq(Range(todo')) /\ PlainFrom(1)'
  BY <1>3, AskedIsPlain, SeqOfRange DEF PlainFrom
<1>5. PlainFrom(1) /\ Ready(Len(agents))
  BY <1>2 DEF SessionInv, SessionPhase, NextIs, PlainFrom
<1> QED BY <1>2, <1>4, <1>5, PlainStep

\* A run starts with one instance, which has observed nothing.
LEMMA SessionInit == Init => SessionInv
<1> SUFFICES ASSUME Init PROVE SessionInv
  OBVIOUS
<1>1. RunInv
  BY InitRunInv
<1>2. agents = <<FreshAgent>> /\ todo = <<>> /\ stage = "describing" /\ cell \in Conditions
  BY DEF Init
<1>3. Len(agents) = 1 /\ agents[1] = FreshAgent /\ FreshAgent.memory = <<>>
  BY <1>2 DEF FreshAgent
<1>4. \A k \in 1..Len(agents) : agents[k].memory = <<>>
  BY <1>3
<1> QED BY <1>1, <1>2, <1>3, <1>4, NoTodo DEF SessionInv

\* Once described, the Agent is reset first.
LEMMA DescribeStep ==
    ASSUME SessionInv, RunInv', NEW d, Describe(d)
    PROVE  SessionInv'
<1>1. /\ stage = "describing" /\ cell' = cell /\ agents' = agents
      /\ \/ stage' = "running" /\ todo' = <<Step("reset", "run", "reset")>>
         \/ stage' = "closing" /\ todo' = <<>>
  BY DEF Describe, GiveUp
<1>2. CASE stage' = "closing" /\ todo' = <<>>
  BY <1>1, <1>2, NoTodo, ClosingStep
<1>3. CASE stage' = "running" /\ todo' = <<Step("reset", "run", "reset")>>
  <2>1. Len(todo') = 1 /\ todo'[1].op = "reset" /\ todo' \in Seq(Range(todo'))
    <3>1. Step("reset", "run", "reset").op = "reset"
      BY DEF Step
    <3> QED BY <1>3, <3>1, OneStep
  <2>2. NextIs(1, "reset")' /\ PlainFrom(2)'
    BY <2>1 DEF NextIs, PlainFrom
  <2>3. \A k \in 1..Len(agents') : agents'[k].memory # <<>> => Ready(k)'
    BY <1>1, SameSession
  <2> QED BY <1>1, <1>3, <2>1, <2>2, <2>3 DEF SessionInv, SessionPhase
<1> QED BY <1>1, <1>2, <1>3

\* The first reset, and the one after a replacement.
LEMMA ResetStep ==
    ASSUME SessionInv, RunInv', ResetAgent
    PROVE  SessionInv'
<1> DEFINE n == Len(agents)
           a == agents[n]
           b == [a EXCEPT !.reset = TRUE]
<1>1. /\ stage = "running" /\ todo # <<>> /\ todo[1].op = "reset"
      /\ cell' = cell /\ stage' = stage /\ todo' = Tail(todo)
      /\ agents' = [agents EXCEPT ![n] = b]
  BY OperationTells DEF ResetAgent, Done, Invoking, Current
<1>2. AreAgents(agents) /\ IsAgent(a) /\ todo \in Seq(Range(todo))
  BY DEF SessionInv, RunInv, AreAgents
<1> HIDE DEF a
<1>31. IsAgent(b)
  BY <1>2, AgentUpdate
<1>32. b.reset /\ b.restored = a.restored /\ b.memory = a.memory
  BY <1>2, FieldsKept
<1>3. /\ IsAgent(b) /\ b.reset /\ b.restored = a.restored /\ b.memory = a.memory
  BY <1>31, <1>32
<1> HIDE DEF b
<1> USE DEF a
<1>4. /\ Len(agents') = n /\ n \in Nat /\ n >= 1
      /\ agents'[n] = b
      /\ \A k \in 1..n : k # n => agents'[k] = agents[k]
      /\ \A k \in 1..n : k # n => (Ready(k)' <=> Ready(k))
  BY <1>1, <1>2, <1>3, OthersReady
<1>5. n > 1 => agents'[n - 1] = agents[n - 1]
  BY <1>4
<1>6. /\ agents[n].memory = <<>>
      /\ \/ n = 1 /\ PlainFrom(2)
         \/ /\ n > 1 /\ agents[n].restored = Nothing
            /\ IF agents[n - 1].handed = Nothing THEN PlainFrom(2)
               ELSE NextIs(2, "restore") /\ PlainFrom(3)
  BY <1>1, OperationTells DEF SessionInv, SessionPhase, PlainFrom, NextIs, Management
<1>7. /\ todo' \in Seq(Range(todo'))
      /\ PlainFrom(2) => PlainFrom(1)'
      /\ PlainFrom(3) => PlainFrom(2)'
      /\ NextIs(2, "restore") => NextIs(1, "restore")'
  BY <1>1, <1>2, TakeOff, PlainTail
<1>8. SessionPhase'
  <2>1. CASE n = 1
    <3>1. PlainFrom(1)' /\ Ready(n)'
      BY <1>3, <1>4, <1>6, <1>7, <2>1 DEF Ready
    <3> QED BY <1>4, <3>1 DEF SessionPhase
  <2>2. CASE n > 1 /\ agents[n - 1].handed = Nothing
    <3>1. PlainFrom(1)' /\ Ready(n)'
      BY <1>3, <1>4, <1>5, <1>6, <1>7, <2>2 DEF Ready
    <3> QED BY <1>4, <3>1 DEF SessionPhase
  <2>3. CASE n > 1 /\ agents[n - 1].handed # Nothing
    <3>1. NextIs(1, "restore")' /\ PlainFrom(2)'
      BY <1>6, <1>7, <2>3
    <3> QED BY <1>3, <1>4, <1>6, <2>3, <3>1 DEF SessionPhase
  <2> QED BY <1>4, <2>1, <2>2, <2>3
<1>9. ASSUME NEW k \in 1..n, agents'[k].memory # <<>>
      PROVE  Ready(k)'
  <2>1. k # n
    BY <1>3, <1>4, <1>6, <1>9, Zenon
  <2>2. agents'[k] = agents[k] /\ (Ready(k)' <=> Ready(k))
    BY <1>4, <2>1, Zenon
  <2>3. Ready(k)
    BY <1>9, <2>2, Zenon DEF SessionInv
  <2> QED BY <2>2, <2>3, Zenon
<1> QED BY <1>1, <1>4, <1>7, <1>8, <1>9, Zenon DEF SessionInv

\* The instance is given what the one before it handed back.
LEMMA RestoreStep ==
    ASSUME SessionInv, RunInv', RestoreAgent
    PROVE  SessionInv'
<1> DEFINE n == Len(agents)
           a == agents[n]
           h == agents[n - 1].handed
           b == [a EXCEPT !.restored = h]
<1>1. /\ stage = "running" /\ todo # <<>> /\ todo[1].op = "restore"
      /\ cell' = cell /\ stage' = stage /\ todo' = Tail(todo)
      /\ agents' = [agents EXCEPT ![n] = b]
  BY OperationTells DEF RestoreAgent, Done, Invoking, Current
<1>2. AreAgents(agents) /\ IsAgent(a) /\ todo \in Seq(Range(todo))
  BY DEF SessionInv, RunInv, AreAgents
<1> HIDE DEF a, h
<1>31. IsAgent(b)
  BY <1>2, AgentUpdate
<1>32. b.reset = a.reset /\ b.restored = h /\ b.memory = a.memory
  BY <1>2, FieldsKept
<1>3. /\ IsAgent(b) /\ b.reset = a.reset /\ b.restored = h /\ b.memory = a.memory
  BY <1>31, <1>32
<1> HIDE DEF b
<1> USE DEF a, h
<1>4. /\ Len(agents') = n /\ n \in Nat /\ n >= 1
      /\ agents'[n] = b
      /\ \A k \in 1..n : k # n => agents'[k] = agents[k]
      /\ \A k \in 1..n : k # n => (Ready(k)' <=> Ready(k))
  BY <1>1, <1>2, <1>3, OthersReady
<1>5. n > 1 => agents'[n - 1] = agents[n - 1]
  BY <1>4
<1>6. n > 1 /\ agents[n].memory = <<>> /\ agents[n].reset /\ PlainFrom(2)
  BY <1>1, OperationTells DEF SessionInv, SessionPhase, PlainFrom, NextIs, Management
<1>7. todo' \in Seq(Range(todo')) /\ PlainFrom(1)'
  BY <1>1, <1>2, <1>6, TakeOff, PlainTail
<1>8. Ready(n)'
  BY <1>3, <1>4, <1>5, <1>6 DEF Ready
<1>9. ASSUME NEW k \in 1..n, agents'[k].memory # <<>>
      PROVE  Ready(k)'
  <2>1. k # n
    BY <1>3, <1>4, <1>6, <1>9, Zenon
  <2>2. agents'[k] = agents[k] /\ (Ready(k)' <=> Ready(k))
    BY <1>4, <2>1, Zenon
  <2>3. Ready(k)
    BY <1>9, <2>2, Zenon DEF SessionInv
  <2> QED BY <2>2, <2>3, Zenon
<1> QED BY <1>1, <1>4, <1>7, <1>8, <1>9, Zenon DEF SessionInv, SessionPhase

\* What a session boundary puts before the rest of the timeline.
LEMMA HandoverIs ==
    ASSUME NEW state
    PROVE  /\ Handover(state) \in Seq(Range(Handover(state)))
           /\ Handover(state)[1].op = "replace" /\ Handover(state)[2].op = "reset"
           /\ Len(Handover(state)) = IF state = Nothing THEN 2 ELSE 3
           /\ state # Nothing => Handover(state)[3].op = "restore"
<1> DEFINE a == Step("replace", "session", "session")
           b == Step("reset", "session", "session")
           c == Step("restore", "session", "session")
<1>1. a.op = "replace" /\ b.op = "reset" /\ c.op = "restore"
  BY DEF Step
<1>2. Handover(state) = <<a, b>> \o IF state = Nothing THEN <<>> ELSE <<c>>
  BY DEF Handover
<1> HIDE DEF a, b, c
<1>3. CASE state = Nothing
  <2>1. Handover(state) = <<a, b>>
    <3>1. <<a, b>> \o <<>> = <<a, b>>
      BY ShortConcat
    <3> QED BY <1>2, <1>3, <3>1
  <2>2. <<a, b>> \in Seq(Range(<<a, b>>)) /\ Len(<<a, b>>) = 2
        /\ <<a, b>>[1] = a /\ <<a, b>>[2] = b
    BY ShortSeqs, Zenon
  <2> QED BY <1>1, <1>3, <2>1, <2>2
<1>4. CASE state # Nothing
  <2>1. Handover(state) = <<a, b, c>>
    <3>1. <<a, b>> \o <<c>> = <<a, b, c>>
      BY ShortConcat
    <3> QED BY <1>2, <1>4, <3>1
  <2>2. /\ <<a, b, c>> \in Seq(Range(<<a, b, c>>)) /\ Len(<<a, b, c>>) = 3
        /\ <<a, b, c>>[1] = a /\ <<a, b, c>>[2] = b /\ <<a, b, c>>[3] = c
    BY ShortSeqs, Zenon
  <2> QED BY <1>1, <1>4, <2>1, <2>2
<1> QED BY <1>3, <1>4

\* A session ends: the instance is to be replaced, or goes on.
LEMMA SessionStep ==
    ASSUME SessionInv, RunInv', NEW state, EndSession(state)
    PROVE  SessionInv'
<1> DEFINE n == Len(agents)
<1>1. /\ stage = "running" /\ todo # <<>> /\ Head(todo).op \notin Management
      /\ cell' = cell /\ stage' = stage
      /\ agents' = [agents EXCEPT ![Current].handed = state]
      /\ todo' = (IF cell.isolation = "persisted_state" THEN Handover(state) ELSE <<>>)
                 \o Tail(todo)
  BY DEF EndSession, Invoking, Management
<1>2. PlainFrom(1) /\ Ready(n) /\ todo \in Seq(Range(todo))
  BY <1>1, OperationTells DEF SessionInv
<1>3. /\ Len(agents') = n /\ Ready(n)'
      /\ \A k \in 1..Len(agents') : agents'[k].memory # <<>> => Ready(k)'
  BY <1>1, <1>2, SameSession
<1>4. agents'[n].handed = state
  BY <1>1 DEF SessionInv, RunInv, AreAgents, IsAgent, Current
<1>5. /\ Tail(todo) \in Seq(Range(Tail(todo)))
      /\ \A i \in 1..Len(Tail(todo)) : Tail(todo)[i].op \notin Management
  <2>1. PICK t : t = Tail(todo)
    OBVIOUS
  <2>2. /\ t \in Seq(Range(todo)) /\ Len(t) = Len(todo) - 1 /\ Len(todo) \in Nat
        /\ \A i \in 1..Len(t) : t[i] = todo[i + 1]
    BY <1>1, <1>2, <2>1, HeadTailProperties
  <2>3. t \in Seq(Range(t))
    BY <2>2, SeqOfRange
  <2>4. \A i \in 1..Len(t) : t[i].op \notin Management
    BY <1>2, <2>2 DEF PlainFrom
  <2> QED BY <2>1, <2>3, <2>4
<1>6. CASE cell.isolation # "persisted_state"
  <2>1. todo' = Tail(todo)
    BY <1>1, <1>5, <1>6
  <2>2. PlainFrom(1)'
    BY <1>5, <2>1 DEF PlainFrom
  <2> QED BY <1>1, <1>3, <1>5, <2>1, <2>2 DEF SessionInv, SessionPhase
<1>7. CASE cell.isolation = "persisted_state"
  <2>1. PICK s, t, u : s = Handover(state) /\ t = Tail(todo) /\ u = todo'
    OBVIOUS
  <2>2. u = s \o t /\ t \in Seq(Range(t))
    BY <1>1, <1>5, <1>7, <2>1
  <2>3. /\ s \in Seq(Range(s)) /\ s[1].op = "replace" /\ s[2].op = "reset"
        /\ Len(s) = IF state = Nothing THEN 2 ELSE 3
        /\ state # Nothing => s[3].op = "restore"
    BY <2>1, HandoverIs
  <2>31. /\ u \in Seq(Range(u)) /\ Len(s) \in Nat /\ Len(t) \in Nat
         /\ Len(u) = Len(s) + Len(t)
         /\ \A i \in 1..Len(s) : u[i] = s[i]
         /\ \A i \in 1..Len(u) : i > Len(s) => i - Len(s) \in 1..Len(t)
                                              /\ u[i] = t[i - Len(s)]
    <3>1. s \in Seq(Range(s)) /\ t \in Seq(Range(t))
      BY <2>2, <2>3, Zenon
    <3>2. /\ s \o t \in Seq(Range(s \o t)) /\ Len(s) \in Nat /\ Len(t) \in Nat
          /\ Len(s \o t) = Len(s) + Len(t)
          /\ \A i \in 1..Len(s) : (s \o t)[i] = s[i]
          /\ \A i \in 1..Len(s \o t) : i > Len(s) => i - Len(s) \in 1..Len(t)
                                                    /\ (s \o t)[i] = t[i - Len(s)]
      BY <3>1, PlainConcat, ZenonT(60)
    <3> QED BY <2>2, <3>2, Zenon
  <2>4. /\ todo' \in Seq(Range(todo')) /\ Len(s) \in Nat /\ Len(t) \in Nat
        /\ Len(todo') = Len(s) + Len(t)
        /\ \A i \in 1..Len(s) : todo'[i] = s[i]
        /\ \A i \in 1..Len(todo') : i > Len(s) => i - Len(s) \in 1..Len(t)
                                                  /\ todo'[i] = t[i - Len(s)]
    BY <2>1, <2>31
  <2>5. NextIs(1, "replace")' /\ NextIs(2, "reset")'
    BY <2>3, <2>4 DEF NextIs
  <2>6. \A i \in 1..Len(todo') : i > Len(s) => todo'[i].op \notin Management
    BY <1>5, <2>1, <2>4
  <2>7. IF state = Nothing THEN PlainFrom(3)' ELSE NextIs(3, "restore")' /\ PlainFrom(4)'
    <3>1. CASE state = Nothing
      BY <2>3, <2>6, <3>1 DEF PlainFrom
    <3>2. CASE state # Nothing
      BY <2>3, <2>4, <2>6, <3>2 DEF PlainFrom, NextIs
    <3> QED BY <3>1, <3>2
  <2> QED BY <1>1, <1>3, <1>4, <2>4, <2>5, <2>7, SMTT(60) DEF SessionInv, SessionPhase
<1> QED BY <1>6, <1>7

\* The next instance has observed nothing and was given nothing.
LEMMA ReplaceStep ==
    ASSUME SessionInv, RunInv', ReplaceAgent
    PROVE  SessionInv'
<1> DEFINE n == Len(agents)
           a == agents[n]
           m == a.closes + 1
           b == [a EXCEPT !.closes = m]
           old == [agents EXCEPT ![n] = b]
<1>1. /\ stage = "running" /\ todo # <<>> /\ todo[1].op = "replace"
      /\ cell' = cell /\ stage' = stage /\ todo' = Tail(todo)
      /\ agents' = Append(old, FreshAgent)
  BY OperationTells DEF ReplaceAgent, Replacing, Current
<1>2. AreAgents(agents) /\ IsAgent(a) /\ todo \in Seq(Range(todo)) /\ a.closes \in Nat
  BY DEF SessionInv, RunInv, AreAgents, IsAgent
<1>20. m \in Nat
  BY <1>2
<1> HIDE DEF a, m
<1>3. IsAgent(b)
  BY <1>2, <1>20, AgentUpdate
<1>4. b.reset = a.reset /\ b.restored = a.restored /\ b.memory = a.memory /\ b.handed = a.handed
  BY <1>2, FieldsKept
<1> HIDE DEF b
<1>5. AreAgents(old) /\ Len(old) = n /\ old[n] = b /\ n \in Nat /\ n >= 1
      /\ \A k \in 1..n : k # n => old[k] = agents[k]
  BY <1>2, <1>3, LastUpdate DEF AreAgents
<1> HIDE DEF old
<1>6. IsAgent(FreshAgent)
  BY DEF IsAgent, FreshAgent
<1>7. /\ Len(agents') = n + 1 /\ agents'[n + 1] = FreshAgent
      /\ \A k \in 1..n : agents'[k] = old[k]
  BY <1>1, <1>5, <1>6, OneMoreAgent
<1>8. \A k \in 1..n : /\ agents'[k].reset = agents[k].reset
                      /\ agents'[k].restored = agents[k].restored
                      /\ agents'[k].memory = agents[k].memory
                      /\ agents'[k].handed = agents[k].handed
  BY <1>4, <1>5, <1>7 DEF a
<1>9. \A k \in 1..n : k > 1 => k - 1 \in 1..n
  BY <1>5
<1>10. \A k \in 1..n : Ready(k)' <=> Ready(k)
  BY <1>8, <1>9, Zenon DEF Ready
<1>11. FreshAgent.memory = <<>> /\ FreshAgent.restored = Nothing
  BY DEF FreshAgent
<1>12. \A k \in 1..(n + 1) : agents'[k].memory # <<>> => Ready(k)'
  <2>1. ASSUME NEW k \in 1..n, agents'[k].memory # <<>> PROVE Ready(k)'
    BY <1>8, <1>10, <2>1, Zenon DEF SessionInv
  <2>2. \A k \in 1..(n + 1) : k \in 1..n \/ k = n + 1
    BY <1>5
  <2> QED BY <1>7, <1>11, <2>1, <2>2, Zenon
<1>13. /\ NextIs(2, "reset")
       /\ IF agents[n].handed = Nothing THEN PlainFrom(3)
          ELSE NextIs(3, "restore") /\ PlainFrom(4)
  BY <1>1, OperationTells, SMTT(60) DEF SessionInv, SessionPhase, PlainFrom, NextIs, Management
<1>14. /\ todo' \in Seq(Range(todo'))
       /\ NextIs(1, "reset")'
       /\ IF agents[n].handed = Nothing THEN PlainFrom(2)'
          ELSE NextIs(2, "restore")' /\ PlainFrom(3)'
  <2>1. todo' \in Seq(Range(todo'))
    BY <1>1, <1>2, TakeOff
  <2>2. /\ PlainFrom(3) => PlainFrom(2)'
        /\ PlainFrom(4) => PlainFrom(3)'
        /\ NextIs(2, "reset") => NextIs(1, "reset")'
        /\ NextIs(3, "restore") => NextIs(2, "restore")'
    BY <1>1, <1>2, PlainTail
  <2> QED BY <1>13, <2>1, <2>2
<1>15. agents'[Len(agents') - 1].handed = agents[n].handed
  <2>1. n \in 1..n /\ Len(agents') - 1 = n
    BY <1>5, <1>7
  <2> QED BY <1>8, <2>1
<1>16. SessionPhase'
  BY <1>5, <1>7, <1>11, <1>14, <1>15 DEF SessionPhase
<1> QED BY <1>1, <1>7, <1>12, <1>14, <1>16 DEF SessionInv

\* Steps that leave the run of the timeline where it is.
LEMMA WaitingStep ==
    ASSUME SessionInv, RunInv', Resend \/ UNCHANGED vars
    PROVE  SessionInv'
<1>1. UNCHANGED <<cell, stage, todo, agents>>
  BY DEF Resend, vars
<1> QED BY <1>1 DEF SessionInv, SessionPhase, PlainFrom, NextIs, Ready

\* Every step keeps the sessions apart.
LEMMA StepSession == SessionInv /\ [Next]_vars => SessionInv'
<1> SUFFICES ASSUME SessionInv, [Next]_vars PROVE SessionInv'
  OBVIOUS
<1>1. RunInv'
  BY StepRunInv DEF SessionInv
<1>2. CASE Lifecycle
  BY <1>1, <1>2, ResetStep, PlainSteps, MaintenanceStep, SessionStep, ReplaceStep, EndingSteps,
     RestoreStep DEF Lifecycle
<1>3. CASE Probe
  BY <1>1, <1>3, PlainSteps, ToolStep DEF Probe
<1>4. ASSUME NEW fault \in Fault,
             Retry(fault) \/ LifecycleFailure(fault) \/ ProbeFailure(fault) \/ TaskFailure(fault)
      PROVE  SessionInv'
  BY <1>1, <1>4, CallSteps, PlainSteps, EndingSteps
<1>5. CASE \/ \E d \in Descriptors \cup {NoDescriptor} : Describe(d)
           \/ NextEvent \/ Resend \/ UNCHANGED vars
  BY <1>1, <1>5, DescribeStep, EventStep, WaitingStep
<1>6. CASE \/ ScorePending \/ ScoringFails \/ Return
           \/ \E outcome \in {"success", "failure"} : Close(outcome)
  BY <1>1, <1>6, EndingSteps
<1> QED BY <1>2, <1>3, <1>4, <1>5, <1>6 DEF Next

\* Whatever the Agent does, through any number of session boundaries, an instance of
\* the Agent observes something only once it has been reset and given what the one
\* before it handed back, and an instance is closed when there is a next one.
THEOREM SessionsAreSeparate == Spec => []OnlyTheHandedStateCrosses
<1>1. SessionInv => OnlyTheHandedStateCrosses
  <2> SUFFICES ASSUME SessionInv, NEW k \in DOMAIN agents
               PROVE  /\ agents[k].memory # <<>> =>
                            /\ agents[k].reset
                            /\ k > 1 => agents[k].restored = agents[k - 1].handed
                      /\ k < Len(agents) => agents[k].closes > 0
    BY DEF OnlyTheHandedStateCrosses
  <2>1. k \in 1..Len(agents)
    BY DEF SessionInv, RunInv, AreAgents
  <2> QED BY <2>1 DEF SessionInv, RunInv, Released, Ready
<1> QED BY <1>1, SessionInit, StepSession, PTL DEF Spec

----------------------------------------------------------------------------
(* The merged timeline                                                      *)

\* m places the events of base in merged, in order; the rest of merged is added.
Places(base, merged, added, m) ==
    /\ m \in [1..Len(base) -> 1..Len(merged)]
    /\ \A k \in 1..Len(base) : merged[m[k]] = base[k]
    /\ \A j, k \in 1..Len(base) : j < k => m[j] < m[k]
    /\ \A i \in 1..Len(merged) : (\E k \in 1..Len(base) : i = m[k]) \/ merged[i] \in added

\* One more event, put anywhere, leaves the places of the others in order.
LEMMA PlacesAfterInsert ==
    ASSUME NEW base, Len(base) \in Nat, NEW merged, Len(merged) \in Nat, NEW added, NEW m,
           Places(base, merged, added, m),
           NEW p \in 1..(Len(merged) + 1), NEW new, Len(new) = Len(merged) + 1,
           new[p] \in added,
           \A i \in 1..Len(merged) : i < p => new[i] = merged[i],
           \A i \in 1..Len(merged) : i >= p => new[i + 1] = merged[i]
    PROVE  \E q : Places(base, new, added, q)
<1> DEFINE q == [k \in 1..Len(base) |-> IF m[k] < p THEN m[k] ELSE m[k] + 1]
<1>0. \A k \in 1..Len(base) : m[k] \in 1..Len(merged)
  BY DEF Places
<1>1. \A k \in 1..Len(base) : q[k] \in 1..Len(new)
  BY <1>0
<1>2. q \in [1..Len(base) -> 1..Len(new)]
  BY <1>1
<1>3. \A k \in 1..Len(base) : new[q[k]] = base[k]
  <2> TAKE k \in 1..Len(base)
  <2>0. m[k] \in 1..Len(merged) /\ merged[m[k]] = base[k]
    BY <1>0 DEF Places
  <2>1. CASE m[k] < p
    <3>1. q[k] = m[k] /\ new[m[k]] = merged[m[k]]
      BY <2>0, <2>1
    <3> QED BY <2>0, <3>1
  <2>2. CASE ~(m[k] < p)
    <3>1. m[k] >= p
      BY <2>0, <2>2
    <3>2. q[k] = m[k] + 1 /\ new[m[k] + 1] = merged[m[k]]
      BY <2>0, <2>2, <3>1
    <3> QED BY <2>0, <3>2
  <2> QED BY <2>1, <2>2
<1>4. \A j, k \in 1..Len(base) : j < k => q[j] < q[k]
  BY <1>0 DEF Places
<1>5. \A i \in 1..Len(new) : (\E k \in 1..Len(base) : i = q[k]) \/ new[i] \in added
  <2> TAKE i \in 1..Len(new)
  <2>1. CASE i = p
    BY <2>1
  <2>2. CASE i < p
    <3>1. i \in 1..Len(merged) /\ new[i] = merged[i]
      BY <2>2
    <3>2. ASSUME NEW k \in 1..Len(base), i = m[k] PROVE i = q[k]
      BY <2>2, <3>2
    <3>3. (\E k \in 1..Len(base) : i = m[k]) \/ merged[i] \in added
      BY <3>1 DEF Places
    <3> HIDE DEF q
    <3> QED BY <3>1, <3>2, <3>3
  <2>3. CASE i > p
    <3>1. i - 1 \in 1..Len(merged) /\ i - 1 >= p
      BY <2>3
    <3>2. new[(i - 1) + 1] = merged[i - 1]
      BY <3>1
    <3>3. new[i] = merged[i - 1]
      BY <3>2
    <3>4. ASSUME NEW k \in 1..Len(base), i - 1 = m[k] PROVE i = q[k]
      <4>1. ~(m[k] < p)
        BY <3>1, <3>4
      <4>2. q[k] = m[k] + 1
        BY <4>1
      <4> QED BY <3>4, <4>2
    <3>5. (\E k \in 1..Len(base) : i - 1 = m[k]) \/ merged[i - 1] \in added
      BY <3>1 DEF Places
    <3> HIDE DEF q
    <3> QED BY <3>3, <3>4, <3>5
  <2> QED BY <2>1, <2>2, <2>3
<1> HIDE DEF q
<1>6. Places(base, new, added, q)
  BY <1>2, <1>3, <1>4, <1>5, ZenonT(60) DEF Places
<1> QED BY <1>6, Zenon

\* new is base with e put at p.
Inserted(base, e, p, new) ==
    /\ p \in 1..(Len(base) + 1)
    /\ Len(new) = Len(base) + 1
    /\ new[p] = e
    /\ \A i \in 1..Len(base) : i < p => new[i] = base[i]
    /\ \A i \in 1..Len(base) : i >= p => new[i + 1] = base[i]

\* What InsertFloating does to a sequence of events.
LEMMA InsertIs ==
    ASSUME NEW V, NEW base \in Seq(V), NEW e \in V
    PROVE  /\ InsertFloating(base, e) \in Seq(V)
           /\ \E p : Inserted(base, e, p, InsertFloating(base, e))
<1> USE DEF Inserted
<1> DEFINE later == {i \in DOMAIN base : e.sequence < base[i].sequence}
<1>0. Len(base) \in Nat /\ DOMAIN base = 1..Len(base) /\ \A i \in 1..Len(base) : base[i] \in V
  OBVIOUS
<1>1. CASE later = {}
  <2>1. InsertFloating(base, e) = Append(base, e)
    BY <1>1 DEF InsertFloating
  <2>2. /\ Append(base, e) \in Seq(V) /\ Len(Append(base, e)) = Len(base) + 1
        /\ \A i \in 1..Len(base) : Append(base, e)[i] = base[i]
        /\ Append(base, e)[Len(base) + 1] = e
    BY AppendProperties
  <2>3. Len(base) + 1 \in 1..(Len(base) + 1) /\ \A i \in 1..Len(base) : ~(i >= Len(base) + 1)
    BY <1>0
  <2> QED BY <2>1, <2>2, <2>3
<1>2. CASE later # {}
  <2>0. later \subseteq Nat
    BY <1>0
  <2>1. PICK p \in later : \A y \in later : p <= y
    <3> HIDE DEF later
    <3> QED BY <1>2, <2>0, LeastNumber
  <2>2. Min(later) \in later
    BY <2>1 DEF Min
  <2>3. PICK q : q = Min(later)
    OBVIOUS
  <2>4. q \in 1..Len(base)
    BY <1>0, <2>2, <2>3
  <2> DEFINE new == InsertAt(base, q, e)
             a == SubSeq(base, 1, q - 1)
             b == SubSeq(base, q, Len(base))
  <2>5. InsertFloating(base, e) = new
    BY <1>2, <2>3 DEF InsertFloating
  <2>6. /\ a \in Seq(V) /\ Len(a) = q - 1
        /\ \A i \in 1..(q - 1) : a[i] = base[i]
    <3>1. 1 \in Int /\ q - 1 \in Int /\ \A i \in 1..(q - 1) : base[i] \in V
      BY <1>0, <2>4
    <3>2. /\ a \in Seq(V) /\ Len(a) = IF 1 <= q - 1 THEN (q - 1) - 1 + 1 ELSE 0
          /\ \A i \in 1..((q - 1) - 1 + 1) : a[i] = base[1 + i - 1]
      BY <3>1, SubSeqProperties
    <3> HIDE DEF a
    <3> QED BY <2>4, <3>2
  <2>7. /\ b \in Seq(V) /\ Len(b) = Len(base) - q + 1
        /\ \A i \in 1..(Len(base) - q + 1) : b[i] = base[q + i - 1]
    <3>1. q \in Int /\ Len(base) \in Int /\ \A i \in q..Len(base) : base[i] \in V
      BY <1>0, <2>4
    <3>2. /\ b \in Seq(V) /\ Len(b) = IF q <= Len(base) THEN Len(base) - q + 1 ELSE 0
          /\ \A i \in 1..(Len(base) - q + 1) : b[i] = base[q + i - 1]
      BY <3>1, SubSeqProperties
    <3> HIDE DEF b
    <3> QED BY <2>4, <3>2
  <2>8. new = a \o <<e>> \o b
    BY DEF InsertAt
  <2> HIDE DEF new, a, b
  <2>9. PICK one : one = <<e>>
    OBVIOUS
  <2>10. one \in Seq(V) /\ Len(one) = 1 /\ one[1] = e
    BY <2>9
  <2> DEFINE c == a \o one
  <2>11. c \in Seq(V) /\ Len(c) = q /\ \A i \in 1..q : c[i] = IF i <= q - 1 THEN a[i] ELSE one[i - (q - 1)]
    <3>1. /\ a \o one \in Seq(V) /\ Len(a \o one) = Len(a) + Len(one)
          /\ \A i \in 1..(Len(a) + Len(one)) :
                (a \o one)[i] = IF i <= Len(a) THEN a[i] ELSE one[i - Len(a)]
      BY <2>6, <2>10, ConcatProperties
    <3>2. Len(a) + Len(one) = q
      BY <2>4, <2>6, <2>10
    <3> QED BY <2>6, <3>1, <3>2
  <2>12. new = c \o b
    BY <2>8, <2>9
  <2> HIDE DEF c
  <2>13. /\ new \in Seq(V) /\ Len(new) = Len(base) + 1
         /\ \A i \in 1..(Len(base) + 1) : new[i] = IF i <= q THEN c[i] ELSE b[i - q]
    <3>1. /\ c \o b \in Seq(V) /\ Len(c \o b) = Len(c) + Len(b)
          /\ \A i \in 1..(Len(c) + Len(b)) : (c \o b)[i] = IF i <= Len(c) THEN c[i] ELSE b[i - Len(c)]
      BY <2>7, <2>11, ConcatProperties, SMTT(60)
    <3> QED BY <1>0, <2>4, <2>7, <2>11, <2>12, <3>1
  <2>14. new[q] = e
    BY <1>0, <2>4, <2>10, <2>11, <2>13
  <2>15. ASSUME NEW i \in 1..Len(base), i < q PROVE new[i] = base[i]
    BY <1>0, <2>4, <2>6, <2>11, <2>13, <2>15
  <2>16. ASSUME NEW i \in 1..Len(base), i >= q PROVE new[i + 1] = base[i]
    <3>1. new[i + 1] = b[i + 1 - q] /\ i + 1 - q \in 1..(Len(base) - q + 1)
      BY <1>0, <2>4, <2>13, <2>16
    <3>2. b[i + 1 - q] = base[q + (i + 1 - q) - 1]
      BY <2>7, <3>1
    <3> QED BY <2>4, <3>1, <3>2
  <2> QED BY <1>0, <2>4, <2>5, <2>13, <2>14, <2>15, <2>16, SMTT(60)
<1> QED BY <1>1, <1>2

\* The events the merged timeline may hold.
Events == Range(Timeline) \cup Range(cell.injections)

\* One injection after the other is put among the events.
IsMerged(inj, f) ==
    /\ f[0] = Timeline
    /\ \A i \in 1..Len(inj) : f[i] = IF inj[i].anchor = "none"
                                      THEN InsertFloating(f[i - 1], inj[i]) ELSE f[i - 1]

\* That is how the timeline is merged.
LEMMA MergedIs ==
    ASSUME cell \in Conditions
    PROVE  /\ cell.injections \in Seq(Range(cell.injections))
           /\ Timeline \in Seq(Events) /\ Range(cell.injections) \subseteq Events
           /\ \E f : IsMerged(cell.injections, f) /\ MergedTimeline = f[Len(cell.injections)]
<1>0. PICK inj, E : inj = cell.injections /\ E = Events
  OBVIOUS
<1> DEFINE n == Len(inj)
           V == Seq(E)
           Merges(f) == f = [i \in 0..n |->
                              IF i = 0 THEN Timeline
                              ELSE IF inj[i].anchor = "none"
                                   THEN InsertFloating(f[i - 1], inj[i])
                                   ELSE f[i - 1]]
<1>1. inj \in Seq(Range(inj)) /\ n \in Nat /\ \A i \in 1..n : inj[i] \in Range(inj)
  <2>1. inj \in Seq(Range(inj))
    BY <1>0, ScenarioAssumption, Zenon
  <2> QED BY <2>1
<1>2. Timeline \in V /\ Len(Timeline) \in Nat /\ Range(inj) \subseteq E
  BY <1>0, ScenarioAssumption, SeqMonotonic DEF Events
<1>3. \E f : Merges(f)
  <2> DEFINE G == [x \in (1..n) \X V |->
                     IF inj[x[1]].anchor = "none" THEN InsertFloating(x[2], inj[x[1]]) ELSE x[2]]
  <2>1. ASSUME NEW i \in 1..n, NEW s \in V PROVE G[<<i, s>>] \in V
    <3>1. inj[i] \in E
      BY <1>1, <1>2
    <3>2. InsertFloating(s, inj[i]) \in Seq(E)
      BY <3>1, InsertIs
    <3> QED BY <3>2
  <2>2. G \in [(1..n) \X V -> V]
    BY <2>1
  <2>3. \A i \in 1..n : \A s \in V :
           G[<<i, s>>] = IF inj[i].anchor = "none" THEN InsertFloating(s, inj[i]) ELSE s
    OBVIOUS
  <2> HIDE DEF G, V, n
  <2>31. PICK f : IsRecursion(V, Timeline, n, G, f)
    <3>1. n \in Nat /\ Timeline \in V
      BY <1>1, <1>2
    <3> QED BY <2>2, <3>1, RecursionExists
  <2>4. f \in [0..n -> V] /\ f[0] = Timeline /\ \A i \in 1..n : f[i] = G[<<i, f[i - 1]>>]
    BY <2>31 DEF IsRecursion
  <2>5. \A i \in 0..n : i # 0 => i \in 1..n /\ i - 1 \in 0..n
    BY <1>1
  <2>6. \A i \in 0..n : f[i] = IF i = 0 THEN Timeline
                              ELSE IF inj[i].anchor = "none"
                                   THEN InsertFloating(f[i - 1], inj[i])
                                   ELSE f[i - 1]
    <3> TAKE i \in 0..n
    <3>1. CASE i = 0
      BY <2>4, <3>1
    <3>2. CASE i # 0
      <4>1. i \in 1..n /\ f[i - 1] \in V
        BY <2>4, <2>5, <3>2
      <4>2. f[i] = G[<<i, f[i - 1]>>]
        BY <2>4, <4>1
      <4> QED BY <2>3, <3>2, <4>1, <4>2
    <3> QED BY <3>1, <3>2
  <2>7. Merges(f)
    <3> USE DEF n
    <3> QED BY <2>4, <2>6
  <2> QED BY <2>7
<1> DEFINE f == CHOOSE g : Merges(g)
<1>4. Merges(f)
  BY <1>3
<1>5. MergedTimeline = f[n]
  BY <1>0 DEF MergedTimeline, TimelineOf
<1>6. /\ f[0] = Timeline
      /\ \A i \in 1..n : f[i] = IF inj[i].anchor = "none" THEN InsertFloating(f[i - 1], inj[i])
                                ELSE f[i - 1]
  <2> HIDE DEF f
  <2>1. 0 \in 0..n /\ \A i \in 1..n : i \in 0..n /\ i # 0
    BY <1>1
  <2> QED BY <1>4, <2>1
<1> HIDE DEF f
<1>7. IsMerged(inj, f)
  BY <1>6 DEF IsMerged
<1> QED BY <1>0, <1>1, <1>2, <1>5, <1>7

\* The merged timeline is the scenario's, in order, with injections of the condition
\* put between its events.
LEMMA MergedPlaces ==
    ASSUME cell \in Conditions
    PROVE  /\ MergedTimeline \in Seq(Events)
           /\ \E m : Places(Timeline, MergedTimeline, Range(cell.injections), m)
<1>0. PICK inj, E, f : /\ inj = cell.injections /\ E = Events
                       /\ IsMerged(inj, f) /\ MergedTimeline = f[Len(inj)]
  BY MergedIs
<1> DEFINE n == Len(inj)
           V == Seq(E)
           Good(s) == s \in V /\ \E m : Places(Timeline, s, Range(inj), m)
<1>1. inj \in Seq(Range(inj)) /\ n \in Nat /\ \A i \in 1..n : inj[i] \in Range(inj)
  <2>1. inj \in Seq(Range(inj))
    BY <1>0, MergedIs
  <2> QED BY <2>1
<1>2. Timeline \in V /\ Len(Timeline) \in Nat /\ Range(inj) \subseteq E
  <2>1. Timeline \in V /\ Range(inj) \subseteq E
    BY <1>0, MergedIs
  <2> QED BY <2>1
<1>6. /\ f[0] = Timeline
      /\ \A i \in 1..n : f[i] = IF inj[i].anchor = "none" THEN InsertFloating(f[i - 1], inj[i])
                                ELSE f[i - 1]
  BY <1>0 DEF IsMerged
<1> DEFINE N == {i \in Nat : i <= n => Good(f[i])}
<1>7. 0 \in N
  <2> DEFINE m == [k \in 1..Len(Timeline) |-> k]
  <2>1. Places(Timeline, Timeline, Range(inj), m)
    BY <1>2 DEF Places
  <2>2. f[0] = Timeline
    BY <1>1, <1>6
  <2> HIDE DEF m
  <2>3. Good(Timeline)
    BY <1>2, <2>1
  <2> HIDE DEF Good
  <2> QED BY <2>2, <2>3
<1>8. ASSUME NEW i \in N PROVE i + 1 \in N
  <2> SUFFICES ASSUME i + 1 <= n PROVE Good(f[i + 1])
    OBVIOUS
  <2>1. Good(f[i]) /\ i + 1 \in 1..n /\ (i + 1) - 1 = i
    BY <1>1
  <2>2. f[i + 1] = IF inj[i + 1].anchor = "none" THEN InsertFloating(f[i], inj[i + 1]) ELSE f[i]
    BY <1>6, <2>1
  <2>3. CASE inj[i + 1].anchor # "none"
    BY <2>1, <2>2, <2>3
  <2>4. CASE inj[i + 1].anchor = "none"
    <3>1. PICK s, e, m : s = f[i] /\ e = inj[i + 1] /\ Places(Timeline, s, Range(inj), m)
      BY <2>1
    <3>2. s \in Seq(E) /\ e \in E /\ e \in Range(inj) /\ Len(s) \in Nat
      BY <1>1, <1>2, <2>1, <3>1
    <3>3. PICK new : new = InsertFloating(s, e)
      OBVIOUS
    <3>4. PICK p : new \in Seq(E) /\ Inserted(s, e, p, new)
      BY <3>2, <3>3, InsertIs
    <3>5. PICK added : added = Range(inj)
      OBVIOUS
    <3>6. \E q : Places(Timeline, new, added, q)
      <4>1. Len(Timeline) \in Nat /\ Len(s) \in Nat /\ new[p] \in added
        BY <1>2, <3>2, <3>4, <3>5 DEF Inserted
      <4>2. Places(Timeline, s, added, m)
        BY <3>1, <3>5
      <4> QED BY <3>4, <4>1, <4>2, PlacesAfterInsert DEF Inserted
    <3>7. f[i + 1] = new
      BY <2>2, <2>4, <3>1, <3>3
    <3> QED BY <3>4, <3>5, <3>6, <3>7
  <2> QED BY <2>3, <2>4
<1>9. N \subseteq Nat
  OBVIOUS
<1> HIDE DEF N
<1>10. n \in N
  <2>1. N = Nat
    BY <1>7, <1>8, <1>9, NatSetInduction
  <2> QED BY <1>1, <2>1
<1>11. Good(f[n])
  BY <1>1, <1>10 DEF N
<1> QED BY <1>0, <1>11

----------------------------------------------------------------------------
(* The updates of the world                                                 *)

\* The updates of the scenario's events that stand before or at p in merged.
Applied(merged, added, updates, p, applied) ==
    \E m, c, f :
        /\ Places(Timeline, merged, added, m)
        /\ c \in 0..Len(Timeline)
        /\ \A k \in 1..Len(Timeline) : k <= c <=> m[k] <= p
        /\ IsFlatten(updates, Len(Timeline), f)
        /\ Len(Timeline) # 0 => FlattenSeq(updates) = f[Len(Timeline)]
        /\ applied = IF c = 0 THEN <<>> ELSE f[c]

\* One more event.
LEMMA AppliedNext ==
    ASSUME NEW merged, Len(merged) \in Nat, NEW added, NEW updates, NEW p \in Nat,
           p < Len(merged), NEW applied, NEW new, Len(Timeline) \in Nat,
           Applied(merged, added, updates, p, applied),
           \A k \in 1..Len(Timeline) : \E S : updates[k] \in Seq(S),
           merged[p + 1] \in added => new = applied,
           \A k \in 1..Len(Timeline) :
               merged[p + 1] = Timeline[k] => /\ merged[p + 1] \notin added
                                              /\ new = applied \o updates[k]
    PROVE  Applied(merged, added, updates, p + 1, new)
<1>1. PICK m, c, f :
        /\ Places(Timeline, merged, added, m)
        /\ c \in 0..Len(Timeline)
        /\ \A k \in 1..Len(Timeline) : k <= c <=> m[k] <= p
        /\ IsFlatten(updates, Len(Timeline), f)
        /\ Len(Timeline) # 0 => FlattenSeq(updates) = f[Len(Timeline)]
        /\ applied = IF c = 0 THEN <<>> ELSE f[c]
  BY DEF Applied
<1>2. /\ \A k \in 1..Len(Timeline) : m[k] \in 1..Len(merged) /\ merged[m[k]] = Timeline[k]
      /\ \A j, k \in 1..Len(Timeline) : j < k => m[j] < m[k]
      /\ \A i \in 1..Len(merged) : (\E k \in 1..Len(Timeline) : i = m[k]) \/ merged[i] \in added
  BY <1>1 DEF Places
<1>3. CASE \E k \in 1..Len(Timeline) : p + 1 = m[k]
  <2>1. PICK k \in 1..Len(Timeline) : p + 1 = m[k]
    BY <1>3
  <2>2. new = applied \o updates[k]
    BY <1>2, <2>1
  <2>3. k > c
    <3>1. ~(m[k] <= p)
      BY <2>1
    <3> QED BY <1>1, <3>1
  <2>4. k = c + 1
    <3> SUFFICES ASSUME k > c + 1 PROVE FALSE
      BY <1>1, <2>3
    <3>1. c + 1 \in 1..Len(Timeline) /\ c + 1 < k /\ ~(c + 1 <= c)
      BY <1>1, <2>1
    <3>2. m[c + 1] < p + 1 /\ m[c + 1] \in Nat /\ ~(m[c + 1] <= p)
      BY <1>1, <1>2, <2>1, <3>1
    <3> QED BY <3>2
  <2>5. f[k] = IF k = 1 THEN updates[k] ELSE f[k - 1] \o updates[k]
    BY <1>1 DEF IsFlatten
  <2>6. new = f[k]
    <3>1. CASE c = 0
      <4>1. PICK S : updates[k] \in Seq(S)
        OBVIOUS
      <4>2. <<>> \o updates[k] = updates[k]
        BY <4>1, ConcatEmptySeq
      <4> QED BY <1>1, <2>2, <2>4, <2>5, <3>1, <4>2
    <3>2. CASE c # 0
      <4>1. applied = f[c] /\ k # 1 /\ k - 1 = c
        BY <1>1, <2>4, <3>2
      <4>2. f[k] = f[k - 1] \o updates[k]
        BY <2>5, <4>1
      <4> QED BY <2>2, <4>1, <4>2
    <3> QED BY <3>1, <3>2
  <2>7. \A j \in 1..Len(Timeline) : j <= k <=> m[j] <= p + 1
    <3> TAKE j \in 1..Len(Timeline)
    <3>1. CASE j < k
      <4>1. m[j] < m[k] /\ m[j] \in Int /\ m[k] = p + 1 /\ p \in Int
        BY <1>2, <2>1, <3>1
      <4> QED BY <3>1, <4>1
    <3>2. CASE j = k
      BY <2>1, <3>2
    <3>3. CASE j > k
      BY <1>2, <2>1, <3>3
    <3> QED BY <3>1, <3>2, <3>3
  <2>8. k \in 0..Len(Timeline) /\ k # 0
    OBVIOUS
  <2> QED BY <1>1, <2>6, <2>7, <2>8 DEF Applied
<1>4. CASE ~ \E k \in 1..Len(Timeline) : p + 1 = m[k]
  <2>1. new = applied
    BY <1>2, <1>4
  <2>2. \A k \in 1..Len(Timeline) : k <= c <=> m[k] <= p + 1
    <3> TAKE k \in 1..Len(Timeline)
    <3>1. m[k] # p + 1 /\ m[k] \in Nat
      BY <1>2, <1>4
    <3> QED BY <1>1, <3>1
  <2> QED BY <1>1, <2>1, <2>2 DEF Applied
<1> QED BY <1>3, <1>4

\* The updates of the scenario's events, in a condition.
EventUpdates == [i \in DOMAIN Timeline |-> UpdatesOf(Timeline[i])]

AtLast == pos = Len(MergedTimeline)

WorldInv ==
    /\ RunInv
    /\ cell \in Conditions
    /\ world = [updates |-> world.updates, tools |-> world.tools]
    /\ pos \in 0..Len(MergedTimeline)
    /\ valid /\ stage \in {"closing", "closed", "returned"} => AtLast
    /\ run # Nothing => stage = "returned" /\ run.valid = valid
    /\ Applied(MergedTimeline, Range(cell.injections), EventUpdates, pos, world.updates)

\* What a step leaves as it is.
LEMMA StepFrame ==
    ASSUME [Next]_vars
    PROVE  /\ cell' = cell
           /\ NextEvent \/ pos' = pos
           /\ \/ NextEvent \/ world' = world
              \/ \E t : world' = [world EXCEPT !.tools = t]
           /\ Return \/ run' = run
<1> USE DEF Record, GiveUp, Invoking, Done, Unchanged, EndActLoop, Raise, Replacing, AtEnd
<1>1. CASE Lifecycle
  <2>1. CASE ResetAgent
    BY <2>1 DEF ResetAgent
  <2>2. CASE ObserveEvent
    BY <2>2 DEF ObserveEvent
  <2>3. CASE MaintainAgent \/ MaintainWithoutCall
    BY <2>3 DEF MaintainAgent, MaintainWithoutCall
  <2>4. CASE \E state \in {Nothing, Current} : EndSession(state)
    BY <2>4 DEF EndSession
  <2>5. CASE ReplaceAgent \/ ReplaceFails
    BY <2>5 DEF ReplaceAgent, ReplaceFails
  <2>6. CASE RestoreAgent
    BY <2>6 DEF RestoreAgent
  <2> QED BY <1>1, <2>1, <2>2, <2>3, <2>4, <2>5, <2>6 DEF Lifecycle
<1>2. CASE Probe
  <2>1. CASE \E score \in {0, 1}, recalled \in BOOLEAN : RespondToProbe(score, recalled)
    BY <2>1 DEF RespondToProbe
  <2>2. CASE \E score \in {0, 1} : FinishAct(score)
    BY <2>2 DEF FinishAct
  <2>3. CASE \E id \in ToolCallIds : CallTool(id)
    BY <2>3 DEF CallTool
  <2>4. CASE Misbehave
    BY <2>4 DEF Misbehave
  <2> QED BY <1>2, <2>1, <2>2, <2>3, <2>4 DEF Probe
<1>3. CASE \E fault \in Fault : Retry(fault) \/ LifecycleFailure(fault)
  BY <1>3 DEF Retry, LifecycleFailure
<1>4. CASE \E fault \in Fault : ProbeFailure(fault) \/ TaskFailure(fault)
  BY <1>4 DEF ProbeFailure, TaskFailure
<1>5. CASE \E d \in Descriptors \cup {NoDescriptor} : Describe(d)
  BY <1>5 DEF Describe
<1>6. CASE NextEvent
  BY <1>6 DEF NextEvent
<1>7. CASE Resend \/ UNCHANGED vars
  BY <1>7 DEF Resend, vars
<1>8. CASE ScorePending \/ ScoringFails
  BY <1>8 DEF ScorePending, ScoringFails
<1>9. CASE Return
  BY <1>9 DEF Return
<1>10. CASE \E outcome \in {"success", "failure"} : Close(outcome)
  BY <1>10 DEF Close
<1> QED BY <1>1, <1>2, <1>3, <1>4, <1>5, <1>6, <1>7, <1>8, <1>9, <1>10 DEF Next

\* How a run that no failure has stopped comes to its end.
LEMMA StepEnds ==
    ASSUME [Next]_vars
    PROVE  /\ valid' => valid
           /\ stage \in {"returned", "raised"} => stage' = stage /\ valid' = valid
           /\ valid' /\ stage' \in {"closing", "closed", "returned"} =>
                 \/ stage \in {"closing", "closed", "returned"}
                 \/ AtEnd
<1> USE DEF Record, GiveUp, Invoking, Done, Unchanged, EndActLoop, Raise, Replacing, AtEnd
<1>1. CASE Lifecycle
  <2>1. CASE ResetAgent
    BY <2>1 DEF ResetAgent
  <2>2. CASE ObserveEvent
    BY <2>2 DEF ObserveEvent
  <2>3. CASE MaintainAgent \/ MaintainWithoutCall
    BY <2>3 DEF MaintainAgent, MaintainWithoutCall
  <2>4. CASE \E state \in {Nothing, Current} : EndSession(state)
    BY <2>4 DEF EndSession
  <2>5. CASE ReplaceAgent \/ ReplaceFails
    BY <2>5 DEF ReplaceAgent, ReplaceFails
  <2>6. CASE RestoreAgent
    BY <2>6 DEF RestoreAgent
  <2> QED BY <1>1, <2>1, <2>2, <2>3, <2>4, <2>5, <2>6 DEF Lifecycle
<1>2. CASE Probe
  <2>1. CASE \E score \in {0, 1}, recalled \in BOOLEAN : RespondToProbe(score, recalled)
    BY <2>1 DEF RespondToProbe
  <2>2. CASE \E score \in {0, 1} : FinishAct(score)
    BY <2>2 DEF FinishAct
  <2>3. CASE \E id \in ToolCallIds : CallTool(id)
    BY <2>3 DEF CallTool
  <2>4. CASE Misbehave
    BY <2>4 DEF Misbehave
  <2> QED BY <1>2, <2>1, <2>2, <2>3, <2>4 DEF Probe
<1>3. ASSUME NEW fault \in Fault, Retry(fault) \/ ProbeFailure(fault) \/ TaskFailure(fault)
      PROVE  stage = "running" /\ stage' \in {"running", "raised"} /\ valid' = valid
  BY <1>3 DEF Retry, ProbeFailure, TaskFailure
<1>4. ASSUME NEW fault \in Fault, LifecycleFailure(fault)
      PROVE  stage = "running" /\ ~valid'
  BY <1>4 DEF LifecycleFailure
<1>5. CASE \E d \in Descriptors \cup {NoDescriptor} : Describe(d)
  BY <1>5 DEF Describe
<1>6. CASE NextEvent
  BY <1>6 DEF NextEvent
<1>7. CASE Resend \/ UNCHANGED vars
  BY <1>7 DEF Resend, vars
<1>8. CASE ScorePending \/ ScoringFails
  BY <1>8 DEF ScorePending, ScoringFails
<1>9. CASE Return
  BY <1>9 DEF Return
<1>10. CASE \E outcome \in {"success", "failure"} : Close(outcome)
  BY <1>10 DEF Close
<1> QED BY <1>1, <1>2, <1>3, <1>4, <1>5, <1>6, <1>7, <1>8, <1>9, <1>10 DEF Next

\* An event of the scenario has updates, and is none of the injections.
LEMMA EventFacts ==
    ASSUME cell \in Conditions
    PROVE  /\ Len(Timeline) \in Nat /\ DOMAIN Timeline = 1..Len(Timeline)
           /\ EventUpdates = [k \in 1..Len(Timeline) |-> UpdatesOf(Timeline[k])]
           /\ \A k \in 1..Len(Timeline) : \E S : EventUpdates[k] \in Seq(S)
           /\ \A k \in 1..Len(Timeline) : ~Injected(Timeline[k])
           /\ \A k \in 1..Len(Timeline) : Timeline[k] \notin Range(cell.injections)
           /\ MergedTimeline \in Seq(Events) /\ Len(MergedTimeline) \in Nat
<1>1. Len(Timeline) \in Nat /\ DOMAIN Timeline = 1..Len(Timeline)
  BY ScenarioAssumption
<1>2. EventUpdates = [k \in 1..Len(Timeline) |-> UpdatesOf(Timeline[k])]
  BY <1>1 DEF EventUpdates
<1>3. ASSUME NEW k \in 1..Len(Timeline) PROVE \E S : EventUpdates[k] \in Seq(S)
  <2>1. CASE Timeline[k].id \in DOMAIN cell.policyUpdates
    <3>1. EventUpdates[k] = cell.policyUpdates[Timeline[k].id]
      BY <1>2, <2>1 DEF UpdatesOf
    <3>2. cell.policyUpdates[Timeline[k].id] \in Seq(Range(cell.policyUpdates[Timeline[k].id]))
      BY <2>1, ScenarioAssumption
    <3> QED BY <3>1, <3>2
  <2>2. CASE Timeline[k].id \notin DOMAIN cell.policyUpdates
    <3>1. EventUpdates[k] = Timeline[k].updates
      BY <1>2, <2>2 DEF UpdatesOf
    <3>2. Timeline[k].updates \in Seq(Range(Timeline[k].updates))
      BY <1>1, ScenarioAssumption
    <3> QED BY <3>1, <3>2
  <2> QED BY <2>1, <2>2
<1>4. ASSUME NEW k \in 1..Len(Timeline), NEW i \in DOMAIN cell.injections
      PROVE  cell.injections[i] # Timeline[k]
  <2>1. cell.injections[i].id # Timeline[k].id
    BY <1>1, ScenarioAssumption
  <2> QED BY <2>1
<1>5. \A k \in 1..Len(Timeline) : ~Injected(Timeline[k])
  BY <1>4 DEF Injected
<1>6. \A k \in 1..Len(Timeline) : Timeline[k] \notin Range(cell.injections)
  BY <1>4 DEF Range
<1>7. MergedTimeline \in Seq(Events)
  BY MergedPlaces
<1> QED BY <1>1, <1>2, <1>3, <1>5, <1>6, <1>7

\* At the start, none is applied.
LEMMA AppliedFirst ==
    ASSUME NEW merged, NEW added, NEW m, Places(Timeline, merged, added, m), Len(merged) \in Nat,
           Len(Timeline) \in Nat, NEW W, NEW updates \in [1..Len(Timeline) -> W]
    PROVE  Applied(merged, added, updates, 0, <<>>)
<1>1. \A k \in 1..Len(Timeline) : m[k] \in 1..Len(merged)
  BY DEF Places
<1>2. \A k \in 1..Len(Timeline) : k <= 0 <=> m[k] <= 0
  BY <1>1
<1>3. Len(updates) = Len(Timeline)
  OBVIOUS
<1>4. \E f : /\ IsFlatten(updates, Len(Timeline), f)
             /\ Len(Timeline) # 0 => FlattenSeq(updates) = f[Len(Timeline)]
  <2>1. CASE Len(Timeline) = 0
    BY <2>1, FlattenExists
  <2>2. CASE Len(Timeline) # 0
    BY <1>3, <2>2, FlattenIs
  <2> QED BY <2>1, <2>2
<1>5. PICK f : /\ IsFlatten(updates, Len(Timeline), f)
               /\ Len(Timeline) # 0 => FlattenSeq(updates) = f[Len(Timeline)]
  BY <1>4
<1>6. 0 \in 0..Len(Timeline) /\ <<>> = IF 0 = 0 THEN <<>> ELSE f[0]
  OBVIOUS
<1> QED BY <1>2, <1>5, <1>6, Zenon DEF Applied

\* A run starts with no update applied.
LEMMA InitWorld == Init => WorldInv
<1> SUFFICES ASSUME Init PROVE WorldInv
  OBVIOUS
<1>1. /\ cell \in Conditions /\ stage = "describing" /\ pos = 0 /\ run = Nothing
      /\ world = [updates |-> <<>>, tools |-> <<>>]
  BY DEF Init
<1>2. world = [updates |-> world.updates, tools |-> world.tools] /\ world.updates = <<>>
  BY <1>1
<1>3. PICK merged, added, updates : /\ merged = MergedTimeline /\ added = Range(cell.injections)
                                    /\ updates = EventUpdates
  OBVIOUS
<1>4. PICK m : Places(Timeline, merged, added, m)
  BY <1>1, <1>3, MergedPlaces
<1>5. Len(merged) \in Nat /\ Len(Timeline) \in Nat
  BY <1>1, <1>3, EventFacts
<1>6. updates \in [1..Len(Timeline) -> {updates[k] : k \in 1..Len(Timeline)}]
  BY <1>1, <1>3, EventFacts
<1>7. Applied(merged, added, updates, 0, <<>>)
  BY <1>4, <1>5, <1>6, AppliedFirst
<1>8. Applied(MergedTimeline, Range(cell.injections), EventUpdates, pos, world.updates)
  BY <1>1, <1>2, <1>3, <1>7
<1>9. pos \in 0..Len(MergedTimeline)
  BY <1>1, <1>3, <1>5
<1>10. stage \notin {"closing", "closed", "returned"}
  BY <1>1
<1> QED BY <1>1, <1>2, <1>8, <1>9, <1>10, InitRunInv DEF WorldInv

\* The next event is applied unless it is an injection.
LEMMA EventApplied ==
    ASSUME WorldInv, NextEvent
    PROVE  Applied(MergedTimeline, Range(cell.injections), EventUpdates, pos + 1, world'.updates)
<1>1. PICK merged, added, updates, p, applied, new :
          /\ merged = MergedTimeline /\ added = Range(cell.injections)
          /\ updates = EventUpdates /\ p = pos /\ applied = world.updates /\ new = world'.updates
  OBVIOUS
<1>2. /\ cell \in Conditions /\ p \in Nat /\ p < Len(merged) /\ Len(merged) \in Nat
      /\ Applied(merged, added, updates, p, applied)
  BY <1>1, EventFacts DEF WorldInv, NextEvent
<1>3. world = [updates |-> world.updates, tools |-> world.tools]
  BY DEF WorldInv
<1>4. new = IF Injected(merged[p + 1]) THEN applied ELSE applied \o UpdatesOf(merged[p + 1])
  BY <1>1, <1>3 DEF NextEvent
<1>5. merged[p + 1] \in added => new = applied
  BY <1>1, <1>4 DEF Injected, Range
<1>6. ASSUME NEW k \in 1..Len(Timeline), merged[p + 1] = Timeline[k]
      PROVE  merged[p + 1] \notin added /\ new = applied \o updates[k]
  BY <1>1, <1>2, <1>4, <1>6, EventFacts
<1>7. Len(Timeline) \in Nat /\ \A k \in 1..Len(Timeline) : \E S : updates[k] \in Seq(S)
  BY <1>1, <1>2, EventFacts
<1>8. Applied(merged, added, updates, p + 1, new)
  BY <1>2, <1>5, <1>6, <1>7, AppliedNext
<1> QED BY <1>1, <1>8

\* Every step applies the updates it should, and no others.
LEMMA StepWorld == WorldInv /\ [Next]_vars => WorldInv'
<1> SUFFICES ASSUME WorldInv, [Next]_vars PROVE WorldInv'
  OBVIOUS
<1>1. RunInv' /\ cell' = cell /\ cell' \in Conditions
  BY StepRunInv, StepFrame DEF WorldInv
<1>2. /\ MergedTimeline' = MergedTimeline /\ EventUpdates' = EventUpdates
      /\ Len(MergedTimeline) \in Nat
  BY <1>1, EventFacts DEF WorldInv, MergedTimeline, EventUpdates, UpdatesOf
<1>3. /\ world' = [updates |-> world'.updates, tools |-> world'.tools]
      /\ NextEvent \/ world'.updates = world.updates
  <2>1. world = [updates |-> world.updates, tools |-> world.tools]
    BY DEF WorldInv
  <2>2. CASE NextEvent
    BY <2>1, <2>2 DEF NextEvent
  <2>3. CASE ~NextEvent
    BY <2>1, <2>3, StepFrame
  <2> QED BY <2>2, <2>3
<1>4. /\ pos' \in 0..Len(MergedTimeline)'
      /\ Applied(MergedTimeline, Range(cell.injections), EventUpdates, pos, world.updates)'
  <2>1. CASE NextEvent
    <3>1. pos' = pos + 1 /\ pos < Len(MergedTimeline)
      BY <2>1 DEF NextEvent
    <3> QED BY <1>1, <1>2, <2>1, <3>1, EventApplied DEF WorldInv
  <2>2. CASE ~NextEvent
    BY <1>1, <1>2, <1>3, <2>2, StepFrame DEF WorldInv
  <2> QED BY <2>1, <2>2
<1>5. valid' /\ stage' \in {"closing", "closed", "returned"} => AtLast'
  <2> SUFFICES ASSUME valid', stage' \in {"closing", "closed", "returned"} PROVE AtLast'
    OBVIOUS
  <2>1. valid /\ (stage \in {"closing", "closed", "returned"} \/ AtEnd)
    BY StepEnds, Zenon
  <2>2. AtLast
    BY <2>1 DEF WorldInv, AtEnd, AtLast
  <2>3. ~NextEvent
    BY <2>1 DEF NextEvent, AtEnd
  <2> QED BY <1>2, <2>2, <2>3, StepFrame DEF AtLast
<1>6. run' # Nothing => stage' = "returned" /\ run'.valid = valid'
  <2>1. CASE Return
    BY <2>1 DEF Return
  <2>2. CASE ~Return
    BY <2>2, StepFrame, StepEnds DEF WorldInv
  <2> QED BY <2>1, <2>2
<1> QED BY <1>1, <1>3, <1>4, <1>5, <1>6 DEF WorldInv

\* A valid run has applied the world updates of every event of its scenario, in the
\* scenario's order and once each, whatever its condition removes or injects.
THEOREM WorldIsNoTreatment == Spec => []MemoryIsTheOnlyTreatment
<1>1. WorldInv => MemoryIsTheOnlyTreatment
  <2> SUFFICES ASSUME WorldInv, run # Nothing, run.valid
               PROVE  world.updates = FlattenSeq(EventUpdates)
    BY DEF MemoryIsTheOnlyTreatment, EventUpdates
  <2>1. AtLast /\ cell \in Conditions
    BY DEF WorldInv
  <2>2. PICK merged, added, updates, applied :
          /\ merged = MergedTimeline /\ added = Range(cell.injections)
          /\ updates = EventUpdates /\ applied = world.updates
    OBVIOUS
  <2>3. Applied(merged, added, updates, Len(merged), applied) /\ Len(merged) \in Nat
    BY <2>1, <2>2, EventFacts DEF WorldInv, AtLast
  <2>4. PICK m, c, f :
        /\ Places(Timeline, merged, added, m)
        /\ c \in 0..Len(Timeline)
        /\ \A k \in 1..Len(Timeline) : k <= c <=> m[k] <= Len(merged)
        /\ Len(Timeline) # 0 => FlattenSeq(updates) = f[Len(Timeline)]
        /\ applied = IF c = 0 THEN <<>> ELSE f[c]
    BY <2>3 DEF Applied
  <2>5. Len(Timeline) \in Nat
    BY <2>1, EventFacts
  <2>6. CASE Len(Timeline) # 0
    <3>1. Len(Timeline) \in 1..Len(Timeline)
      BY <2>5, <2>6
    <3>2. m[Len(Timeline)] <= Len(merged)
      BY <2>3, <2>4, <3>1 DEF Places
    <3>3. c = Len(Timeline)
      BY <2>4, <2>5, <3>1, <3>2
    <3> QED BY <2>2, <2>4, <2>6, <3>3
  <2>7. CASE Len(Timeline) = 0
    <3>1. updates = <<>>
      BY <2>1, <2>2, <2>7, EventFacts
    <3>2. FlattenSeq(<<>>) = <<>>
      BY DEF FlattenSeq
    <3> QED BY <2>2, <2>4, <2>7, <3>1, <3>2
  <2> QED BY <2>6, <2>7
<1> QED BY <1>1, InitWorld, StepWorld, PTL DEF Spec

============================================================================
