------------------------ MODULE SameModelAgentProofs ------------------------
(***************************************************************************)
(* Theorems about the agent of SameModelAgent, for any memory conditions,  *)
(* clients, number of attempts, limits, experiences and runs.              *)
(***************************************************************************)
EXTENDS SameModelAgent, SequenceTheorems, TLAPS

----------------------------------------------------------------------------
(* Types *)

Lines == Nat

\* What the agent knows of the operation it is in, and of the client's process.
CallOK ==
    /\ op \in Ops \cup {NoOp} /\ sent \in Nat
    /\ errors \subseteq {"parse", "transport"} /\ mixed \in BOOLEAN
    /\ stdin \in Seq(Nat) /\ pipe \in Seq(Lines) /\ buffer \in Seq(Lines)

\* What it remembers of the run.
MemoryOK ==
    /\ condition \in {"B0", "B1", "B2", "backend"}
    /\ lived \in Nat /\ since \in 0..lived
    /\ longTerm \in Seq(Nat) /\ transient \in Seq(Nat)

----------------------------------------------------------------------------
(* Lemmas about sequences *)

\* Inserting a new element into a sequence without repetitions.
LEMMA InsertNew ==
    ASSUME NEW s \in Seq(Nat), NEW t \in Seq(Nat), NEW x \in Nat,
           IsInjective(s \o t), x \notin Range(s \o t)
    PROVE  /\ IsInjective((s \o <<x>>) \o t)
           /\ Range((s \o <<x>>) \o t) = Range(s \o t) \cup {x}
<1> DEFINE a == s \o t
           u == (s \o <<x>>) \o t
           k == Len(s) + 1
           from(i) == IF i < k THEN i ELSE i - 1
<1>1. a \in Seq(Nat) /\ Len(a) = Len(s) + Len(t)
      /\ \A i \in 1..(Len(s) + Len(t)) : a[i] = IF i <= Len(s) THEN s[i] ELSE t[i - Len(s)]
  BY ConcatProperties
<1>2. s \o <<x>> \in Seq(Nat) /\ Len(s \o <<x>>) = k
      /\ \A i \in 1..k : (s \o <<x>>)[i] = IF i <= Len(s) THEN s[i] ELSE x
  <2>1. <<x>> \in Seq(Nat) /\ Len(<<x>>) = 1 /\ <<x>>[1] = x
    OBVIOUS
  <2>2. Len(s) \in Nat
    OBVIOUS
  <2> QED
    BY <2>1, <2>2, ConcatProperties, SMTT(60)
<1>3. u \in Seq(Nat) /\ Len(u) = k + Len(t)
      /\ \A i \in 1..(k + Len(t)) : u[i] = IF i <= k THEN (s \o <<x>>)[i] ELSE t[i - k]
  BY <1>2, ConcatProperties
<1>4. Len(s) \in Nat /\ Len(t) \in Nat /\ k \in Nat
  OBVIOUS
<1>5. DOMAIN a = 1..(Len(s) + Len(t)) /\ DOMAIN u = 1..(k + Len(t))
  BY <1>1, <1>3, LenProperties
<1> HIDE DEF a, u
<1>6. \A i \in DOMAIN u : i # k => from(i) \in DOMAIN a /\ u[i] = a[from(i)]
  <2> TAKE i \in DOMAIN u
  <2> HAVE i # k
  <2>0. i \in 1..(k + Len(t))
    BY <1>5
  <2>1. CASE i < k
    <3>1. i <= Len(s) /\ i <= k /\ i \in 1..k /\ i \in 1..(Len(s) + Len(t))
      BY <2>0, <2>1, <1>4
    <3>2. a[i] = s[i]
      BY <3>1, <1>1
    <3>3. u[i] = (s \o <<x>>)[i]
      BY <2>0, <3>1, <1>3
    <3>4. u[i] = s[i]
      BY <3>1, <3>3, <1>2
    <3> QED BY <2>1, <3>1, <3>2, <3>4, <1>5
  <2>2. CASE i > k
    <3>1. i - 1 \in 1..(Len(s) + Len(t)) /\ ~(i <= k) /\ ~(i - 1 <= Len(s))
          /\ i - 1 - Len(s) = i - k
      BY <2>0, <2>2, <1>4, SMTT(60)
    <3>2. u[i] = t[i - k]
      BY <2>0, <3>1, <1>3
    <3>3. a[i - 1] = t[i - 1 - Len(s)]
      BY <3>1, <1>1
    <3>4. u[i] = a[i - 1]
      BY <3>1, <3>2, <3>3
    <3> QED BY <2>2, <3>1, <3>4, <1>4, <1>5, SMTT(60)
  <2> QED BY <2>0, <2>1, <2>2, <1>4
<1>7. k \in DOMAIN u /\ u[k] = x
  BY <1>2, <1>3, <1>4, <1>5
<1>8. \A j \in DOMAIN a : \E i \in DOMAIN u : i # k /\ from(i) = j
  <2> TAKE j \in DOMAIN a
  <2>1. CASE j < k
    BY <2>1, <1>4, <1>5, SMTT(60)
  <2>2. CASE j >= k
    <3>1. j + 1 \in DOMAIN u /\ j + 1 # k /\ from(j + 1) = j
      BY <2>2, <1>4, <1>5
    <3> QED BY <3>1
  <2> QED BY <2>1, <2>2, <1>4, <1>5
<1>9. \A i, j \in DOMAIN u : i # k /\ j # k /\ from(i) = from(j) => i = j
  BY <1>4, <1>5, SMTT(60)
<1> HIDE DEF k, from
<1>10. x \notin Range(a) /\ IsInjective(a)
  BY DEF a
<1>11. IsInjective(u)
  <2> SUFFICES ASSUME NEW i \in DOMAIN u, NEW j \in DOMAIN u, u[i] = u[j] PROVE i = j
    BY DEF IsInjective
  <2>1. \A m \in DOMAIN u : m # k => u[m] # x
    BY <1>6, <1>10 DEF Range
  <2>2. i # k /\ j # k => i = j
    BY <1>6, <1>9, <1>10 DEF IsInjective
  <2> QED BY <2>1, <2>2, <1>7
<1>12. Range(u) = Range(a) \cup {x}
  <2>1. Range(u) \subseteq Range(a) \cup {x}
    BY <1>6, <1>7 DEF Range
  <2>2. Range(a) \subseteq Range(u)
    BY <1>6, <1>8 DEF Range
  <2>3. x \in Range(u)
    BY <1>7 DEF Range
  <2> QED BY <2>1, <2>2, <2>3
<1> QED BY <1>11, <1>12 DEF a, u

\* The same at its end.
LEMMA AppendNew ==
    ASSUME NEW s \in Seq(Nat), NEW x \in Nat, IsInjective(s), x \notin Range(s)
    PROVE  IsInjective(Append(s, x)) /\ Range(Append(s, x)) = Range(s) \cup {x}
<1>1. <<>> \in Seq(Nat) /\ s \o <<>> = s
  BY EmptySeq, ConcatEmptySeq
<1>2. (s \o <<x>>) \o <<>> = Append(s, x)
  <2>1. s \o <<x>> = Append(s, x) /\ s \o <<x>> \in Seq(Nat)
    BY AppendIsConcat, AppendProperties
  <2> QED BY <2>1, ConcatEmptySeq
<1>3. IsInjective(s \o <<>>) /\ x \notin Range(s \o <<>>)
  BY <1>1, Zenon
<1>4. /\ IsInjective((s \o <<x>>) \o <<>>)
      /\ Range((s \o <<x>>) \o <<>>) = Range(s \o <<>>) \cup {x}
  <2>1. \A t \in Seq(Nat) : IsInjective(s \o t) /\ x \notin Range(s \o t) =>
           /\ IsInjective((s \o <<x>>) \o t)
           /\ Range((s \o <<x>>) \o t) = Range(s \o t) \cup {x}
    BY InsertNew, SMTT(60)
  <2> QED BY <1>1, <1>3, <2>1, ZenonT(60)
<1> QED BY <1>1, <1>2, <1>4, Zenon

\* What appending adds to what a sequence holds.
LEMMA AppendRange ==
    ASSUME NEW s \in Seq(Nat), NEW x \in Nat
    PROVE  Range(Append(s, x)) = Range(s) \cup {x}
<1>1. \A i \in 1..Len(s) : Append(s, x)[i] = s[i]
  BY AppendProperties
<1>2. /\ DOMAIN Append(s, x) = 1..(Len(s) + 1) /\ DOMAIN s = 1..Len(s) /\ Len(s) \in Nat
      /\ Append(s, x)[Len(s) + 1] = x
  BY AppendProperties
<1> QED BY <1>1, <1>2 DEF Range

\* Appending to a concatenation.
LEMMA ConcatAppend ==
    ASSUME NEW s \in Seq(Nat), NEW t \in Seq(Nat), NEW x \in Nat
    PROVE  s \o Append(t, x) = Append(s \o t, x)
<1>1. <<x>> \in Seq(Nat) /\ s \o t \in Seq(Nat)
  OBVIOUS
<1>2. Append(t, x) = t \o <<x>> /\ Append(s \o t, x) = (s \o t) \o <<x>>
  BY <1>1, AppendIsConcat
<1> QED BY <1>1, <1>2, ConcatAssociative

\* One element, and none.
LEMMA FewElements ==
    /\ IsInjective(<<>>) /\ Range(<<>>) = {}
    /\ \A x : IsInjective(<<x>>) /\ Range(<<x>>) = {x}
<1>1. DOMAIN <<>> = {} /\ \A x : DOMAIN <<x>> = {1} /\ <<x>>[1] = x
  OBVIOUS
<1>2. IsInjective(<<>>) /\ Range(<<>>) = {}
  BY <1>1 DEF IsInjective, Range
<1>3. ASSUME NEW x PROVE IsInjective(<<x>>) /\ Range(<<x>>) = {x}
  BY <1>1 DEF IsInjective, Range
<1> QED BY <1>2, <1>3

----------------------------------------------------------------------------
(* Memory *)

All == longTerm \o transient

MemoryInv ==
    /\ MemoryOK
    /\ RememberedOnce
    /\ Range(All) \subseteq 1..lived
    /\ condition = "B0" => longTerm = <<>>
    /\ \A e \in Range(transient) : e > since

\* All that a step can do to the memory: nothing; the end of the task; an experience
\* that is remembered, or that is the newest of the task, or its last one; the begin
\* of a task; a new run.
MemoryStep ==
    \/ UNCHANGED <<lived, longTerm, transient, since>>
    \/ FinishTask /\ UNCHANGED lived /\ since' \in {since, lived}
    \/ Persist /\ UNCHANGED <<transient, since>>
    \/ /\ transient' = Append(transient, lived + 1) /\ lived' = lived + 1
       /\ UNCHANGED <<longTerm, since>>
    \/ /\ longTerm' = Remembering(Append(transient, lived + 1)) /\ lived' = lived + 1
       /\ transient' = <<>> /\ UNCHANGED since
    \/ /\ longTerm' = Remembering(transient) /\ transient' = <<lived + 1>>
       /\ lived' = lived + 1 /\ since' = lived
    \/ lived' = 0 /\ longTerm' = <<>> /\ transient' = <<>> /\ since' = 0

\* The experiences up to the n-th, once each, and under B0 some of them.
Fits(all, n) ==
    /\ IsInjective(all) /\ Range(all) \subseteq 1..n
    /\ condition # "B0" => 1..n \subseteq Range(all)

\* What a step must leave behind.
LEMMA MemoryFrom ==
    ASSUME MemoryInv, UNCHANGED condition,
           NEW l \in Seq(Nat), NEW t \in Seq(Nat), NEW n \in Nat, NEW m \in 0..n,
           longTerm' = l, transient' = t, lived' = n, since' = m,
           Fits(l \o t, n), condition = "B0" => l = <<>>,
           \A e \in Range(t) : e > m
    PROVE  MemoryInv'
BY Zenon DEF MemoryInv, MemoryOK, RememberedOnce, All, Fits

LEMMA StepMemory ==
    ASSUME MemoryInv, UNCHANGED condition, MemoryStep
    PROVE  MemoryInv'
<1> USE DEF MemoryInv
<1> DEFINE x == lived + 1
<1>1. /\ longTerm \in Seq(Nat) /\ transient \in Seq(Nat) /\ <<>> \in Seq(Nat)
      /\ lived \in Nat /\ x \in Nat /\ All \in Seq(Nat) /\ <<x>> \in Seq(Nat)
  BY DEF MemoryOK, All
<1>2. since \in 0..lived /\ lived \in 0..lived /\ since \in 0..x /\ lived \in 0..x
      /\ x > since /\ x > lived
  BY DEF MemoryOK
<1>3. Fits(All, lived) /\ \A e \in Range(transient) : e > since
  BY DEF RememberedOnce, All, Fits
<1>4. x \notin Range(All) /\ 1..x = 1..lived \cup {x}
  BY <1>1, <1>3 DEF Fits
<1>5. Fits(Append(All, x), x) /\ Append(All, x) \in Seq(Nat)
  <2>1. IsInjective(Append(All, x)) /\ Range(Append(All, x)) = Range(All) \cup {x}
    BY <1>1, <1>3, <1>4, AppendNew DEF Fits
  <2>2. Append(All, x) \in Seq(Nat)
    BY <1>1
  <2>3. Range(All) \subseteq 1..lived /\ (condition # "B0" => 1..lived \subseteq Range(All))
    BY <1>3 DEF Fits
  <2>4. Range(All) \cup {x} \subseteq 1..x
        /\ (condition # "B0" => 1..x \subseteq Range(All) \cup {x})
    BY <1>4, <2>3, Zenon
  <2> QED BY <2>1, <2>2, <2>4, Zenon DEF Fits
<1>6. condition = "B0" => longTerm = <<>> /\ All = transient
  BY <1>1, ConcatEmptySeq DEF All
<1>7. /\ Append(transient, x) \in Seq(Nat)
      /\ longTerm \o Append(transient, x) = Append(All, x)
      /\ \A e \in Range(Append(transient, x)) : e > since
  <2>1. Range(Append(transient, x)) = Range(transient) \cup {x}
    BY <1>1, AppendRange
  <2>2. \A e \in Range(Append(transient, x)) : e > since
    BY <1>2, <1>3, <2>1, Zenon
  <2>3. Append(transient, x) \in Seq(Nat)
    BY <1>1
  <2>4. longTerm \o Append(transient, x) = Append(All, x)
    BY <1>1, ConcatAppend DEF All
  <2> QED BY <2>2, <2>3, <2>4, Zenon
<1>8. \A n \in Nat : condition = "B0" => Fits(<<>> \o <<>>, n)
  <2>1. <<>> \o <<>> = <<>>
    BY <1>1, ConcatEmptySeq
  <2> QED BY <2>1, FewElements DEF Fits
<1>9. All \o <<>> = All /\ Append(All, x) \o <<>> = Append(All, x)
  BY <1>1, <1>5, ConcatEmptySeq
<1>10. \A e \in Range(<<>>) : FALSE
  BY FewElements
<1> HIDE DEF x, MemoryInv
<1>11. CASE UNCHANGED <<lived, longTerm, transient, since>>
  BY <1>11 DEF MemoryInv, MemoryOK, RememberedOnce, All
<1>12. CASE FinishTask /\ UNCHANGED lived /\ since' \in {since, lived}
  <2>1. transient' = <<>> /\ lived' = lived /\ since' \in 0..lived
    BY <1>2, <1>12 DEF FinishTask
  <2>2. CASE condition = "B0"
    <3>1. longTerm' = <<>>
      BY <1>6, <1>12, <2>2 DEF FinishTask, Remembering
    <3> QED BY <1>1, <1>8, <1>10, <2>1, <2>2, <3>1, MemoryFrom
  <2>3. CASE condition # "B0"
    <3>1. longTerm' = All
      BY <1>12, <2>3 DEF FinishTask, Remembering, All
    <3> QED BY <1>1, <1>3, <1>9, <1>10, <2>1, <2>3, <3>1, MemoryFrom
  <2> QED BY <2>2, <2>3
<1>13. CASE Persist /\ UNCHANGED <<transient, since>>
  <2>1. lived' = x /\ transient' = transient /\ since' = since
    BY <1>13 DEF Persist, x
  <2>2. CASE condition = "B0"
    <3>1. longTerm' = longTerm
      BY <1>13, <2>2 DEF Persist, Remembering
    <3>2. Fits(longTerm \o transient, x)
      BY <1>3, <1>4, <2>2 DEF Fits, All
    <3> QED BY <1>1, <1>2, <1>3, <1>6, <2>1, <2>2, <3>1, <3>2, MemoryFrom
  <2>3. CASE condition # "B0"
    <3>1. longTerm' = longTerm \o <<x>> /\ longTerm \o <<x>> \in Seq(Nat)
      BY <1>1, <1>13, <2>3 DEF Persist, Remembering, x
    <3>2. Fits((longTerm \o <<x>>) \o transient, x)
      <4>1. /\ IsInjective((longTerm \o <<x>>) \o transient)
            /\ Range((longTerm \o <<x>>) \o transient) = Range(All) \cup {x}
        BY <1>1, <1>3, <1>4, InsertNew DEF All, Fits
      <4> QED BY <1>3, <1>4, <4>1 DEF Fits
    <3> QED BY <1>1, <1>2, <1>3, <2>1, <2>3, <3>1, <3>2, MemoryFrom
  <2> QED BY <2>2, <2>3
<1>14. CASE /\ transient' = Append(transient, lived + 1) /\ lived' = lived + 1
            /\ UNCHANGED <<longTerm, since>>
  <2>1. transient' = Append(transient, x) /\ lived' = x /\ longTerm' = longTerm /\ since' = since
    BY <1>14 DEF x
  <2> QED BY <1>1, <1>2, <1>5, <1>6, <1>7, <2>1, MemoryFrom
<1>15. CASE /\ longTerm' = Remembering(Append(transient, lived + 1)) /\ lived' = lived + 1
            /\ transient' = <<>> /\ UNCHANGED since
  <2>1. transient' = <<>> /\ lived' = x /\ since' = since
    BY <1>15 DEF x
  <2>2. CASE condition = "B0"
    <3>1. longTerm' = <<>>
      BY <1>6, <1>15, <2>2 DEF Remembering
    <3> QED BY <1>1, <1>2, <1>8, <1>10, <2>1, <2>2, <3>1, MemoryFrom
  <2>3. CASE condition # "B0"
    <3>1. longTerm' = Append(All, x)
      BY <1>7, <1>15, <2>3 DEF Remembering, x
    <3> QED BY <1>1, <1>2, <1>5, <1>9, <1>10, <2>1, <2>3, <3>1, MemoryFrom
  <2> QED BY <2>2, <2>3
<1>16. CASE /\ longTerm' = Remembering(transient) /\ transient' = <<lived + 1>>
            /\ lived' = lived + 1 /\ since' = lived
  <2>1. transient' = <<x>> /\ lived' = x /\ since' = lived
    BY <1>16 DEF x
  <2>2. \A e \in Range(<<x>>) : e > lived
    BY <1>2, FewElements
  <2>3. CASE condition = "B0"
    <3>1. longTerm' = <<>>
      BY <1>6, <1>16, <2>3 DEF Remembering
    <3>2. Fits(<<>> \o <<x>>, x)
      <4>1. <<>> \o <<x>> = <<x>>
        BY <1>1, ConcatEmptySeq
      <4> QED BY <1>4, <2>3, <4>1, FewElements DEF Fits
    <3> QED BY <1>1, <1>2, <2>1, <2>2, <2>3, <3>1, <3>2, MemoryFrom
  <2>4. CASE condition # "B0"
    <3>1. longTerm' = All
      BY <1>16, <2>4 DEF Remembering, All
    <3>2. All \o <<x>> = Append(All, x)
      BY <1>1, AppendIsConcat
    <3> QED BY <1>1, <1>2, <1>5, <2>1, <2>2, <2>4, <3>1, <3>2, MemoryFrom
  <2> QED BY <2>3, <2>4
<1>17. CASE lived' = 0 /\ longTerm' = <<>> /\ transient' = <<>> /\ since' = 0
  <2>1. Fits(<<>> \o <<>>, 0)
    <3>1. <<>> \o <<>> = <<>> /\ 1..0 = {}
      BY <1>1, ConcatEmptySeq
    <3> QED BY <3>1, FewElements DEF Fits
  <2>2. 0 \in Nat /\ 0 \in 0..0
    OBVIOUS
  <2> QED BY <1>1, <1>10, <1>17, <2>1, <2>2, MemoryFrom
<1> QED
  BY <1>11, <1>12, <1>13, <1>14, <1>15, <1>16, <1>17, Zenon DEF MemoryStep

----------------------------------------------------------------------------
(* The steps of the agent *)

\* What a prompt shows are experiences, and under B0 those of the task alone.
LEMMA SelectionsOK ==
    ASSUME MemoryOK, NEW xs \in Seq(Nat)
    PROVE  /\ \A r \in Selections(xs) : r \subseteq Nat
           /\ condition = "B0" => Selections(xs) = {{}}
<1>1. Range(xs) \subseteq Nat
  BY RangeOfSeq
<1>2. CASE condition = "B0"
  BY <1>2 DEF Selections
<1>3. CASE condition = "B1"
  <2>1. Newest(xs, MemoryLimit) \subseteq Range(xs)
    BY DEF Newest, Range
  <2> QED BY <1>1, <1>3, <2>1 DEF Selections
<1>4. CASE condition \notin {"B0", "B1"}
  <2>1. Selections(xs) = UNION {kSubset(k, Range(xs)) : k \in 0..MemoryLimit}
    BY <1>4 DEF Selections, MemoryOK
  <2>2. \A k : \A r \in kSubset(k, Range(xs)) : r \subseteq Range(xs)
    BY DEF kSubset
  <2> QED BY <1>1, <1>4, <2>1, <2>2
<1> QED BY <1>2, <1>3, <1>4

\* A step outside of the memory.
Elsewhere == UNCHANGED <<lived, longTerm, transient, since>>

\* A prompt that is sent again.
LEMMA RepeatedPrompt ==
    ASSUME NEW o \in Ops, NEW a \in Nat, NEW r \in Nat
    PROVE  [o EXCEPT !.phase = "send", !.attempt = a, !.repairs = r] \in Ops
BY DEF Ops

\* Every attempt that fails leaves an error, and the task ends or nothing changes.
LEMMA FailedAttempt ==
    ASSUME NEW kind \in {"parse", "transport"}, AttemptFails(kind), CallOK, op # NoOp
    PROVE  /\ MemoryStep /\ UNCHANGED condition
           /\ errors' # {} /\ errors' \subseteq {"parse", "transport"} /\ mixed' = mixed
           /\ op' \in Ops \cup {NoOp}
           /\ op' = NoOp \/ (op'.mode = op.mode /\ op'.shown = op.shown /\ since' = since)
<1> DEFINE again == [op EXCEPT !.phase = "send", !.attempt = @ + 1,
                               !.repairs = IF kind = "parse" THEN @ + 1 ELSE 0]
<1>1. /\ errors' = errors \cup {kind} /\ Repeat(kind)
      /\ UNCHANGED <<cellVars, mixed>>
  BY DEF AttemptFails
<1>2. CASE op.attempt < ParseRetries
  <2>1. op' = again /\ UNCHANGED memoryVars
    BY <1>1, <1>2 DEF Repeat
  <2>2. op \in Ops
    BY DEF CallOK
  <2>3. again \in Ops /\ again.mode = op.mode /\ again.shown = op.shown
    <3>1. op.attempt \in Nat /\ op.repairs \in Nat
      BY <2>2 DEF Ops
    <3>2. PICK a \in Nat, r \in Nat :
              a = op.attempt + 1 /\ r = IF kind = "parse" THEN op.repairs + 1 ELSE 0
      BY <3>1
    <3>3. again \in Ops
      BY <2>2, <3>2, RepeatedPrompt, Zenon
    <3>4. again.mode = op.mode /\ again.shown = op.shown
      BY <2>2 DEF Ops
    <3> QED BY <3>3, <3>4, Zenon
  <2> HIDE DEF again
  <2> QED BY <1>1, <2>1, <2>3 DEF CallOK, MemoryStep, memoryVars, cellVars
<1>3. CASE ~(op.attempt < ParseRetries)
  <2>1. op' = NoOp
        /\ (op.mode = "act" => FinishTask /\ UNCHANGED <<lived, since>>)
        /\ (op.mode # "act" => UNCHANGED memoryVars)
    BY <1>1, <1>3 DEF Repeat, CallFails
  <2>2. MemoryStep
    BY <2>1 DEF MemoryStep, memoryVars
  <2> QED BY <1>1, <2>1, <2>2 DEF CallOK, cellVars
<1> QED BY <1>2, <1>3

\* An answer that is used ends the operation.
LEMMA UsedAnswer ==
    ASSUME NEW n \in Nat, Answered(n), op # NoOp, CallOK
    PROVE  /\ MemoryStep /\ UNCHANGED condition
           /\ op' = NoOp /\ errors' = errors
           /\ mixed' = (mixed \/ n # op.n \/ op.repairs > 0)
<1>1. /\ mixed' = (mixed \/ n # op.n \/ op.repairs > 0)
      /\ op' = NoOp /\ UNCHANGED <<cellVars, errors>>
  BY DEF Answered
<1>2. MemoryStep
  <2>1. CASE op.mode = "respond"
    <3>1. Responded
      BY <2>1 DEF Answered
    <3> QED BY <3>1 DEF Responded, MemoryStep, memoryVars
  <2>2. CASE op.mode = "act"
    <3>1. Acted
      BY <2>2 DEF Answered
    <3> QED BY <3>1 DEF Acted, MemoryStep
  <2>3. CASE op.mode \notin {"respond", "act"}
    <3>1. Decided
      BY <2>3 DEF Answered
    <3> QED BY <3>1 DEF Decided, MemoryStep, memoryVars
  <2> QED BY <2>1, <2>2, <2>3
<1> QED BY <1>1, <1>2 DEF cellVars

\* What is made of a reply.
LEMMA TakenReply ==
    ASSUME NEW reply \in Replies, NEW n \in Nat, Take(reply, n), op # NoOp, CallOK
    PROVE  Answered(n) \/ \E kind \in {"parse", "transport"} : AttemptFails(kind)
BY DEF Take, Replies

\* A prompt of the memory as the step leaves it.
LEMMA NewPrompt ==
    ASSUME NEW mode \in Modes, Ask(mode), MemoryInv, MemoryInv', UNCHANGED condition, sent \in Nat
    PROVE  /\ op' \in Ops /\ op'.mode = mode /\ op'.phase = "send" /\ op'.repairs = 0
           /\ condition = "B0" => \A e \in op'.shown : e > since'
<1>1. PICK recalled \in Selections(longTerm') :
        op' = [mode |-> mode, phase |-> "send", shown |-> recalled \cup Range(transient'),
               attempt |-> 0, repairs |-> 0, n |-> 0, first |-> sent + 1]
  BY DEF Ask
<1>2. longTerm' \in Seq(Nat) /\ transient' \in Seq(Nat)
  BY DEF MemoryInv, MemoryOK
<1>3. PICK l \in Seq(Nat) : l = longTerm'
  BY <1>2
<1>4. recalled \subseteq Nat /\ (condition = "B0" => recalled = {})
  BY <1>1, <1>3, SelectionsOK DEF MemoryInv
<1>5. Range(transient') \subseteq Nat
  BY <1>2, RangeOfSeq
<1>6. PICK shown \in SUBSET Nat : shown = recalled \cup Range(transient')
  BY <1>4, <1>5
<1>m. PICK first \in Nat : first = sent + 1
  OBVIOUS
<1>o. op' = [mode |-> mode, phase |-> "send", shown |-> shown,
              attempt |-> 0, repairs |-> 0, n |-> 0, first |-> first]
  BY <1>1, <1>6, <1>m, Zenon
<1>7. op' \in Ops /\ op'.mode = mode /\ op'.phase = "send" /\ op'.repairs = 0
      /\ op'.shown = recalled \cup Range(transient')
  BY <1>6, <1>o DEF Ops
<1>8. \A e \in Range(transient') : e > since'
  BY DEF MemoryInv
<1> QED BY <1>4, <1>7, <1>8

----------------------------------------------------------------------------
(* What is remembered, and what the control condition is shown *)

\* ControlHasNoMemory, and what it rests on.
ShownInv == CallOK /\ MemoryInv /\ ControlHasNoMemory

\* The operation goes on with the prompt it has, or is over, or was not begun.
SamePrompt ==
    \/ op' = NoOp
    \/ op # NoOp /\ op'.mode = op.mode /\ op'.shown = op.shown /\ since' = since

LEMMA SamePromptShown ==
    ASSUME ShownInv, SamePrompt, UNCHANGED condition
    PROVE  ControlHasNoMemory'
BY DEF ShownInv, SamePrompt, ControlHasNoMemory

\* What the steps of the Runner's calls do; they touch neither the client nor its record.
LEMMA RunnerStep ==
    ASSUME ShownInv,
           \/ \E ofTool \in BOOLEAN : Observe(ofTool)
           \/ Respond \/ StartAct \/ ContinueAct \/ LeaveLoop \/ Maintain
           \/ SessionBoundary \/ BackendFails \/ NextRun
    PROVE  /\ op = NoOp /\ UNCHANGED <<condition, pipeVars, callVars>>
           /\ MemoryStep
           /\ op' = NoOp \/ \E mode \in Modes : Ask(mode)
<1> USE DEF Idle, cellVars, Modes
<1>1. ASSUME NEW ofTool \in BOOLEAN, Observe(ofTool)
      PROVE  /\ op = NoOp /\ UNCHANGED <<condition, pipeVars, callVars>>
             /\ MemoryStep
             /\ op' = NoOp \/ \E mode \in Modes : Ask(mode)
  BY <1>1 DEF Observe, MemoryStep
<1>2. CASE Respond
  BY <1>2 DEF Respond, MemoryStep, FinishTask
<1>3. CASE StartAct
  BY <1>3 DEF StartAct, MemoryStep
<1>4. CASE ContinueAct
  BY <1>4 DEF ContinueAct, MemoryStep, memoryVars
<1>5. CASE LeaveLoop
  BY <1>5 DEF LeaveLoop, MemoryStep, memoryVars
<1>6. CASE Maintain
  BY <1>6 DEF Maintain, MemoryStep
<1>7. CASE SessionBoundary
  BY <1>7 DEF SessionBoundary, MemoryStep
<1>8. CASE BackendFails
  BY <1>8 DEF BackendFails, MemoryStep, memoryVars
<1>9. CASE NextRun
  BY <1>9 DEF NextRun, MemoryStep
<1> QED BY <1>1, <1>2, <1>3, <1>4, <1>5, <1>6, <1>7, <1>8, <1>9

\* What the steps of the client do: the operation goes on, fails or is answered.
LEMMA ClientStep ==
    ASSUME ShownInv, Send \/ SendToDead \/ Receive \/ ReceiveEof \/ TimeOut \/ CompleteOverHttp
    PROVE  /\ MemoryStep /\ UNCHANGED condition /\ SamePrompt
           /\ CallOK'
<1> USE DEF ShownInv
<1>1. ASSUME op # NoOp, NEW kind \in {"parse", "transport"}, AttemptFails(kind),
             sent' \in Nat, stdin' \in Seq(Nat), pipe' \in Seq(Lines), buffer' \in Seq(Lines)
      PROVE  MemoryStep /\ UNCHANGED condition /\ SamePrompt /\ CallOK'
  <2>1. /\ MemoryStep /\ UNCHANGED condition
        /\ errors' \subseteq {"parse", "transport"} /\ mixed' = mixed
        /\ op' \in Ops \cup {NoOp}
        /\ op' = NoOp \/ (op'.mode = op.mode /\ op'.shown = op.shown /\ since' = since)
    BY <1>1, FailedAttempt
  <2> QED BY <1>1, <2>1 DEF CallOK, SamePrompt
<1>2. ASSUME op # NoOp, NEW reply \in Replies, NEW n \in Nat, Take(reply, n),
             sent' \in Nat, stdin' \in Seq(Nat), pipe' \in Seq(Lines), buffer' \in Seq(Lines)
      PROVE  MemoryStep /\ UNCHANGED condition /\ SamePrompt /\ CallOK'
  <2>1. CASE Answered(n)
    <3>1. /\ MemoryStep /\ UNCHANGED condition /\ op' = NoOp /\ errors' = errors
          /\ mixed' = (mixed \/ n # op.n \/ op.repairs > 0)
      BY <1>2, <2>1, UsedAnswer
    <3>2. mixed' \in BOOLEAN
      BY <3>1, Zenon DEF CallOK
    <3> QED BY <1>2, <3>1, <3>2 DEF CallOK, SamePrompt
  <2>2. CASE \E kind \in {"parse", "transport"} : AttemptFails(kind)
    BY <1>1, <1>2, <2>2
  <2> QED BY <1>2, <2>1, <2>2, TakenReply
<1>3. sent \in Nat /\ stdin \in Seq(Nat) /\ pipe \in Seq(Lines) /\ buffer \in Seq(Lines)
  BY DEF CallOK
<1>4. CASE Send
  <2>1. /\ op # NoOp /\ sent' = sent + 1 /\ stdin' = Append(stdin, sent + 1)
        /\ op' = [op EXCEPT !.phase = "wait", !.n = sent + 1]
        /\ UNCHANGED <<condition, lived, longTerm, transient, since, errors, mixed, pipe, buffer>>
    BY <1>4 DEF Send, Sending, WriteLine, memoryVars, cellVars
  <2>2. op \in Ops /\ sent + 1 \in Nat
    BY <1>3, <2>1 DEF CallOK
  <2>3. op' \in Ops /\ op'.mode = op.mode /\ op'.shown = op.shown
    BY <2>1, <2>2 DEF Ops
  <2>4. stdin' \in Seq(Nat) /\ sent' \in Nat
    BY <1>3, <2>1, <2>2
  <2> QED BY <1>3, <2>1, <2>3, <2>4 DEF CallOK, MemoryStep, SamePrompt
<1>5. CASE SendToDead
  BY <1>1, <1>3, <1>5 DEF SendToDead, Sending, pipeVars
<1>6. CASE ReceiveEof
  BY <1>1, <1>3, <1>6 DEF ReceiveEof, Waiting, pipeVars
<1>7. CASE TimeOut
  BY <1>1, <1>3, <1>7 DEF TimeOut, Waiting, pipeVars
<1>8. CASE CompleteOverHttp
  <2>1. PICK reply \in Replies : Take(reply, op.n)
    BY <1>8 DEF CompleteOverHttp
  <2>2. op # NoOp /\ sent' \in Nat /\ UNCHANGED <<stdin, pipe, buffer>>
    BY <1>3, <1>8 DEF CompleteOverHttp, Sending, pipeVars
  <2>3. op.n \in Nat
    BY <2>2 DEF CallOK, Ops
  <2> QED BY <1>2, <1>3, <2>1, <2>2, <2>3
<1>9. CASE Receive
  <2>1. /\ op # NoOp /\ Fetched # <<>> /\ UNCHANGED <<stdin, sent>>
        /\ buffer' = <<>> \o Tail(Fetched)
        /\ pipe' = (IF buffer = <<>> THEN <<>> ELSE pipe)
        /\ \E reply \in Replies : Take(reply, Head(Fetched))
    BY <1>9 DEF Receive, Waiting, ReadLine
  <2>2. Fetched \in Seq(Lines)
    BY <1>3 DEF Fetched
  <2>3. Head(Fetched) \in Lines /\ Tail(Fetched) \in Seq(Lines) /\ <<>> \in Seq(Lines)
    BY <2>1, <2>2
  <2>4. buffer' \in Seq(Lines) /\ pipe' \in Seq(Lines)
    BY <1>3, <2>1, <2>3
  <2>5. Head(Fetched) \in Nat
    BY <2>3 DEF Lines
  <2>6. PICK reply \in Replies, n \in Nat : Take(reply, n)
    BY <2>1, <2>5
  <2> QED BY <1>2, <1>3, <2>1, <2>4, <2>6
<1> QED BY <1>4, <1>5, <1>6, <1>7, <1>8, <1>9

\* What the steps of the process do.
LEMMA ProcessStep ==
    ASSUME ShownInv, ModelAnswers \/ ModelExits \/ ModelBabbles
    PROVE  CallOK' /\ UNCHANGED <<condition, lived, longTerm, transient, since, op, errors, mixed>>
<1> USE DEF ShownInv
<1>1. CASE ModelAnswers
  <2>1. Answer(Head(stdin))
    BY <1>1 DEF ModelAnswers
  <2>2. stdin \in Seq(Nat) /\ stdin # <<>> /\ pipe \in Seq(Lines)
    BY <2>1 DEF Answer, CallOK
  <2>3. Head(stdin) \in Lines /\ Tail(stdin) \in Seq(Nat)
    BY <2>2 DEF Lines
  <2>4. stdin' \in Seq(Nat) /\ pipe' \in Seq(Lines) /\ UNCHANGED buffer
    BY <2>1, <2>2, <2>3 DEF Answer
  <2> QED BY <1>1, <2>4 DEF ModelAnswers, CallOK, memoryVars, cellVars, callVars
<1>2. CASE ModelExits
  BY <1>2, EmptySeq DEF ModelExits, Exit, CallOK, memoryVars, cellVars, callVars
<1>3. CASE ModelBabbles
  <2>1. Babble(0) /\ 0 \in Lines /\ pipe \in Seq(Lines)
    BY <1>3 DEF ModelBabbles, Lines, CallOK
  <2>2. pipe' \in Seq(Lines) /\ UNCHANGED <<stdin, buffer>>
    BY <2>1 DEF Babble
  <2> QED BY <1>3, <2>2 DEF ModelBabbles, CallOK, memoryVars, callVars
<1> QED BY <1>1, <1>2, <1>3

LEMMA ShownInit == Init => ShownInv
<1> SUFFICES ASSUME Init PROVE ShownInv
  OBVIOUS
<1>1. All = <<>> /\ 1..0 = {}
  BY ConcatEmptySeq, EmptySeq DEF Init, All
<1>2. MemoryOK /\ CallOK
  <2>1. <<>> \in Seq(Nat) /\ <<>> \in Seq(Lines)
    OBVIOUS
  <2>2. condition \in {"B0", "B1", "B2", "backend"}
    BY AgentAssumption DEF Init
  <2>3. MemoryOK
    BY <2>1, <2>2 DEF Init, MemoryOK
  <2>4. CallOK
    BY <2>1 DEF Init, InitPipe, CallOK
  <2> QED BY <2>3, <2>4
<1>3. MemoryInv
  BY <1>1, <1>2, FewElements DEF Init, MemoryInv, RememberedOnce, All
<1> QED BY <1>2, <1>3 DEF Init, ShownInv, ControlHasNoMemory

LEMMA StepShown == ShownInv /\ [Next]_vars => ShownInv'
<1> SUFFICES ASSUME ShownInv, [Next]_vars PROVE ShownInv'
  OBVIOUS
<1>1. CASE \/ \E ofTool \in BOOLEAN : Observe(ofTool)
           \/ Respond \/ StartAct \/ ContinueAct \/ LeaveLoop \/ Maintain
           \/ SessionBoundary \/ BackendFails \/ NextRun
  <2>1. /\ op = NoOp /\ UNCHANGED <<condition, pipeVars, callVars>>
        /\ MemoryStep
        /\ op' = NoOp \/ \E mode \in Modes : Ask(mode)
    BY <1>1, RunnerStep
  <2>2. MemoryInv'
    BY <2>1, StepMemory DEF ShownInv
  <2>3. CASE op' = NoOp
    BY <2>1, <2>2, <2>3 DEF ShownInv, CallOK, ControlHasNoMemory, pipeVars, callVars
  <2>4. ASSUME NEW mode \in Modes, Ask(mode) PROVE ShownInv'
    <3>1. /\ op' \in Ops
          /\ condition = "B0" => \A e \in op'.shown : e > since'
      BY <2>1, <2>2, <2>4, NewPrompt DEF ShownInv, CallOK
    <3> QED BY <2>1, <2>2, <3>1 DEF ShownInv, CallOK, ControlHasNoMemory, pipeVars, callVars
  <2> QED BY <2>1, <2>3, <2>4
<1>2. CASE Send \/ SendToDead \/ Receive \/ ReceiveEof \/ TimeOut \/ CompleteOverHttp
  BY <1>2, ClientStep, StepMemory, SamePromptShown DEF ShownInv
<1>3. CASE ModelAnswers \/ ModelExits \/ ModelBabbles
  <2>1. CallOK' /\ UNCHANGED <<condition, lived, longTerm, transient, since, op, errors, mixed>>
    BY <1>3, ProcessStep
  <2>2. MemoryInv'
    BY <2>1, StepMemory DEF ShownInv, MemoryStep
  <2> QED BY <2>1, <2>2 DEF ShownInv, ControlHasNoMemory
<1>4. CASE UNCHANGED vars
  <2>1. UNCHANGED <<condition, lived, longTerm, transient, since>> /\ UNCHANGED <<op, sent, errors, mixed, pipeVars>>
    BY <1>4 DEF vars, memoryVars, cellVars, callVars
  <2>2. MemoryInv'
    BY <2>1, StepMemory DEF ShownInv, MemoryStep
  <2> QED BY <2>1, <2>2 DEF ShownInv, CallOK, ControlHasNoMemory, pipeVars
<1> QED BY <1>1, <1>2, <1>3, <1>4 DEF Next

\* What a run has lived is remembered exactly once, or not at all under B0, whatever
\* fails, is abandoned or is begun again (_finish_task); and a prompt of the control
\* condition shows nothing from before its task or exchange (_call, _limit).
THEOREM MemoryTheorem == Spec => []MemoryFollowsTheCondition
<1>1. ShownInv => MemoryFollowsTheCondition
  BY DEF ShownInv, MemoryInv, MemoryFollowsTheCondition
<1> QED BY <1>1, ShownInit, StepShown, PTL DEF Spec

----------------------------------------------------------------------------
(* Answers and their prompts *)

\* As long as no attempt has failed, at most one line is under way, the prompt or its
\* answer, and only while an operation waits for it.
OneLine ==
    IF Waiting
    THEN \/ stdin = <<>> /\ pipe = <<>>
         \/ stdin = <<op.n>> /\ pipe = <<>>
         \/ stdin = <<>> /\ pipe = <<op.n>>
    ELSE stdin = <<>> /\ pipe = <<>>

Paired ==
    errors = {} =>
        /\ ~mixed
        /\ op # NoOp => op.repairs = 0
        /\ buffer = <<>>
        /\ OneLine

\* A process that has written a stray line leaves nothing to say of the answers.
PairInv == ShownInv /\ (~strayed => Paired)

\* What was written once cannot be taken back, and only the process strays.
LEMMA StrayedStays ==
    ASSUME [Next]_vars, ~strayed'
    PROVE  ~strayed /\ ~ModelBabbles
<1>1. ~ModelBabbles
  BY DEF ModelBabbles
<1> SUFFICES ~strayed
  BY <1>1
<1>2. ASSUME UNCHANGED cellVars PROVE ~strayed
  <2>1. strayed' = strayed
    BY <1>2 DEF cellVars
  <2> QED BY <2>1, Zenon
<1>3. ASSUME NEW ofTool \in BOOLEAN, Observe(ofTool) PROVE UNCHANGED cellVars
  BY <1>3 DEF Observe
<1>4. CASE \/ Respond \/ StartAct \/ ContinueAct \/ LeaveLoop \/ Maintain
           \/ SessionBoundary \/ BackendFails
  <2>1. UNCHANGED cellVars
    BY <1>4 DEF Respond, StartAct, ContinueAct, LeaveLoop, Maintain, SessionBoundary,
                BackendFails
  <2> QED BY <1>2, <2>1
<1>5. CASE NextRun
  <2>1. strayed' = strayed
    BY <1>5 DEF NextRun
  <2> QED BY <2>1, Zenon
<1>6. ASSUME NEW kind, AttemptFails(kind) PROVE UNCHANGED cellVars
  BY <1>6 DEF AttemptFails
<1>7. ASSUME NEW reply, NEW n, Take(reply, n) PROVE UNCHANGED cellVars
  BY <1>6, <1>7 DEF Take, Answered
<1>8. CASE SendToDead \/ Receive \/ ReceiveEof \/ TimeOut
  <2>1. UNCHANGED cellVars
    BY <1>6, <1>7, <1>8 DEF SendToDead, Receive, ReceiveEof, TimeOut
  <2> QED BY <1>2, <2>1
<1>9. CASE CompleteOverHttp
  <2>1. PICK reply \in Replies : Take(reply, op.n)
    BY <1>9 DEF CompleteOverHttp
  <2> QED BY <1>2, <1>7, <2>1
<1>10. CASE Send \/ ModelAnswers \/ ModelExits \/ UNCHANGED vars
  <2>1. UNCHANGED cellVars
    BY <1>10 DEF Send, ModelAnswers, ModelExits, vars
  <2> QED BY <1>2, <2>1
<1> QED
  BY <1>1, <1>2, <1>3, <1>4, <1>5, <1>8, <1>9, <1>10, Zenon DEF Next

LEMMA PairInit == Init => PairInv
BY ShownInit DEF Init, InitPipe, PairInv, Paired, OneLine, Waiting

LEMMA StepPaired == PairInv /\ [Next]_vars => PairInv'
<1> SUFFICES ASSUME PairInv, [Next]_vars, ~strayed' PROVE Paired'
  BY StepShown DEF PairInv
<1>0. ShownInv /\ Paired /\ CallOK /\ ~ModelBabbles
  BY StrayedStays DEF PairInv, ShownInv
<1>1. CASE \/ \E ofTool \in BOOLEAN : Observe(ofTool)
           \/ Respond \/ StartAct \/ ContinueAct \/ LeaveLoop \/ Maintain
           \/ SessionBoundary \/ BackendFails \/ NextRun
  <2>1. /\ op = NoOp /\ UNCHANGED <<condition, pipeVars, callVars>>
        /\ MemoryStep
        /\ op' = NoOp \/ \E mode \in Modes : Ask(mode)
    BY <1>0, <1>1, RunnerStep
  <2>2. MemoryInv'
    BY <1>0, <2>1, StepMemory DEF ShownInv
  <2>3. op' = NoOp \/ (op'.phase = "send" /\ op'.repairs = 0)
    BY <1>0, <2>1, <2>2, NewPrompt DEF ShownInv, CallOK
  <2> QED BY <1>0, <2>1, <2>3 DEF Paired, OneLine, Waiting, pipeVars, callVars
<1>2. CASE Send
  <2>1. /\ op # NoOp /\ op.phase = "send" /\ stdin' = Append(stdin, sent + 1)
        /\ op' = [op EXCEPT !.phase = "wait", !.n = sent + 1]
        /\ UNCHANGED <<errors, mixed, pipe, buffer>>
    BY <1>2 DEF Send, Sending, WriteLine
  <2>2. op'.phase = "wait" /\ op'.n = sent + 1 /\ op'.repairs = op.repairs
    BY <1>0, <2>1 DEF CallOK, Ops
  <2> SUFFICES ASSUME errors = {} PROVE Paired'
    BY <2>1 DEF Paired
  <2>3. stdin = <<>> /\ pipe = <<>> /\ ~mixed /\ op.repairs = 0 /\ buffer = <<>>
    BY <1>0, <2>1 DEF Paired, OneLine, Waiting
  <2>4. stdin' = <<op'.n>>
    BY <2>1, <2>2, <2>3
  <2>5. Waiting'
    <3>1. op \in Ops /\ sent + 1 \in Nat
      BY <1>0, <2>1 DEF CallOK
    <3>2. op' \in Ops
      BY <2>1, <3>1 DEF Ops
    <3> QED BY <2>2, <3>2, AgentAssumption DEF Waiting
  <2> QED BY <2>1, <2>2, <2>3, <2>4, <2>5 DEF Paired, OneLine, Waiting
<1>3. ASSUME NEW kind \in {"parse", "transport"}, AttemptFails(kind), op # NoOp PROVE Paired'
  BY <1>0, <1>3, FailedAttempt DEF Paired
<1>4. CASE SendToDead \/ ReceiveEof \/ TimeOut
  BY <1>3, <1>4 DEF SendToDead, ReceiveEof, TimeOut, Sending, Waiting
<1>5. ASSUME op # NoOp, NEW reply \in Replies, NEW n \in Nat, Take(reply, n),
             errors = {} => /\ n = op.n
                            /\ stdin' = <<>> /\ pipe' = <<>> /\ buffer' = <<>>
      PROVE  Paired'
  <2>1. CASE Answered(n)
    <3>1. op' = NoOp /\ errors' = errors /\ mixed' = (mixed \/ n # op.n \/ op.repairs > 0)
      BY <1>0, <1>5, <2>1, UsedAnswer
    <3> SUFFICES ASSUME errors = {} PROVE Paired'
      BY <3>1 DEF Paired
    <3>2. ~mixed /\ op.repairs = 0 /\ n = op.n
      BY <1>0, <1>5 DEF Paired
    <3>3. ~mixed'
      <4>1. ~(op.repairs > 0)
        BY <3>2
      <4> QED BY <3>1, <3>2, <4>1, Zenon
    <3>4. ~Waiting'
      BY <3>1 DEF Waiting
    <3> QED BY <1>5, <3>1, <3>3, <3>4 DEF Paired, OneLine
  <2>2. CASE \E kind \in {"parse", "transport"} : AttemptFails(kind)
    BY <1>3, <1>5, <2>2
  <2> QED BY <1>0, <1>5, <2>1, <2>2, TakenReply
<1>6. CASE CompleteOverHttp
  <2>1. PICK reply \in Replies : Take(reply, op.n)
    BY <1>6 DEF CompleteOverHttp
  <2>2. op # NoOp /\ op.phase = "send" /\ UNCHANGED <<stdin, pipe, buffer>>
    BY <1>6 DEF CompleteOverHttp, Sending, pipeVars
  <2>3. op.n \in Nat
    BY <1>0, <2>2 DEF CallOK, Ops
  <2>4. errors = {} => stdin' = <<>> /\ pipe' = <<>> /\ buffer' = <<>>
    BY <1>0, <2>2 DEF Paired, OneLine, Waiting
  <2> QED BY <1>5, <2>1, <2>2, <2>3, <2>4
<1>7. CASE Receive
  <2> DEFINE line == Head(Fetched)
  <2>1. /\ Waiting /\ op # NoOp /\ Fetched # <<>> /\ UNCHANGED stdin
        /\ buffer' = <<>> \o Tail(Fetched)
        /\ pipe' = (IF buffer = <<>> THEN <<>> ELSE pipe)
        /\ \E reply \in Replies : Take(reply, line)
    BY <1>7 DEF Receive, Waiting, ReadLine
  <2>2. line \in Nat
    <3>1. Fetched \in Seq(Lines)
      BY <1>0 DEF Fetched, CallOK
    <3> QED BY <2>1, <3>1 DEF Lines
  <2>3. ASSUME errors = {}
        PROVE  line = op.n /\ stdin' = <<>> /\ pipe' = <<>> /\ buffer' = <<>>
    <3>1. buffer = <<>> /\ Fetched = pipe /\ OneLine
      BY <1>0, <2>3 DEF Paired, Fetched
    <3>2. pipe = <<op.n>> /\ stdin = <<>>
      BY <2>1, <3>1 DEF OneLine
    <3>3. line = op.n /\ Tail(Fetched) = <<>>
      BY <3>1, <3>2
    <3>4. <<>> \o Tail(Fetched) = <<>>
      BY <3>3
    <3> QED BY <2>1, <3>1, <3>2, <3>3, <3>4
  <2> HIDE DEF line
  <2>4. PICK reply \in Replies : Take(reply, line)
    BY <2>1
  <2> QED BY <1>5, <2>1, <2>2, <2>3, <2>4
<1>8. CASE ModelAnswers
  <2>1. Answer(Head(stdin))
    BY <1>8 DEF ModelAnswers
  <2>2. UNCHANGED <<op, errors, mixed, buffer>>
    BY <1>8, <2>1 DEF ModelAnswers, Answer, callVars
  <2> SUFFICES ASSUME errors = {} PROVE Paired'
    BY <2>2 DEF Paired
  <2>3. Waiting /\ stdin = <<op.n>> /\ pipe = <<>>
    BY <1>0, <2>1 DEF Paired, OneLine, Answer
  <2>4. stdin' = <<>> /\ pipe' = <<op.n>>
    BY <2>1, <2>3 DEF Answer
  <2>5. Waiting' /\ op' = op
    BY <2>2, <2>3 DEF Waiting
  <2>6. OneLine'
    BY <2>4, <2>5 DEF OneLine
  <2> QED BY <1>0, <2>2, <2>6 DEF Paired
<1>9. CASE ModelExits
  BY <1>0, <1>9 DEF ModelExits, Exit, callVars, Paired, OneLine, Waiting
<1>10. CASE UNCHANGED vars
  BY <1>0, <1>10 DEF vars, callVars, pipeVars, Paired, OneLine, Waiting
<1> QED BY <1>0, <1>1, <1>2, <1>4, <1>6, <1>7, <1>8, <1>9, <1>10 DEF Next

\* In a report whose recorder shows no error, every answer that was used is the answer
\* to the original prompt of its call (SubprocessJsonlModelClient.complete, _call),
\* unless the model process has written a line nobody asked for: a line can be read
\* late only after an attempt that left its error behind.
THEOREM PairedTheorem == Spec => []CleanRecordsArePaired
<1>1. PairInv => CleanRecordsArePaired
  BY DEF PairInv, Paired, CleanRecordsArePaired
<1> QED BY <1>1, PairInit, StepPaired, PTL DEF Spec

============================================================================
