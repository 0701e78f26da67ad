-------------------------- MODULE RunnerPlanProofs --------------------------
(***************************************************************************)
(* Theorems about the run that Runner returns, for every scenario,         *)
(* condition, Agent and bound: its evidence agrees with itself, so that    *)
(* verify_run_contract finds nothing to object to, and a conditional probe *)
(* earns credit only when what it is conditional on was recalled; and of   *)
(* the tools that its tasks call, once each and each result shown.         *)
(*                                                                         *)
(* The argument follows a planned probe through the run: it is asked once, *)
(* by the event it waits for, and from then on it is still to be asked,    *)
(* has its row, or waits to be scored at the end.  A task is followed the  *)
(* same way: it is set off by one event, and what its act loop has seen is *)
(* what it has called.                                                     *)
(***************************************************************************)
EXTENDS RunnerProofs

----------------------------------------------------------------------------
(* What is asked *)

\* A probe of the scenario is given by its identifier.
LEMMA ProbeById ==
    /\ \A p, q \in Range(Probes) : p.id = q.id => p = q
    /\ \A p \in Range(Probes) : /\ p.delivery \in {"respond", "act", "observe_only"}
                                /\ \E j \in DOMAIN Timeline : Timeline[j].id = p.after
<1>1. ASSUME NEW p \in Range(Probes), NEW q \in Range(Probes), p.id = q.id PROVE p = q
  <2>1. PICK i \in DOMAIN Probes : p = Probes[i]
    BY DEF Range
  <2>2. PICK j \in DOMAIN Probes : q = Probes[j]
    BY DEF Range
  <2>3. i = j
    BY <1>1, <2>1, <2>2, ScenarioAssumption
  <2> QED BY <2>1, <2>2, <2>3
<1>2. ASSUME NEW p \in Range(Probes)
      PROVE  /\ p.delivery \in {"respond", "act", "observe_only"}
             /\ \E j \in DOMAIN Timeline : Timeline[j].id = p.after
  <2>1. PICK i \in DOMAIN Probes : p = Probes[i]
    BY DEF Range
  <2> QED BY <2>1, ScenarioAssumption
<1> QED BY <1>1, <1>2

\* The planned probes are those the condition executes, once each.
LEMMA PlannedOnce ==
    ASSUME cell \in Conditions
    PROVE  /\ Planned \in Seq(Range(Probes))
           /\ Range(Planned) = {p \in Range(Probes) : p.id \in cell.executed}
           /\ \A i, j \in 1..Len(Planned) : Planned[i].id = Planned[j].id => i = j
<1> DEFINE S == Range(Probes)
           n == Len(Probes)
<1>1. PICK f, executed :
          /\ f = [i \in DOMAIN Probes |->
                    IF Probes[i].id \in cell.executed THEN <<Probes[i]>> ELSE <<>>]
          /\ executed = cell.executed
  OBVIOUS
<1>2. Planned = FlattenSeq(f)
  BY <1>1 DEF Planned, PlanOf
<1>3. Probes \in Seq(S) /\ n \in Nat /\ DOMAIN Probes = 1..n /\ \A i \in 1..n : Probes[i] \in S
  <2>1. Probes \in Seq(S)
    BY ScenarioAssumption
  <2> QED BY <2>1 DEF Range
<1>4. \A i, j \in 1..n : Probes[i] = Probes[j] => i = j
  BY <1>3, ScenarioAssumption
<1>5. \A i \in 1..n : f[i] = IF Probes[i].id \in executed THEN <<Probes[i]>> ELSE <<>>
  BY <1>1, <1>3
<1>6. DOMAIN f = 1..n
  BY <1>1, <1>3
<1> HIDE DEF S, n
<1>7. ASSUME NEW x \in S PROVE <<x>> \in Seq(S) /\ Range(<<x>>) = {x} /\ Once(S, <<x>>)
  <2>1. <<x>> \in Seq(S) /\ Len(<<x>>) = 1 /\ DOMAIN <<x>> = {1} /\ <<x>>[1] = x
    OBVIOUS
  <2> QED BY <2>1 DEF Range, Once
<1>8. <<>> \in Seq(S) /\ Range(<<>>) = {} /\ Once(S, <<>>)
  BY DEF Range, Once
<1>9. ASSUME NEW i \in 1..n
      PROVE  /\ f[i] \in Seq(S) /\ Once(S, f[i])
             /\ Range(f[i]) = IF Probes[i].id \in executed THEN {Probes[i]} ELSE {}
  <2>1. Probes[i] \in S
    BY <1>3
  <2>2. PICK x \in S : x = Probes[i]
    BY <2>1
  <2>3. <<x>> \in Seq(S) /\ Range(<<x>>) = {x} /\ Once(S, <<x>>)
    BY <1>7
  <2>4. f[i] = IF Probes[i].id \in executed THEN <<x>> ELSE <<>>
    BY <1>5, <2>2
  <2>5. ASSUME Probes[i].id \in executed PROVE f[i] = <<x>>
    BY <2>4, <2>5
  <2>6. ASSUME Probes[i].id \notin executed PROVE f[i] = <<>>
    BY <2>4, <2>6
  <2>7. CASE Probes[i].id \in executed
    BY <2>2, <2>3, <2>5, <2>7
  <2>8. CASE Probes[i].id \notin executed
    BY <1>8, <2>6, <2>8
  <2> QED BY <2>7, <2>8
<1>10. f \in Seq(Seq(S)) /\ Len(f) = n
  <2>1. f = [i \in 1..n |-> f[i]]
    BY <1>1, <1>6
  <2>2. \A i \in 1..n : f[i] \in Seq(S)
    BY <1>9
  <2>3. f \in [1..n -> Seq(S)]
    BY <2>1, <2>2, Zenon
  <2> QED BY <1>3, <2>3, FunctionIsSeq, Zenon
<1>11. \A i, j \in 1..n : i # j => Range(f[i]) \cap Range(f[j]) \cap S = {}
  <2> SUFFICES ASSUME NEW i \in 1..n, NEW j \in 1..n, i # j, NEW x \in Range(f[i]), x \in Range(f[j])
               PROVE  FALSE
    OBVIOUS
  <2>1. x = Probes[i]
    BY <1>9
  <2>2. x = Probes[j]
    BY <1>9
  <2> QED BY <1>4, <2>1, <2>2
<1>12. Planned \in Seq(S) /\ Once(S, Planned)
       /\ Range(Planned) = UNION {Range(f[i]) : i \in 1..n}
  <2>1. /\ FlattenSeq(f) \in Seq(S)
        /\ Range(FlattenSeq(f)) = UNION {Range(f[i]) : i \in DOMAIN f}
    BY <1>10, FlattenRange, Zenon
  <2>2. Once(S, FlattenSeq(f))
    <3>1. \A i \in 1..Len(f) : Once(S, f[i])
      BY <1>9, <1>10
    <3>2. \A i, j \in 1..Len(f) : i # j => Range(f[i]) \cap Range(f[j]) \cap S = {}
      BY <1>10, <1>11
    <3> QED BY <1>10, <3>1, <3>2, FlattenOnce
  <2> QED BY <1>2, <1>6, <2>1, <2>2
<1>13. S = {Probes[i] : i \in 1..n}
  BY <1>3 DEF S, Range
<1>14. Range(Planned) = {p \in S : p.id \in executed}
  <2>1. ASSUME NEW p \in Range(Planned) PROVE p \in S /\ p.id \in executed
    <3>1. PICK i \in 1..n : p \in Range(f[i])
      BY <1>12
    <3> QED BY <1>3, <1>9, <3>1
  <2>2. ASSUME NEW p \in S, p.id \in executed PROVE p \in Range(Planned)
    <3>1. PICK i \in 1..n : p = Probes[i]
      BY <1>13
    <3>2. p \in Range(f[i])
      BY <1>9, <2>2, <3>1
    <3> QED BY <1>12, <3>2
  <2> QED BY <2>1, <2>2
<1>15. ASSUME NEW i \in 1..Len(Planned), NEW j \in 1..Len(Planned), Planned[i].id = Planned[j].id
       PROVE  i = j
  <2>1. Planned[i] \in S /\ Planned[j] \in S
    BY <1>12
  <2>2. Planned[i] = Planned[j]
    BY <1>15, <2>1, ProbeById DEF S
  <2> QED BY <1>12, <2>1, <2>2 DEF Once
<1> QED BY <1>1, <1>12, <1>14, <1>15 DEF S

\* The step that asks a probe.
ProbeStep(p) ==
    Step(IF p.delivery = "observe_only" THEN "observe" ELSE p.delivery, "probe", p.id)

ProbeStepSet == {ProbeStep(p) : p \in Range(Probes)}

\* Steps that ask no probe.
Others(ids) ==
    {Step(op, for, id) : op \in {"observe", "act", "maintain", "session_boundary"},
                         for \in {"task", "event", "injection"}, id \in ids}

\* Such a step asks no probe.
LEMMA OthersAskNothing ==
    ASSUME NEW ids
    PROVE  /\ \A s \in Others(ids) : s.for # "probe" /\ s.op # "respond"
           /\ Others(ids) \cap ProbeStepSet = {}
<1>1. \A s \in Others(ids) : s.for # "probe" /\ s.op # "respond"
  BY DEF Others, Step
<1>2. \A s \in ProbeStepSet : s.for = "probe"
  BY DEF ProbeStepSet, ProbeStep, Step
<1> QED BY <1>1, <1>2

\* What an event asks by itself asks no probe.
LEMMA HandlerIsOther ==
    ASSUME NEW ids, NEW e, e.id \in ids
    PROVE  HandlerSteps(e) \in Seq(Others(ids))
<1>1. /\ Step("act", "task", e.id) \in Others(ids)
      /\ Step("observe", "event", e.id) \in Others(ids)
      /\ Step("maintain", "event", e.id) \in Others(ids)
      /\ Step("session_boundary", "event", e.id) \in Others(ids)
  BY DEF Others
<1> HIDE DEF Others
<1>2. HandlerSteps(e) \in {<<>>, <<Step("act", "task", e.id)>>, <<Step("observe", "event", e.id)>>,
                           <<Step("observe", "event", e.id), Step("maintain", "event", e.id)>>,
                           <<Step("observe", "event", e.id), Step("session_boundary", "event", e.id)>>}
  BY DEF HandlerSteps
<1>3. ASSUME NEW s1 \in Others(ids), NEW s2 \in Others(ids)
      PROVE  {<<>>, <<s1>>, <<s1, s2>>} \subseteq Seq(Others(ids))
  OBVIOUS
<1> QED BY <1>1, <1>2, <1>3

\* The steps of a probe.
LEMMA ProbeStepsAre ==
    ASSUME NEW ids, NEW p, p.id \in ids, p \in Range(Probes)
    PROVE  /\ ProbeSteps(p) \in Seq(Others(ids) \cup ProbeStepSet)
           /\ Once(ProbeStepSet, ProbeSteps(p))
           /\ ProbeStep(p) \in Range(ProbeSteps(p))
           /\ Range(ProbeSteps(p)) \subseteq Others(ids) \cup {ProbeStep(p)}
<1> DEFINE a == Step("observe", "injection", p.id)
           b == ProbeStep(p)
<1>1. a \in Others(ids) /\ b \in ProbeStepSet /\ a \notin ProbeStepSet
  <2>1. a \in Others(ids)
    BY DEF Others
  <2> QED BY <2>1, OthersAskNothing DEF ProbeStepSet
<1>2. ProbeSteps(p) = (IF p.id \in cell.before THEN <<a>> ELSE <<>>) \o <<b>>
  BY DEF ProbeSteps, ProbeStep
<1> HIDE DEF a, b
<1>3. <<>> \o <<b>> = <<b>> /\ <<a>> \o <<b>> = <<a, b>>
  BY PairConcat
<1>4. ProbeSteps(p) = <<b>> \/ ProbeSteps(p) = <<a, b>>
  BY <1>2, <1>3
<1>5. /\ Len(<<b>>) = 1 /\ DOMAIN <<b>> = {1} /\ <<b>>[1] = b
      /\ Len(<<a, b>>) = 2 /\ DOMAIN <<a, b>> = {1, 2} /\ <<a, b>>[1] = a /\ <<a, b>>[2] = b
      /\ <<b>> \in Seq({a, b}) /\ <<a, b>> \in Seq({a, b})
  OBVIOUS
<1>6. Range(<<b>>) = {b} /\ Range(<<a, b>>) = {a, b}
  BY <1>5 DEF Range
<1>7. Once(ProbeStepSet, <<b>>) /\ Once(ProbeStepSet, <<a, b>>)
  BY <1>1, <1>5 DEF Once
<1>8. \A s \in Seq({a, b}) : s \in Seq(Others(ids) \cup ProbeStepSet)
  BY <1>1
<1>9. /\ ProbeSteps(p) \in Seq(Others(ids) \cup ProbeStepSet)
      /\ Once(ProbeStepSet, ProbeSteps(p))
      /\ b \in Range(ProbeSteps(p))
      /\ Range(ProbeSteps(p)) \subseteq Others(ids) \cup {b}
  BY <1>1, <1>4, <1>5, <1>6, <1>7, <1>8
<1> QED BY <1>9 DEF b

\* The step that asks a probe is given by the probe, and gives it.
LEMMA ProbeStepOf ==
    /\ \A p, q \in Range(Probes) : ProbeStep(p) = ProbeStep(q) => p = q
    /\ \A p : /\ ProbeStep(p).for = "probe" /\ ProbeStep(p).id = p.id
<1>1. \A p : /\ ProbeStep(p).for = "probe" /\ ProbeStep(p).id = p.id
  BY DEF ProbeStep, Step
<1> QED BY <1>1, ProbeById

\* What an event asks: every planned probe that waits for it, once, and nothing else.
LEMMA EventProbes ==
    ASSUME cell \in Conditions, NEW event
    PROVE  /\ \E ids : StepsOf(event) \in Seq(Others(ids) \cup ProbeStepSet)
           /\ Once(ProbeStepSet, StepsOf(event))
           /\ \A p \in Range(Probes) :
                 ProbeStep(p) \in Range(StepsOf(event))
                    <=> p \in Range(Planned) /\ p.after = event.id
<1>0. PICK inj, planned, past : inj = cell.injections /\ planned = Planned /\ past = cell.past
  OBVIOUS
<1> DEFINE ids == {event.id} \cup {i.id : i \in Range(inj)} \cup {p.id : p \in Range(Probes)}
           S == Others(ids) \cup ProbeStepSet
<1>1. PICK f, g :
          /\ f = [i \in DOMAIN inj |-> IF inj[i].anchor = event.id THEN HandlerSteps(inj[i]) ELSE <<>>]
          /\ g = [i \in DOMAIN planned |->
                    IF planned[i].after = event.id THEN ProbeSteps(planned[i]) ELSE <<>>]
  OBVIOUS
<1>2. inj \in Seq(Range(inj)) /\ DOMAIN inj = 1..Len(inj) /\ Len(inj) \in Nat
  <2>1. inj \in Seq(Range(inj))
    BY <1>0, ScenarioAssumption, Zenon
  <2> QED BY <2>1
<1>3. /\ planned \in Seq(Range(Probes)) /\ DOMAIN planned = 1..Len(planned) /\ Len(planned) \in Nat
      /\ \A i \in 1..Len(planned) : planned[i] \in Range(Probes)
      /\ \A i, j \in 1..Len(planned) : planned[i].id = planned[j].id => i = j
      /\ Range(planned) = {planned[i] : i \in 1..Len(planned)}
  BY <1>0, PlannedOnce DEF Range
<1>4. f \in Seq(Seq(Others(ids)))
  <2>1. ASSUME NEW i \in DOMAIN inj PROVE f[i] \in Seq(Others(ids))
    <3>1. inj[i].id \in ids
      BY DEF Range
    <3>2. HandlerSteps(inj[i]) \in Seq(Others(ids))
      BY <3>1, HandlerIsOther
    <3>3. f[i] = IF inj[i].anchor = event.id THEN HandlerSteps(inj[i]) ELSE <<>>
      BY <1>1
    <3> QED BY <3>2, <3>3
  <2>2. f \in [1..Len(inj) -> Seq(Others(ids))]
    BY <1>1, <1>2, <2>1
  <2> HIDE DEF ids
  <2> QED BY <1>2, <2>2
<1>5. ASSUME NEW i \in 1..Len(planned)
      PROVE  /\ g[i] \in Seq(S) /\ Once(ProbeStepSet, g[i])
             /\ Range(g[i]) \subseteq Others(ids) \cup {ProbeStep(planned[i])}
             /\ planned[i].after = event.id => ProbeStep(planned[i]) \in Range(g[i])
             /\ planned[i].after # event.id => Range(g[i]) = {}
  <2>1. planned[i].id \in ids /\ planned[i] \in Range(Probes)
    BY <1>3
  <2>2. g[i] = IF planned[i].after = event.id THEN ProbeSteps(planned[i]) ELSE <<>>
    BY <1>1, <1>3
  <2> HIDE DEF ids
  <2>3. /\ ProbeSteps(planned[i]) \in Seq(S)
        /\ Once(ProbeStepSet, ProbeSteps(planned[i]))
        /\ ProbeStep(planned[i]) \in Range(ProbeSteps(planned[i]))
        /\ Range(ProbeSteps(planned[i])) \subseteq Others(ids) \cup {ProbeStep(planned[i])}
    BY <2>1, ProbeStepsAre
  <2>4. <<>> \in Seq(S) /\ Range(<<>>) = {} /\ Once(ProbeStepSet, <<>>)
    BY DEF Range, Once
  <2> HIDE DEF S
  <2>5. CASE planned[i].after = event.id
    BY <2>2, <2>3, <2>5
  <2>6. CASE planned[i].after # event.id
    BY <2>2, <2>4, <2>6
  <2> QED BY <2>5, <2>6
<1> HIDE DEF ids, S
<1>6. g \in Seq(Seq(S)) /\ Len(g) = Len(planned) /\ DOMAIN g = 1..Len(planned)
  <2>1. g \in [1..Len(planned) -> Seq(S)]
    BY <1>1, <1>3, <1>5
  <2> QED BY <1>3, <2>1
<1>7. \A i, j \in 1..Len(g) : i # j => Range(g[i]) \cap Range(g[j]) \cap ProbeStepSet = {}
  <2> SUFFICES ASSUME NEW i \in 1..Len(planned), NEW j \in 1..Len(planned), i # j,
                      NEW x \in Range(g[i]), x \in Range(g[j]), x \in ProbeStepSet
               PROVE  FALSE
    BY <1>6
  <2>1. x \notin Others(ids)
    BY OthersAskNothing
  <2>2. x = ProbeStep(planned[i]) /\ x = ProbeStep(planned[j])
    BY <1>5, <2>1
  <2>3. planned[i] = planned[j]
    BY <1>3, <2>2, ProbeStepOf
  <2> QED BY <1>3, <2>3
<1> DEFINE D == FlattenSeq(g)
<1>8. D \in Seq(S) /\ Range(D) = UNION {Range(g[i]) : i \in 1..Len(planned)}
  BY <1>6, FlattenRange
<1>9. Once(ProbeStepSet, D)
  <2>1. \A i \in 1..Len(g) : Once(ProbeStepSet, g[i])
    BY <1>5, <1>6
  <2> QED BY <1>6, <1>7, <2>1, FlattenOnce
<1> HIDE DEF D
<1> DEFINE A == HandlerSteps(event)
           B == FlattenSeq(f)
           C == IF event.id \in past THEN <<Step("observe", "injection", event.id)>> ELSE <<>>
<1>10. A \in Seq(Others(ids)) /\ B \in Seq(Others(ids)) /\ C \in Seq(Others(ids))
  <2>1. event.id \in ids
    BY DEF ids
  <2>2. Step("observe", "injection", event.id) \in Others(ids)
    BY <2>1 DEF Others
  <2>3. C \in Seq(Others(ids))
    BY <2>2
  <2>4. A \in Seq(Others(ids))
    BY <2>1, HandlerIsOther
  <2>5. B \in Seq(Others(ids))
    BY <1>4, FlattenRange
  <2> QED BY <2>3, <2>4, <2>5
<1>11. StepsOf(event) = A \o B \o C \o D
  BY <1>0, <1>1 DEF StepsOf, D
<1> HIDE DEF A, B, C
<1> DEFINE E == A \o B \o C
<1>12. E \in Seq(Others(ids))
  BY <1>10, ConcatProperties
<1>13. StepsOf(event) = E \o D
  BY <1>11
<1> HIDE DEF E
<1>14. /\ E \in Seq(S) /\ Once(ProbeStepSet, E) /\ Range(E) \subseteq Others(ids)
       /\ Range(E) \cap ProbeStepSet = {}
  <2>1. E \in Seq(S)
    BY <1>12 DEF S
  <2>2. Range(E) \subseteq Others(ids) /\ \A i \in 1..Len(E) : E[i] \in Others(ids)
    BY <1>12 DEF Range
  <2> QED BY <2>1, <2>2, OthersAskNothing DEF Once
<1>15. /\ Once(ProbeStepSet, E \o D) /\ E \o D \in Seq(S)
       /\ Range(E \o D) = Range(E) \cup Range(D)
  <2>1. Range(E) \cap Range(D) \cap ProbeStepSet = {}
    BY <1>14
  <2> QED BY <1>8, <1>9, <1>14, <2>1, OnceConcat
<1>16. ASSUME NEW p \in Range(Probes)
       PROVE  ProbeStep(p) \in Range(E \o D) <=> p \in Range(planned) /\ p.after = event.id
  <2>1. ProbeStep(p) \in ProbeStepSet /\ ProbeStep(p) \notin Others(ids)
    BY OthersAskNothing DEF ProbeStepSet
  <2>2. ProbeStep(p) \in Range(E \o D) <=> ProbeStep(p) \in Range(D)
    BY <1>14, <1>15, <2>1
  <2>3. ASSUME ProbeStep(p) \in Range(D) PROVE p \in Range(planned) /\ p.after = event.id
    <3>1. PICK i \in 1..Len(planned) : ProbeStep(p) \in Range(g[i])
      BY <1>8, <2>3
    <3>2. ProbeStep(p) = ProbeStep(planned[i]) /\ planned[i].after = event.id
      BY <1>5, <2>1, <3>1
    <3>3. p = planned[i]
      BY <1>3, <3>2, ProbeStepOf
    <3> QED BY <1>3, <3>2, <3>3
  <2>4. ASSUME p \in Range(planned), p.after = event.id PROVE ProbeStep(p) \in Range(D)
    <3>1. PICK i \in 1..Len(planned) : p = planned[i]
      BY <1>3, <2>4
    <3>2. ProbeStep(p) \in Range(g[i])
      BY <1>5, <2>4, <3>1
    <3> QED BY <1>8, <3>2
  <2> QED BY <2>2, <2>3, <2>4
<1> QED BY <1>0, <1>13, <1>15, <1>16 DEF S

----------------------------------------------------------------------------
(* What becomes of a planned probe *)

\* The steps that ask, and the probes they ask.
WellAsked(s) ==
    /\ s.op = "respond" => s.for = "probe"
    /\ s.for = "probe" => s.op \in {"respond", "act", "observe"}

AskAt(t) == {i \in 1..Len(t) : t[i].for = "probe"}
Asks(t) == {t[i].id : i \in AskAt(t)}
AsksOnce(t) == \A i, j \in AskAt(t) : t[i].id = t[j].id => i = j

\* A row as the Runner writes one: full credit goes to an answer that recalled.
IsRow(scored, r) ==
    /\ r = [probe |-> r.probe, outcome |-> r.outcome, score |-> r.score,
            recalled |-> r.recalled, weight |-> r.weight]
    /\ r.weight = IF r.probe \in scored THEN 1 ELSE 0
    /\ r.score = 1 => r.recalled

RowIds(rs) == {rs[i].probe : i \in 1..Len(rs)}
Rows(scored, rs) ==
    /\ rs \in Seq(Range(rs))
    /\ \A i \in 1..Len(rs) : IsRow(scored, rs[i])
    /\ \A i, j \in 1..Len(rs) : rs[i].probe = rs[j].probe => i = j

WaitIds(p) == {p[i] : i \in 1..Len(p)}
Waiting(p) ==
    /\ p \in Seq(Range(p))
    /\ \A i, j \in 1..Len(p) : p[i] = p[j] => i = j

\* Each probe that is due has a row, waits for the end, or is still to be asked,
\* and only one of these, once.
Accounts(scored, t, rs, p, due) ==
    /\ t \in Seq(Range(t)) /\ AsksOnce(t)
    /\ \A i \in 1..Len(t) : WellAsked(t[i])
    /\ Rows(scored, rs) /\ Waiting(p)
    /\ Asks(t) \cap RowIds(rs) = {} /\ Asks(t) \cap WaitIds(p) = {}
    /\ RowIds(rs) \cap WaitIds(p) = {}
    /\ RowIds(rs) \cup WaitIds(p) \cup Asks(t) = due

\* What is left to ask once the first step is done.
LEMMA TailAsks ==
    ASSUME NEW t, t \in Seq(Range(t)), t # <<>>, AsksOnce(t), \A i \in 1..Len(t) : WellAsked(t[i])
    PROVE  /\ Tail(t) \in Seq(Range(Tail(t))) /\ AsksOnce(Tail(t))
           /\ \A i \in 1..Len(Tail(t)) : WellAsked(Tail(t)[i])
           /\ Head(t).for # "probe" => Asks(Tail(t)) = Asks(t)
           /\ Head(t).for = "probe" => /\ Asks(Tail(t)) = Asks(t) \ {Head(t).id}
                                       /\ Head(t).id \in Asks(t)
<1>1. PICK u, n : u = Tail(t) /\ n = Len(t)
  OBVIOUS
<1>2. /\ u \in Seq(Range(u)) /\ n \in Nat /\ n >= 1 /\ Len(u) = n - 1 /\ Head(t) = t[1]
      /\ \A i \in 1..(n - 1) : u[i] = t[i + 1]
  BY <1>1, TailFacts
<1>3. ASSUME NEW i \in 1..n, i # 1 PROVE i - 1 \in 1..(n - 1) /\ t[i] = u[i - 1]
  <2>1. PICK j : j = i - 1
    OBVIOUS
  <2>2. j \in 1..(n - 1) /\ i = j + 1
    BY <1>2, <1>3, <2>1
  <2>3. u[j] = t[i]
    BY <1>2, <2>2
  <2> QED BY <2>1, <2>2, <2>3
<1>4. \A i \in 1..(n - 1) : i + 1 \in 1..n
  BY <1>2
<1>5. AsksOnce(u)
  <2> SUFFICES ASSUME NEW i \in AskAt(u), NEW j \in AskAt(u), u[i].id = u[j].id PROVE i = j
    BY DEF AsksOnce
  <2>1. i \in 1..(n - 1) /\ j \in 1..(n - 1) /\ u[i] = t[i + 1] /\ u[j] = t[j + 1]
    BY <1>2 DEF AskAt
  <2>2. i + 1 \in AskAt(t) /\ j + 1 \in AskAt(t)
    BY <1>1, <1>4, <2>1 DEF AskAt
  <2>3. i + 1 = j + 1
    BY <2>1, <2>2 DEF AsksOnce
  <2> QED BY <2>1, <2>3
<1>6. \A i \in 1..Len(u) : WellAsked(u[i])
  BY <1>1, <1>2, <1>4
<1>7. Asks(u) \subseteq Asks(t)
  <2> SUFFICES ASSUME NEW i \in AskAt(u) PROVE u[i].id \in Asks(t)
    BY DEF Asks
  <2>1. i \in 1..(n - 1) /\ u[i] = t[i + 1] /\ i + 1 \in 1..n
    BY <1>2, <1>4 DEF AskAt
  <2> QED BY <1>1, <2>1 DEF Asks, AskAt
<1>8. ASSUME NEW i \in AskAt(t), i # 1 PROVE t[i].id \in Asks(u)
  <2>1. i - 1 \in 1..(n - 1) /\ t[i] = u[i - 1]
    BY <1>1, <1>3, <1>8 DEF AskAt
  <2> QED BY <1>2, <2>1 DEF Asks, AskAt
<1>9. ASSUME Head(t).for # "probe" PROVE Asks(u) = Asks(t)
  <2>1. \A i \in AskAt(t) : i # 1
    BY <1>2, <1>9 DEF AskAt
  <2>2. Asks(t) \subseteq Asks(u)
    BY <1>8, <2>1 DEF Asks
  <2> QED BY <1>7, <2>2
<1>10. ASSUME Head(t).for = "probe" PROVE Asks(u) = Asks(t) \ {Head(t).id} /\ Head(t).id \in Asks(t)
  <2>1. 1 \in AskAt(t)
    BY <1>1, <1>2, <1>10 DEF AskAt
  <2>2. Head(t).id \in Asks(t)
    BY <1>2, <2>1 DEF Asks
  <2>3. ASSUME NEW i \in AskAt(u) PROVE u[i].id # t[1].id
    <3>1. i \in 1..(n - 1) /\ u[i] = t[i + 1] /\ i + 1 \in 1..n /\ i + 1 # 1
      BY <1>2, <1>4 DEF AskAt
    <3>2. i + 1 \in AskAt(t)
      BY <1>1, <3>1 DEF AskAt
    <3> QED BY <2>1, <3>1, <3>2 DEF AsksOnce
  <2>4. Asks(u) \subseteq Asks(t) \ {t[1].id}
    BY <1>7, <2>3 DEF Asks
  <2>5. Asks(t) \ {t[1].id} \subseteq Asks(u)
    BY <1>8 DEF Asks
  <2> QED BY <1>2, <2>2, <2>4, <2>5
<1> QED BY <1>1, <1>2, <1>5, <1>6, <1>9, <1>10

\* One more row, for a probe that had none.
LEMMA MoreRows ==
    ASSUME NEW scored, NEW rs, Rows(scored, rs), NEW r, IsRow(scored, r), r.probe \notin RowIds(rs)
    PROVE  Rows(scored, Append(rs, r)) /\ RowIds(Append(rs, r)) = RowIds(rs) \cup {r.probe}
<1> PICK S, u, n : S = Range(rs) \cup {r} /\ u = Append(rs, r) /\ n = Len(rs)
  OBVIOUS
<1>1. rs \in Seq(S) /\ r \in S
  BY SeqMonotonic DEF Rows
<1>2. /\ u \in Seq(S) /\ Len(u) = n + 1 /\ n \in Nat /\ u[n + 1] = r
      /\ \A i \in 1..n : u[i] = rs[i]
  BY <1>1, AppendProperties
<1>3. u \in Seq(Range(u))
  BY <1>2, SeqOfRange
<1>4. \A i \in 1..(n + 1) : i \in 1..n \/ i = n + 1
  BY <1>2
<1>5. \A i \in 1..(n + 1) : IsRow(scored, u[i])
  BY <1>2, <1>4 DEF Rows
<1>6. \A i \in 1..n : rs[i].probe # r.probe
  BY DEF RowIds
<1>7. ASSUME NEW i \in 1..(n + 1), NEW j \in 1..(n + 1), u[i].probe = u[j].probe PROVE i = j
  <2>1. CASE i \in 1..n /\ j \in 1..n
    BY <1>2, <1>7, <2>1 DEF Rows
  <2>2. CASE ~(i \in 1..n /\ j \in 1..n)
    BY <1>2, <1>4, <1>6, <1>7, <2>2
  <2> QED BY <2>1, <2>2
<1>8. Rows(scored, u)
  BY <1>2, <1>3, <1>5, <1>7 DEF Rows
<1>9. RowIds(u) = RowIds(rs) \cup {r.probe}
  <2>1. \A i \in 1..n : i \in 1..(n + 1)
    BY <1>2
  <2>2. n + 1 \in 1..(n + 1)
    BY <1>2
  <2> QED BY <1>2, <1>4, <2>1, <2>2 DEF RowIds
<1> QED BY <1>8, <1>9

\* One more probe that waits for the end.
LEMMA MoreWaiting ==
    ASSUME NEW p, Waiting(p), NEW id, id \notin WaitIds(p)
    PROVE  Waiting(Append(p, id)) /\ WaitIds(Append(p, id)) = WaitIds(p) \cup {id}
<1> PICK S, u, n : S = Range(p) \cup {id} /\ u = Append(p, id) /\ n = Len(p)
  OBVIOUS
<1>1. p \in Seq(S) /\ id \in S
  BY SeqMonotonic DEF Waiting
<1>2. /\ u \in Seq(S) /\ Len(u) = n + 1 /\ n \in Nat /\ u[n + 1] = id
      /\ \A i \in 1..n : u[i] = p[i]
  BY <1>1, AppendProperties
<1>3. u \in Seq(Range(u))
  BY <1>2, SeqOfRange
<1>4. \A i \in 1..(n + 1) : i \in 1..n \/ i = n + 1
  BY <1>2
<1>6. \A i \in 1..n : p[i] # id
  BY DEF WaitIds
<1>7. ASSUME NEW i \in 1..(n + 1), NEW j \in 1..(n + 1), u[i] = u[j] PROVE i = j
  <2>1. CASE i \in 1..n /\ j \in 1..n
    BY <1>2, <1>7, <2>1 DEF Waiting
  <2>2. CASE ~(i \in 1..n /\ j \in 1..n)
    BY <1>2, <1>4, <1>6, <1>7, <2>2
  <2> QED BY <2>1, <2>2
<1>8. Waiting(u)
  BY <1>2, <1>3, <1>7 DEF Waiting
<1>9. WaitIds(u) = WaitIds(p) \cup {id}
  <2>1. \A i \in 1..n : i \in 1..(n + 1)
    BY <1>2
  <2>2. n + 1 \in 1..(n + 1)
    BY <1>2
  <2> QED BY <1>2, <1>4, <2>1, <2>2 DEF WaitIds
<1> QED BY <1>8, <1>9

\* How a step changes the account.
LEMMA AccountOther ==
    ASSUME NEW scored, NEW t, NEW rs, NEW p, NEW due, Accounts(scored, t, rs, p, due),
           t # <<>>, Head(t).for # "probe"
    PROVE  Accounts(scored, Tail(t), rs, p, due)
<1>1. /\ Tail(t) \in Seq(Range(Tail(t))) /\ AsksOnce(Tail(t))
      /\ \A i \in 1..Len(Tail(t)) : WellAsked(Tail(t)[i])
      /\ Asks(Tail(t)) = Asks(t)
  BY TailAsks DEF Accounts
<1> QED BY <1>1, Zenon DEF Accounts

\* A probe is answered: its row takes its place.
LEMMA AccountRow ==
    ASSUME NEW scored, NEW t, NEW rs, NEW p, NEW due, Accounts(scored, t, rs, p, due),
           t # <<>>, Head(t).for = "probe", NEW r, IsRow(scored, r), r.probe = Head(t).id
    PROVE  Accounts(scored, Tail(t), Append(rs, r), p, due)
<1>1. PICK u, id, A, R, W : /\ u = Tail(t) /\ id = Head(t).id /\ A = Asks(t) /\ R = RowIds(rs)
                            /\ W = WaitIds(p)
  OBVIOUS
<1>2. /\ u \in Seq(Range(u)) /\ AsksOnce(u)
      /\ \A i \in 1..Len(u) : WellAsked(u[i])
      /\ Asks(u) = A \ {id} /\ id \in A
  BY <1>1, TailAsks DEF Accounts
<1>3. A \cap R = {} /\ A \cap W = {} /\ R \cap W = {} /\ R \cup W \cup A = due
      /\ Rows(scored, rs) /\ Waiting(p)
  BY <1>1 DEF Accounts
<1>4. Rows(scored, Append(rs, r)) /\ RowIds(Append(rs, r)) = R \cup {id}
  <2>1. r.probe \notin RowIds(rs)
    BY <1>1, <1>2, <1>3
  <2> QED BY <1>1, <1>3, <2>1, MoreRows
<1>5. /\ (A \ {id}) \cap (R \cup {id}) = {} /\ (A \ {id}) \cap W = {}
      /\ (R \cup {id}) \cap W = {} /\ (R \cup {id}) \cup W \cup (A \ {id}) = due
  BY <1>2, <1>3
<1>6. Accounts(scored, u, Append(rs, r), p, due)
  BY <1>1, <1>2, <1>3, <1>4, <1>5, Zenon DEF Accounts
<1> QED BY <1>1, <1>6

\* A probe is observed only: it waits for the end.
LEMMA AccountWaiting ==
    ASSUME NEW scored, NEW t, NEW rs, NEW p, NEW due, Accounts(scored, t, rs, p, due),
           t # <<>>, Head(t).for = "probe"
    PROVE  Accounts(scored, Tail(t), rs, Append(p, Head(t).id), due)
<1>1. PICK u, id, A, R, W : /\ u = Tail(t) /\ id = Head(t).id /\ A = Asks(t) /\ R = RowIds(rs)
                            /\ W = WaitIds(p)
  OBVIOUS
<1>2. /\ u \in Seq(Range(u)) /\ AsksOnce(u)
      /\ \A i \in 1..Len(u) : WellAsked(u[i])
      /\ Asks(u) = A \ {id} /\ id \in A
  BY <1>1, TailAsks DEF Accounts
<1>3. A \cap R = {} /\ A \cap W = {} /\ R \cap W = {} /\ R \cup W \cup A = due
      /\ Rows(scored, rs) /\ Waiting(p)
  BY <1>1 DEF Accounts
<1>4. Waiting(Append(p, id)) /\ WaitIds(Append(p, id)) = W \cup {id}
  <2>1. id \notin WaitIds(p)
    BY <1>1, <1>2, <1>3
  <2> QED BY <1>1, <1>3, <2>1, MoreWaiting
<1>5. /\ (A \ {id}) \cap R = {} /\ (A \ {id}) \cap (W \cup {id}) = {}
      /\ R \cap (W \cup {id}) = {} /\ R \cup (W \cup {id}) \cup (A \ {id}) = due
  BY <1>2, <1>3
<1>6. Accounts(scored, u, rs, Append(p, id), due)
  BY <1>1, <1>2, <1>3, <1>4, <1>5, Zenon DEF Accounts
<1> QED BY <1>1, <1>6

\* Steps that ask nothing are put before those left.
LEMMA AccountMore ==
    ASSUME NEW scored, NEW t, NEW rs, NEW p, NEW due, Accounts(scored, t, rs, p, due),
           NEW s, s \in Seq(Range(s)), \A i \in 1..Len(s) : WellAsked(s[i]) /\ s[i].for # "probe"
    PROVE  Accounts(scored, s \o t, rs, p, due)
<1> PICK S, u, m, n : S = Range(s) \cup Range(t) /\ u = s \o t /\ m = Len(s) /\ n = Len(t)
  OBVIOUS
<1>1. s \in Seq(S) /\ t \in Seq(S)
  BY SeqMonotonic DEF Accounts
<1>2. /\ u \in Seq(S) /\ Len(u) = m + n /\ m \in Nat /\ n \in Nat
      /\ \A i \in 1..(m + n) : u[i] = IF i <= m THEN s[i] ELSE t[i - m]
  BY <1>1, ConcatProperties
<1>3. u \in Seq(Range(u))
  BY <1>2, SeqOfRange
<1>4. ASSUME NEW i \in 1..(m + n)
      PROVE  \/ i \in 1..m /\ u[i] = s[i]
             \/ i - m \in 1..n /\ u[i] = t[i - m]
  BY <1>2
<1>5. \A i \in 1..Len(u) : WellAsked(u[i])
  BY <1>2, <1>4 DEF Accounts
<1>6. ASSUME NEW i \in AskAt(u) PROVE i - m \in AskAt(t) /\ u[i] = t[i - m] /\ i \in Nat
  <2>1. i \in 1..(m + n) /\ u[i].for = "probe"
    BY <1>2 DEF AskAt
  <2> QED BY <1>4, <2>1 DEF AskAt
<1>7. ASSUME NEW i \in AskAt(t) PROVE i + m \in AskAt(u) /\ u[i + m] = t[i]
  <2>1. PICK j : j = i + m
    OBVIOUS
  <2>2. i \in 1..n /\ t[i].for = "probe"
    BY DEF AskAt
  <2>3. j \in 1..(m + n) /\ ~(j <= m) /\ j - m = i
    BY <1>2, <2>1, <2>2
  <2>4. u[j] = t[i]
    BY <1>2, <2>3
  <2> QED BY <1>2, <2>1, <2>2, <2>3, <2>4 DEF AskAt
<1>8. AsksOnce(u)
  <2> SUFFICES ASSUME NEW i \in AskAt(u), NEW j \in AskAt(u), u[i].id = u[j].id PROVE i = j
    BY DEF AsksOnce
  <2>1. PICK k, l : k = i - m /\ l = j - m
    OBVIOUS
  <2>2. /\ k \in AskAt(t) /\ l \in AskAt(t) /\ t[k].id = t[l].id
        /\ i \in Nat /\ j \in Nat
    BY <1>6, <2>1
  <2>3. k = l
    BY <2>2 DEF Accounts, AsksOnce
  <2> QED BY <1>2, <2>1, <2>2, <2>3
<1>9. Asks(u) = Asks(t)
  <2>1. ASSUME NEW i \in AskAt(u) PROVE u[i].id \in Asks(t)
    BY <1>6 DEF Asks
  <2>2. ASSUME NEW i \in AskAt(t) PROVE t[i].id \in Asks(u)
    BY <1>7 DEF Asks
  <2>3. Asks(u) \subseteq Asks(t)
    BY <2>1 DEF Asks
  <2>4. Asks(t) \subseteq Asks(u)
    BY <2>2 DEF Asks
  <2> QED BY <2>3, <2>4
<1> QED BY <1>3, <1>5, <1>8, <1>9, Zenon DEF Accounts

\* A new event: the probes due by then are to be asked.
LEMMA AccountEvent ==
    ASSUME NEW scored, NEW rs, NEW p, NEW due, Accounts(scored, <<>>, rs, p, due),
           NEW t, t \in Seq(Range(t)), AsksOnce(t), \A i \in 1..Len(t) : WellAsked(t[i]),
           Asks(t) \cap due = {}
    PROVE  Accounts(scored, t, rs, p, due \cup Asks(t))
<1>1. PICK A, R, W : A = Asks(t) /\ R = RowIds(rs) /\ W = WaitIds(p)
  OBVIOUS
<1>2. Asks(<<>>) = {}
  <2>1. Len(<<>>) = 0
    OBVIOUS
  <2> QED BY <2>1 DEF Asks, AskAt
<1>3. R \cap W = {} /\ R \cup W = due /\ Rows(scored, rs) /\ Waiting(p)
  BY <1>1, <1>2 DEF Accounts
<1>4. A \cap R = {} /\ A \cap W = {} /\ R \cup W \cup A = due \cup A
  BY <1>1, <1>3
<1> QED BY <1>1, <1>3, <1>4, Zenon DEF Accounts

----------------------------------------------------------------------------
(* What the prerequisites of probes take away *)

Zeroed(r) == [r EXCEPT !.score = 0]

\* A row that loses its score keeps all else.
LEMMA ZeroedRow ==
    ASSUME NEW scored, NEW r, IsRow(scored, r)
    PROVE  /\ IsRow(scored, Zeroed(r))
           /\ Zeroed(r).probe = r.probe /\ Zeroed(r).outcome = r.outcome
           /\ Zeroed(r).recalled = r.recalled /\ Zeroed(r).score = 0
           /\ Zeroed(Zeroed(r)) = Zeroed(r)
<1>1. PICK a, b, c, d, e : r = [probe |-> a, outcome |-> b, score |-> c, recalled |-> d, weight |-> e]
  BY DEF IsRow
<1>2. Zeroed(r) = [probe |-> a, outcome |-> b, score |-> 0, recalled |-> d, weight |-> e]
  BY <1>1 DEF Zeroed
<1>3. Zeroed(Zeroed(r)) = [probe |-> a, outcome |-> b, score |-> 0, recalled |-> d, weight |-> e]
  BY <1>2 DEF Zeroed
<1>4. r.probe = a /\ r.outcome = b /\ r.recalled = d /\ r.weight = e
  BY <1>1
<1>5. e = IF a \in scored THEN 1 ELSE 0
  BY <1>4 DEF IsRow
<1>6. IsRow(scored, Zeroed(r))
  BY <1>2, <1>5 DEF IsRow
<1> QED BY <1>2, <1>3, <1>4, <1>6

\* Rows that are left of these: as they were, or without their score.
LeftOf(base) == {rs \in [1..Len(base) -> Range(base) \cup {Zeroed(base[i]) : i \in 1..Len(base)}] :
                   \A i \in 1..Len(base) : rs[i] = base[i] \/ rs[i] = Zeroed(base[i])}

\* What settling one probe does.
SettleStep(base, rs, p, new) ==
    /\ new \in LeftOf(base)
    /\ \A i \in 1..Len(base) : new[i] = rs[i] \/ new[i] = Zeroed(rs[i])
    /\ ~PrerequisitesMet(p, rs) => \A i \in 1..Len(base) : rs[i].probe = p.id => new[i].score = 0

\* Settle takes away scores, and those of the probe unless its prerequisites are met.
LEMMA SettleIs ==
    ASSUME NEW scored, NEW base, Rows(scored, base), NEW rs \in LeftOf(base), NEW p
    PROVE  SettleStep(base, rs, p, Settle(rs, p))
<1> USE DEF SettleStep
<1> PICK n, W, S : /\ n = Len(base) /\ S = Settle(rs, p)
                   /\ W = Range(base) \cup {Zeroed(base[i]) : i \in 1..Len(base)}
  OBVIOUS
<1>1. /\ rs \in [1..n -> W]
      /\ \A i \in 1..n : rs[i] = base[i] \/ rs[i] = Zeroed(base[i])
  BY DEF LeftOf
<1>2. /\ n \in Nat /\ \A i \in 1..n : IsRow(scored, base[i]) /\ base[i] \in W /\ Zeroed(base[i]) \in W
  BY DEF Rows, Range
<1>3. \A i \in 1..n : IsRow(scored, rs[i])
  BY <1>1, <1>2, ZeroedRow
<1>4. \A i \in 1..n : /\ Zeroed(rs[i]) = Zeroed(base[i]) /\ Zeroed(rs[i]).score = 0
  BY <1>1, <1>2, ZeroedRow
<1>5. CASE PrerequisitesMet(p, rs)
  <2>1. S = rs
    BY <1>5 DEF Settle
  <2> QED BY <1>5, <2>1
<1>6. CASE ~PrerequisitesMet(p, rs)
  <2>1. S = [i \in 1..n |-> IF rs[i].probe = p.id THEN Zeroed(rs[i]) ELSE rs[i]]
    BY <1>1, <1>6 DEF Settle, Zeroed
  <2>2. \A i \in 1..n : S[i] = IF rs[i].probe = p.id THEN Zeroed(rs[i]) ELSE rs[i]
    BY <2>1
  <2>3. \A i \in 1..n : /\ S[i] \in W /\ (S[i] = base[i] \/ S[i] = Zeroed(base[i]))
                        /\ S[i] = rs[i] \/ S[i] = Zeroed(rs[i])
                        /\ rs[i].probe = p.id => S[i].score = 0
    BY <1>1, <1>2, <1>4, <2>2
  <2>4. S \in [1..n -> W]
    <3>1. \A i \in 1..n : S[i] \in W
      BY <1>1, <1>2, <1>4, <2>2
    <3>2. S = [i \in 1..n |-> S[i]]
      BY <2>1
    <3> QED BY <3>1, <3>2, Zenon
  <2>5. S \in LeftOf(base)
    BY <2>3, <2>4 DEF LeftOf
  <2> QED BY <2>3, <2>5
<1> QED BY <1>5, <1>6

\* The rows after each probe of the scenario was settled.
SettledBy(base, f) ==
    /\ f[0] = base
    /\ \A n \in 0..Len(Probes) : f[n] \in LeftOf(base)
    /\ \A n \in 1..Len(Probes) : f[n] = Settle(f[n - 1], Probes[n])
    /\ f[Len(Probes)] = ApplyConditional(base)

\* ApplyConditional settles the probes one after another.
LEMMA Settling ==
    ASSUME NEW scored, NEW base, Rows(scored, base)
    PROVE  \E f : SettledBy(base, f)
<1> DEFINE n == Len(Probes)
           V == LeftOf(base)
           IsSettled(f) == f = [i \in 0..n |-> IF i = 0 THEN base ELSE Settle(f[i - 1], Probes[i])]
           G == [x \in (1..n) \X V |-> Settle(x[2], Probes[x[1]])]
<1>1. n \in Nat
  BY ScenarioAssumption
<1>2. base \in V
  <2>1. /\ base \in [1..Len(base) -> Range(base)]
        /\ Len(base) \in Nat
    BY DEF Rows, Range
  <2> QED BY <2>1 DEF LeftOf
<1>3. \A i \in 1..n : \A s \in V : G[<<i, s>>] = Settle(s, Probes[i])
  OBVIOUS
<1>4. G \in [(1..n) \X V -> V]
  <2>1. ASSUME NEW i \in 1..n, NEW s \in V PROVE Settle(s, Probes[i]) \in V
    BY SettleIs DEF SettleStep
  <2> QED BY <2>1
<1> HIDE DEF G, V, n
<1>5. PICK f : IsRecursion(V, base, n, G, f)
  BY <1>1, <1>2, <1>4, RecursionExists
<1>6. f \in [0..n -> V] /\ f[0] = base /\ \A i \in 1..n : f[i] = G[<<i, f[i - 1]>>]
  BY <1>5 DEF IsRecursion
<1>7. ASSUME NEW i \in 1..n PROVE f[i] = Settle(f[i - 1], Probes[i])
  <2>1. f[i - 1] \in V
    BY <1>1, <1>6
  <2>2. f[i] = G[<<i, f[i - 1]>>]
    BY <1>6
  <2> QED BY <1>3, <2>1, <2>2
<1>8. IsSettled(f)
  <2>1. f = [i \in 0..n |-> f[i]]
    BY <1>6
  <2>2. \A i \in 0..n : f[i] = IF i = 0 THEN base ELSE Settle(f[i - 1], Probes[i])
    <3> TAKE i \in 0..n
    <3>1. i # 0 => i \in 1..n
      BY <1>1
    <3> QED BY <1>6, <1>7, <3>1
  <2> QED BY <2>1, <2>2
<1> DEFINE g == CHOOSE h : IsSettled(h)
<1>9. IsSettled(g)
  BY <1>8
<1>10. ApplyConditional(base) = g[n]
  BY DEF ApplyConditional, n
<1> HIDE DEF g
<1>11. g[0] = base /\ \A i \in 1..n : g[i] = Settle(g[i - 1], Probes[i])
  <2>1. \A i \in 1..n : i \in 0..n /\ i # 0
    BY <1>1
  <2>2. 0 \in 0..n
    BY <1>1
  <2> QED BY <1>9, <2>1, <2>2
<1> HIDE DEF IsSettled
<1> DEFINE N == {i \in Nat : i <= n => g[i] \in V}
<1>12. 0 \in N
  BY <1>2, <1>11
<1>13. ASSUME NEW i \in N PROVE i + 1 \in N
  <2> SUFFICES ASSUME i + 1 <= n PROVE g[i + 1] \in V
    OBVIOUS
  <2>1. g[i] \in V /\ i + 1 \in 1..n /\ (i + 1) - 1 = i
    BY <1>1
  <2>2. g[i + 1] = Settle(g[i], Probes[i + 1])
    BY <1>11, <2>1
  <2> QED BY <2>1, <2>2, SettleIs DEF V, SettleStep
<1>14. N \subseteq Nat
  OBVIOUS
<1>15. \A i \in 0..n : g[i] \in V
  <2> HIDE DEF N
  <2>1. N = Nat
    BY <1>12, <1>13, <1>14, NatSetInduction
  <2>2. \A i \in 0..n : i \in N /\ i <= n
    BY <1>1, <2>1
  <2> QED BY <2>2 DEF N
<1>16. SettledBy(base, g)
  BY <1>10, <1>11, <1>15 DEF SettledBy, n, V
<1> QED BY <1>16

\* Once a score is taken away, it is not given back.
LEMMA ZeroStays ==
    ASSUME NEW scored, NEW base, Rows(scored, base), NEW f, SettledBy(base, f)
    PROVE  \A i \in 1..Len(base), k \in 0..Len(Probes) :
              f[k][i].score = 0 => f[Len(Probes)][i].score = 0
<1> SUFFICES ASSUME NEW i \in 1..Len(base), NEW k \in 0..Len(Probes), f[k][i].score = 0
             PROVE  f[Len(Probes)][i].score = 0
  OBVIOUS
<1> DEFINE n == Len(Probes)
           N == {j \in Nat : k <= j /\ j <= n => f[j][i].score = 0}
<1>1. n \in Nat /\ k \in Nat /\ k <= n
  BY ScenarioAssumption
<1>2. 0 \in N
  <2>1. k <= 0 => k = 0
    BY <1>1
  <2> QED BY <2>1
<1>3. ASSUME NEW j \in N PROVE j + 1 \in N
  <2> SUFFICES ASSUME k <= j + 1, j + 1 <= n PROVE f[j + 1][i].score = 0
    OBVIOUS
  <2>1. CASE k = j + 1
    BY <2>1
  <2>2. CASE k # j + 1
    <3>1. k <= j /\ j <= n /\ j + 1 \in 1..n /\ j \in 0..n /\ (j + 1) - 1 = j
      BY <1>1, <2>2
    <3>2. f[j][i].score = 0
      BY <3>1
    <3>3. f[j] \in LeftOf(base) /\ f[j + 1] = Settle(f[j], Probes[j + 1])
      BY <3>1 DEF SettledBy
    <3>4. PICK rs, p : rs = f[j] /\ p = Probes[j + 1]
      OBVIOUS
    <3>6. rs \in LeftOf(base) /\ f[j + 1] = Settle(rs, p)
      BY <3>3, <3>4
    <3>7. Settle(rs, p)[i] = rs[i] \/ Settle(rs, p)[i] = Zeroed(rs[i])
      <4>1. SettleStep(base, rs, p, Settle(rs, p))
        BY <3>6, SettleIs
      <4> QED BY <4>1 DEF SettleStep
    <3>8. f[j + 1][i] = f[j][i] \/ f[j + 1][i] = Zeroed(f[j][i])
      BY <3>4, <3>6, <3>7, Zenon
    <3>5. IsRow(scored, f[j][i])
      <4>1. f[j][i] = base[i] \/ f[j][i] = Zeroed(base[i])
        BY <3>3 DEF LeftOf
      <4>2. IsRow(scored, base[i])
        BY DEF Rows
      <4> QED BY <4>1, <4>2, ZeroedRow
    <3>9. Zeroed(f[j][i]).score = 0
      BY <3>5, ZeroedRow
    <3> QED BY <3>2, <3>8, <3>9
  <2> QED BY <2>1, <2>2
<1>4. N \subseteq Nat
  OBVIOUS
<1> HIDE DEF N
<1>5. n \in N
  BY <1>1, <1>2, <1>3, <1>4, NatSetInduction
<1> QED BY <1>1, <1>5 DEF N

\* A probe's credit is earned: each probe it depends on was recalled.
Credit(rs) ==
    \A i \in 1..Len(rs), k \in 1..Len(Probes) :
        rs[i].probe = Probes[k].id /\ rs[i].score = 1 =>
            \A id \in Probes[k].conditional_on :
                \E j \in 1..Len(rs) : rs[j].probe = id /\ rs[j].recalled

\* A probe is conditional on other probes.
LEMMA ConditionalIds ==
    /\ DOMAIN Probes = 1..Len(Probes)
    /\ \A i \in DOMAIN Probes :
          Probes[i].conditional_on \subseteq {p.id : p \in Range(Probes)} \ {Probes[i].id}
<1>1. Probes \in Seq(Range(Probes))
  BY ScenarioAssumption
<1> QED BY <1>1, ScenarioAssumption

\* ApplyConditional takes away scores until all that are left are earned.
LEMMA ConditionalIs ==
    ASSUME NEW scored, NEW base, Rows(scored, base)
    PROVE  LET new == ApplyConditional(base)
           IN  Rows(scored, new) /\ RowIds(new) = RowIds(base) /\ Credit(new)
<1> PICK n, new, f : n = Len(Probes) /\ new = ApplyConditional(base) /\ SettledBy(base, f)
  BY Settling
<1>1. n \in Nat /\ new = f[n] /\ new \in LeftOf(base)
  <2>1. n \in Nat /\ n \in 0..n
    BY ScenarioAssumption
  <2> QED BY <2>1 DEF SettledBy
<1>2. /\ Len(base) \in Nat /\ \A i \in 1..Len(base) : IsRow(scored, base[i])
      /\ \A i, j \in 1..Len(base) : base[i].probe = base[j].probe => i = j
  BY DEF Rows
<1>3. ASSUME NEW rs \in LeftOf(base), NEW i \in 1..Len(base)
      PROVE  /\ IsRow(scored, rs[i]) /\ rs[i].probe = base[i].probe
             /\ rs[i].recalled = base[i].recalled
  <2>1. rs[i] = base[i] \/ rs[i] = Zeroed(base[i])
    BY DEF LeftOf
  <2> QED BY <1>2, <2>1, ZeroedRow
<1>4. \E W : new \in [1..Len(base) -> W]
  BY <1>1 DEF LeftOf
<1>5. PICK W : new \in [1..Len(base) -> W]
  BY <1>4
<1>6. new \in Seq(W) /\ Len(new) = Len(base)
  BY <1>2, <1>5, FunctionIsSeq
<1>7. new \in Seq(Range(new))
  BY <1>6, SeqOfRange
<1>8. Rows(scored, new)
  <2>1. \A i \in 1..Len(new) : IsRow(scored, new[i]) /\ new[i].probe = base[i].probe
    BY <1>1, <1>3, <1>6
  <2>2. \A i, j \in 1..Len(new) : new[i].probe = new[j].probe => i = j
    BY <1>2, <1>6, <2>1
  <2> QED BY <1>7, <2>1, <2>2 DEF Rows
<1>9. RowIds(new) = RowIds(base)
  <2>1. \A i \in 1..Len(base) : new[i].probe = base[i].probe
    BY <1>1, <1>3
  <2> QED BY <1>6, <2>1 DEF RowIds
<1>11. DOMAIN Probes = 1..n
  BY ConditionalIds
<1>10. Credit(new)
  <2> SUFFICES ASSUME NEW i \in 1..Len(new), NEW k \in 1..n,
                      new[i].probe = Probes[k].id, new[i].score = 1,
                      NEW id \in Probes[k].conditional_on
               PROVE  \E j \in 1..Len(new) : new[j].probe = id /\ new[j].recalled
    BY DEF Credit
  <2>1. PICK before, after : before = f[k - 1] /\ after = f[k]
    OBVIOUS
  <2>2. /\ before \in LeftOf(base) /\ after = Settle(before, Probes[k]) /\ k \in 0..Len(Probes)
        /\ i \in 1..Len(base)
    <3>1. k - 1 \in 0..n /\ k \in 1..n /\ k \in 0..n
      BY <1>1
    <3> QED BY <1>6, <2>1, <3>1 DEF SettledBy
  <2>3. before[i].probe = Probes[k].id
    BY <1>1, <1>3, <2>2
  <2>4. PrerequisitesMet(Probes[k], before)
    <3> SUFFICES ASSUME ~PrerequisitesMet(Probes[k], before) PROVE FALSE
      OBVIOUS
    <3>1. after[i].score = 0
      <4>1. PICK p : p = Probes[k]
        OBVIOUS
      <4>2. SettleStep(base, before, p, Settle(before, p))
        BY <2>2, SettleIs
      <4> QED BY <2>2, <2>3, <4>1, <4>2 DEF SettleStep
    <3>2. new[i].score = 0
      <4>1. f[k][i].score = 0 => f[Len(Probes)][i].score = 0
        BY <2>2, ZeroStays
      <4> QED BY <1>1, <2>1, <3>1, <4>1
    <3> QED BY <3>2
  <2>5. PICK m \in DOMAIN Probes : Probes[m].id = id
    <3>1. k \in DOMAIN Probes
      BY <1>11
    <3>2. Probes[k].conditional_on \subseteq {p.id : p \in Range(Probes)} \ {Probes[k].id}
      BY <3>1, ConditionalIds
    <3>3. id \in {p.id : p \in Range(Probes)}
      BY <3>2
    <3> QED BY <3>3 DEF Range
  <2>6. PICK j \in DOMAIN before : Matches(Probes[m], before[j])
    BY <2>4, <2>5 DEF PrerequisitesMet
  <2>7. j \in 1..Len(base)
    BY <2>2, <2>6 DEF LeftOf
  <2>8. before[j].probe = id /\ before[j].recalled
    <3>1. IsRow(scored, before[j])
      BY <1>3, <2>2, <2>7
    <3> QED BY <2>5, <2>6, <3>1 DEF Matches, IsRow
  <2>9. new[j].probe = id /\ new[j].recalled
    BY <1>1, <1>3, <2>2, <2>7, <2>8, SMTT(60)
  <2> QED BY <1>6, <2>7, <2>9
<1> QED BY <1>8, <1>9, <1>10

----------------------------------------------------------------------------
(* The plan of a run *)

PlannedIds == {p.id : p \in Range(Planned)}

\* The planned probes that wait for an event begun so far.
DueNow == {p.id : p \in {q \in Range(Planned) : \E k \in 1..pos : MergedTimeline[k].id = q.after}}

Account == Accounts(cell.scored, todo, rows, pending, DueNow)

Complete == Rows(cell.scored, rows) /\ RowIds(rows) = PlannedIds /\ Credit(rows)

PlanInv ==
    /\ WorldInv
    /\ stage = "describing" => todo = <<>> /\ pos = 0 /\ rows = <<>> /\ pending = <<>>
    /\ stage = "running" => Account
    /\ valid /\ stage \in {"closing", "closed", "returned"} => Complete

\* The plan depends on the condition only.
LEMMA SamePlan ==
    ASSUME cell' = cell
    PROVE  /\ Planned' = Planned /\ MergedTimeline' = MergedTimeline /\ PlannedIds' = PlannedIds
           /\ pos' = pos => DueNow' = DueNow
<1>1. Planned' = Planned
  BY DEF Planned
<1>2. MergedTimeline' = MergedTimeline
  BY DEF MergedTimeline
<1> QED BY <1>1, <1>2 DEF PlannedIds, DueNow

\* What Row makes is a row.
LEMMA RowIsRow ==
    \A id, outcome, score, recalled :
       (score = 1 => recalled) =>
          /\ IsRow(cell.scored, Row(id, outcome, score, recalled))
          /\ Row(id, outcome, score, recalled).probe = id
  BY DEF IsRow, Row, Weight

\* What a step does to what is asked and answered, within an event.
AskStep ==
    \/ UNCHANGED <<todo, rows, pending>>
    \/ /\ todo # <<>> /\ todo' = Tail(todo) /\ Head(todo).for # "probe"
       /\ UNCHANGED <<rows, pending>>
    \/ /\ todo # <<>> /\ todo' = Tail(todo) /\ Head(todo).for = "probe"
       /\ \E outcome, score, recalled :
             /\ score = 1 => recalled
             /\ rows' = Append(rows, Row(Head(todo).id, outcome, score, recalled))
       /\ UNCHANGED pending
    \/ /\ todo # <<>> /\ todo' = Tail(todo) /\ Head(todo).for = "probe"
       /\ pending' = Append(pending, Head(todo).id)
       /\ UNCHANGED rows
    \/ \E s : /\ s \in Seq(Range(s)) /\ \A i \in 1..Len(s) : WellAsked(s[i]) /\ s[i].for # "probe"
              /\ \/ todo' = s \o todo
                 \/ todo # <<>> /\ Head(todo).for # "probe" /\ todo' = s \o Tail(todo)
              /\ UNCHANGED <<rows, pending>>

\* Such a step keeps the account.
LEMMA AccountKept ==
    ASSUME Account, cell' = cell, pos' = pos, AskStep
    PROVE  Account'
<1> PICK sc, t, r, p, d, t2, r2, p2 :
       /\ sc = cell.scored /\ t = todo /\ r = rows /\ p = pending /\ d = DueNow
       /\ t2 = todo' /\ r2 = rows' /\ p2 = pending'
  OBVIOUS
<1>1. Accounts(sc, t, r, p, d)
  BY DEF Account
<1>2. DueNow' = d /\ cell'.scored = sc
  BY SamePlan
<1>3. SUFFICES Accounts(sc, t2, r2, p2, d)
  BY <1>2 DEF Account
<1>4. CASE UNCHANGED <<todo, rows, pending>>
  BY <1>1, <1>4
<1>5. CASE /\ todo # <<>> /\ todo' = Tail(todo) /\ Head(todo).for # "probe"
           /\ UNCHANGED <<rows, pending>>
  <2>1. t # <<>> /\ t2 = Tail(t) /\ Head(t).for # "probe" /\ r2 = r /\ p2 = p
    BY <1>5
  <2> QED BY <1>1, <2>1, AccountOther
<1>6. CASE /\ todo # <<>> /\ todo' = Tail(todo) /\ Head(todo).for = "probe"
           /\ \E outcome, score, recalled :
                 /\ score = 1 => recalled
                 /\ rows' = Append(rows, Row(Head(todo).id, outcome, score, recalled))
           /\ UNCHANGED pending
  <2>1. PICK outcome, score, recalled :
                 /\ score = 1 => recalled
                 /\ rows' = Append(rows, Row(Head(todo).id, outcome, score, recalled))
    BY <1>6
  <2>2. PICK row : row = Row(Head(todo).id, outcome, score, recalled)
    OBVIOUS
  <2>3. IsRow(sc, row) /\ row.probe = Head(t).id
    BY <2>1, <2>2, RowIsRow
  <2>4. t # <<>> /\ t2 = Tail(t) /\ Head(t).for = "probe" /\ r2 = Append(r, row) /\ p2 = p
    BY <1>6, <2>1, <2>2
  <2> QED BY <1>1, <2>3, <2>4, AccountRow
<1>7. CASE /\ todo # <<>> /\ todo' = Tail(todo) /\ Head(todo).for = "probe"
           /\ pending' = Append(pending, Head(todo).id)
           /\ UNCHANGED rows
  <2>1. t # <<>> /\ t2 = Tail(t) /\ Head(t).for = "probe" /\ r2 = r /\ p2 = Append(p, Head(t).id)
    BY <1>7
  <2> QED BY <1>1, <2>1, AccountWaiting
<1>8. ASSUME NEW s, s \in Seq(Range(s)), \A i \in 1..Len(s) : WellAsked(s[i]) /\ s[i].for # "probe",
             \/ todo' = s \o todo
             \/ todo # <<>> /\ Head(todo).for # "probe" /\ todo' = s \o Tail(todo),
             UNCHANGED <<rows, pending>>
      PROVE  Accounts(sc, t2, r2, p2, d)
  <2>1. r2 = r /\ p2 = p
    BY <1>8
  <2>2. CASE t2 = s \o t
    BY <1>1, <1>8, <2>1, <2>2, AccountMore
  <2>3. CASE t # <<>> /\ Head(t).for # "probe" /\ t2 = s \o Tail(t)
    <3>1. Accounts(sc, Tail(t), r, p, d)
      BY <1>1, <2>3, AccountOther
    <3>2. PICK u : u = Tail(t)
      OBVIOUS
    <3>3. Accounts(sc, u, r, p, d) /\ t2 = s \o u
      BY <2>3, <3>1, <3>2
    <3> QED BY <1>8, <2>1, <3>3, AccountMore
  <2> QED BY <1>8, <2>2, <2>3
<1> QED BY <1>4, <1>5, <1>6, <1>7, <1>8 DEF AskStep

\* The operation at hand is one that is asked well.
LEMMA HeadAsked ==
    ASSUME Account, todo # <<>>
    PROVE  WellAsked(Head(todo))
<1>1. todo \in Seq(Range(todo)) /\ \A i \in 1..Len(todo) : WellAsked(todo[i])
  BY DEF Account, Accounts
<1>2. Len(todo) \in Nat /\ Len(todo) >= 1 /\ Head(todo) = todo[1]
  <2>1. PICK t : t = todo
    OBVIOUS
  <2>2. t \in Seq(Range(t)) /\ t # <<>>
    BY <1>1, <2>1
  <2> QED BY <2>1, <2>2, TailFacts
<1> QED BY <1>1, <1>2

\* One or a few steps that ask nothing.
NoAsks(s) == s \in Seq(Range(s)) /\ \A i \in 1..Len(s) : WellAsked(s[i]) /\ s[i].for # "probe"

\* A session boundary asks nothing.
LEMMA HandoverAsks ==
    ASSUME NEW state
    PROVE  NoAsks(Handover(state))
<1> DEFINE a == Step("replace", "session", "session")
           b == Step("reset", "session", "session")
           c == Step("restore", "session", "session")
<1>1. /\ WellAsked(a) /\ a.for # "probe" /\ WellAsked(b) /\ b.for # "probe"
      /\ WellAsked(c) /\ c.for # "probe"
  BY DEF WellAsked, Step
<1>2. Handover(state) = <<a, b>> \o (IF state = Nothing THEN <<>> ELSE <<c>>)
  BY DEF Handover
<1> HIDE DEF a, b, c
<1>3. Handover(state) = <<a, b>> \/ Handover(state) = <<a, b, c>>
  BY <1>2, ShortConcat
<1>4. /\ <<a, b>> \in Seq(Range(<<a, b>>)) /\ Len(<<a, b>>) = 2
      /\ <<a, b>>[1] = a /\ <<a, b>>[2] = b
      /\ <<a, b, c>> \in Seq(Range(<<a, b, c>>)) /\ Len(<<a, b, c>>) = 3
      /\ <<a, b, c>>[1] = a /\ <<a, b, c>>[2] = b /\ <<a, b, c>>[3] = c
  BY ShortSeqs, Zenon
<1>5. NoAsks(<<a, b>>)
  <2>1. \A i \in 1..2 : i = 1 \/ i = 2
    OBVIOUS
  <2> QED BY <1>1, <1>4, <2>1 DEF NoAsks
<1>6. NoAsks(<<a, b, c>>)
  <2>1. \A i \in 1..3 : i = 1 \/ i = 2 \/ i = 3
    OBVIOUS
  <2> QED BY <1>1, <1>4, <2>1 DEF NoAsks
<1> QED BY <1>3, <1>5, <1>6

\* Nor does a single step that is for no probe.
LEMMA SingleAsks ==
    ASSUME NEW s, WellAsked(s), s.for # "probe"
    PROVE  NoAsks(<<s>>) /\ NoAsks(<<>>)
<1>1. <<s>> \in Seq({s}) /\ Len(<<s>>) = 1 /\ <<s>>[1] = s /\ DOMAIN <<s>> = {1}
  OBVIOUS
<1>2. <<s>> \in Seq(Range(<<s>>))
  BY <1>1, SeqOfRange
<1>3. NoAsks(<<s>>)
  BY <1>1, <1>2 DEF NoAsks
<1> QED BY <1>3, NoTodo DEF NoAsks

\* Within an event, every step asks or answers as it should.
LEMMA StepAsks ==
    ASSUME Account, Next, stage = "running", stage' = "running", ~NextEvent
    PROVE  AskStep
<1> USE DEF Invoking, Done, Unchanged
<1>1. \A op : todo # <<>> => /\ Head(todo).op = op /\ op \notin {"respond", "act", "observe"} => Head(todo).for # "probe"
                             /\ Head(todo).op = "respond" => Head(todo).for = "probe"
  BY HeadAsked DEF WellAsked
<1>2. CASE \E fault \in Fault : \/ Retry(fault) \/ LifecycleFailure(fault)
                                \/ ProbeFailure(fault) \/ TaskFailure(fault)
  <2>1. PICK fault \in Fault : \/ Retry(fault) \/ LifecycleFailure(fault)
                               \/ ProbeFailure(fault) \/ TaskFailure(fault)
    BY <1>2
  <2>2. ~LifecycleFailure(fault) /\ ~TaskFailure(fault)
    BY DEF LifecycleFailure, TaskFailure, GiveUp, Raise
  <2>3. CASE Retry(fault)
    BY <2>3 DEF Retry, AskStep
  <2>4. CASE ProbeFailure(fault)
    <3>1. /\ todo # <<>> /\ todo' = Tail(todo) /\ Head(todo).for = "probe" /\ UNCHANGED pending
          /\ rows' = Append(rows, Row(Head(todo).id, "execution_failure", 0, FALSE))
          /\ 0 = 1 => FALSE
      BY <2>4 DEF ProbeFailure
    <3> QED BY <3>1, Zenon DEF AskStep
  <2> QED BY <2>1, <2>2, <2>3, <2>4
<1>3. CASE Lifecycle
  <2>1. CASE ResetAgent \/ MaintainAgent \/ RestoreAgent
    <3>1. /\ todo # <<>> /\ todo' = Tail(todo) /\ UNCHANGED <<rows, pending>>
          /\ Head(todo).op \in {"reset", "maintain", "restore"}
      BY <2>1 DEF ResetAgent, MaintainAgent, RestoreAgent
    <3> QED BY <1>1, <3>1 DEF AskStep
  <2>2. CASE MaintainWithoutCall
    <3>1. /\ todo # <<>> /\ todo' = Tail(todo) /\ UNCHANGED <<rows, pending>>
          /\ Head(todo).op = "maintain"
      BY <2>2 DEF MaintainWithoutCall, GiveUp
    <3> QED BY <1>1, <3>1 DEF AskStep
  <2>3. CASE ReplaceAgent
    <3>1. /\ todo # <<>> /\ todo' = Tail(todo) /\ UNCHANGED <<rows, pending>>
          /\ Head(todo).op = "replace"
      BY <2>3 DEF ReplaceAgent, Replacing
    <3> QED BY <1>1, <3>1 DEF AskStep
  <2>4. CASE ReplaceFails
    BY <2>4 DEF ReplaceFails, Raise
  <2>5. CASE ObserveEvent
    BY <2>5 DEF ObserveEvent, AskStep
  <2>6. CASE \E state \in {Nothing, Current} : EndSession(state)
    <3>1. PICK state : EndSession(state)
      BY <2>6
    <3>2. PICK s : s = IF cell.isolation = "persisted_state" THEN Handover(state) ELSE <<>>
      OBVIOUS
    <3>3. /\ todo # <<>> /\ todo' = s \o Tail(todo) /\ UNCHANGED <<rows, pending>>
          /\ Head(todo).op = "session_boundary"
      BY <3>1, <3>2 DEF EndSession
    <3>4. Head(todo).for # "probe"
      BY <1>1, <3>3
    <3>5. NoAsks(s)
      <4>1. NoAsks(Handover(state))
        BY HandoverAsks
      <4>2. NoAsks(<<>>)
        BY NoTodo DEF NoAsks
      <4> QED BY <3>2, <4>1, <4>2
    <3> QED BY <3>3, <3>4, <3>5 DEF AskStep, NoAsks
  <2> QED BY <1>3, <2>1, <2>2, <2>3, <2>4, <2>5, <2>6 DEF Lifecycle
<1>4. CASE Probe
  <2>1. CASE \E score \in {0, 1}, recalled \in BOOLEAN : RespondToProbe(score, recalled)
    <3>1. PICK score, recalled : RespondToProbe(score, recalled)
      BY <2>1
    <3>2. /\ todo # <<>> /\ todo' = Tail(todo) /\ Head(todo).op = "respond" /\ UNCHANGED pending
          /\ score = 1 => recalled
          /\ rows' = Append(rows, Row(Head(todo).id, "scored", score, recalled))
      BY <3>1 DEF RespondToProbe
    <3>3. Head(todo).for = "probe"
      BY <1>1, <3>2
    <3> QED BY <3>2, <3>3, Zenon DEF AskStep
  <2>2. ASSUME NEW score, NEW recalled, score = 1 => recalled, NEW row,
               row = Row(Head(todo).id, "scored", score, recalled), todo # <<>>, EndActLoop(row)
        PROVE  AskStep
    <3>1. /\ todo # <<>> /\ todo' = Tail(todo) /\ UNCHANGED pending
          /\ rows' = IF Head(todo).for = "probe"
                     THEN Append(rows, Row(Head(todo).id, "scored", score, recalled)) ELSE rows
      BY <2>2 DEF EndActLoop
    <3>2. CASE Head(todo).for = "probe"
      BY <2>2, <3>1, <3>2, Zenon DEF AskStep
    <3>3. CASE Head(todo).for # "probe"
      BY <3>1, <3>3 DEF AskStep
    <3> QED BY <3>2, <3>3
  <2>3. CASE \E score \in {0, 1} : FinishAct(score)
    <3>1. PICK score \in {0, 1} : FinishAct(score)
      BY <2>3
    <3>2. todo # <<>> /\ EndActLoop(Row(Head(todo).id, "scored", score, score = 1))
      BY <3>1 DEF FinishAct
    <3>3. PICK recalled, row : /\ recalled = (score = 1)
                              /\ row = Row(Head(todo).id, "scored", score, score = 1)
      OBVIOUS
    <3>4. (score = 1 => recalled) /\ row = Row(Head(todo).id, "scored", score, recalled)
      BY <3>3
    <3>5. todo # <<>> /\ EndActLoop(row)
      BY <3>2, <3>3
    <3> QED BY <2>2, <3>4, <3>5
  <2>4. CASE Misbehave
    <3>1. todo # <<>> /\ EndActLoop(Row(Head(todo).id, "scored", 0, FALSE))
      BY <2>4 DEF Misbehave
    <3>2. PICK score, recalled, row : /\ score = 0 /\ recalled = FALSE
                                     /\ row = Row(Head(todo).id, "scored", 0, FALSE)
      OBVIOUS
    <3>3. (score = 1 => recalled) /\ row = Row(Head(todo).id, "scored", score, recalled)
      <4>1. score = 1 => recalled
        BY <3>2
      <4>2. row = Row(Head(todo).id, "scored", score, recalled)
        BY <3>2, Zenon
      <4> QED BY <4>1, <4>2
    <3>4. EndActLoop(row)
      BY <3>1, <3>2
    <3> QED BY <2>2, <3>1, <3>3, <3>4
  <2>5. CASE \E id \in ToolCallIds : CallTool(id)
    <3>1. PICK id \in ToolCallIds : CallTool(id)
      BY <2>5
    <3>2. PICK s, e : e = [Step("observe", "tool", Head(todo).id) EXCEPT !.call = id] /\ s = <<e>>
      OBVIOUS
    <3>3. todo' = s \o todo /\ UNCHANGED <<rows, pending>>
      BY <3>1, <3>2 DEF CallTool
    <3>4. WellAsked(e) /\ e.for # "probe"
      BY <3>2 DEF Step, WellAsked
    <3>5. NoAsks(s)
      BY <3>2, <3>4, SingleAsks
    <3> QED BY <3>3, <3>5 DEF AskStep, NoAsks
  <2> QED BY <1>4, <2>1, <2>3, <2>4, <2>5 DEF Probe
<1>5. CASE Resend
  BY <1>5 DEF Resend, AskStep
<1>6. ~ \E d \in Descriptors \cup {NoDescriptor} : Describe(d)
  BY DEF Describe
<1>7. ~ScorePending /\ ~ScoringFails /\ ~Return
  BY DEF ScorePending, ScoringFails, Return, Raise
<1>8. ~ \E outcome \in {"success", "failure"} : Close(outcome)
  BY DEF Close
<1> QED BY <1>2, <1>3, <1>4, <1>5, <1>6, <1>7, <1>8 DEF Next

\* The planned probes are probes of the scenario.
LEMMA PlannedProbes ==
    ASSUME cell \in Conditions
    PROVE  Range(Planned) \subseteq Range(Probes)
  BY PlannedOnce

\* No two events of the merged timeline have the identifier of one of the scenario.
LEMMA MergedOnce ==
    ASSUME cell \in Conditions
    PROVE  \A k, l \in 1..Len(MergedTimeline) :
              MergedTimeline[k].id = MergedTimeline[l].id
              /\ (\E j \in DOMAIN Timeline : Timeline[j].id = MergedTimeline[k].id)
              => k = l
<1> PICK inj, merged, n : inj = cell.injections /\ merged = MergedTimeline /\ n = Len(Timeline)
  OBVIOUS
<1>1. PICK m : Places(Timeline, merged, Range(inj), m)
  BY MergedPlaces
<1>2. n \in Nat /\ DOMAIN Timeline = 1..n
  BY EventFacts
<1>3. \A e \in Range(inj) : \A j \in 1..n : e.id # Timeline[j].id
  <2>1. \A i \in DOMAIN inj : \A j \in DOMAIN Timeline : inj[i].id # Timeline[j].id
    BY ScenarioAssumption
  <2> QED BY <1>2, <2>1 DEF Range
<1>5. \A i, j \in DOMAIN Timeline : Timeline[i].id = Timeline[j].id => i = j
  BY ScenarioAssumption
<1>4. ASSUME NEW k \in 1..Len(merged), NEW j \in 1..n, Timeline[j].id = merged[k].id
      PROVE  k = m[j]
  <2>1. merged[k] \notin Range(inj)
    BY <1>3, <1>4
  <2>2. PICK i \in 1..n : k = m[i]
    BY <1>1, <2>1 DEF Places
  <2>3. merged[k] = Timeline[i]
    BY <1>1, <2>2 DEF Places
  <2>4. i = j
    BY <1>2, <1>4, <1>5, <2>3
  <2> QED BY <2>2, <2>4
<1> QED BY <1>2, <1>4

\* A new event: the probes that wait for it are to be asked.
LEMMA EventAccount ==
    ASSUME Account, cell \in Conditions, pos \in Nat, NextEvent
    PROVE  Account'
<1> PICK sc, r, p, d, t2, d2, event, q, merged :
       /\ sc = cell.scored /\ r = rows /\ p = pending /\ d = DueNow
       /\ t2 = todo' /\ d2 = DueNow' /\ q = pos /\ merged = MergedTimeline
       /\ event = MergedTimeline[pos + 1]
  OBVIOUS
<1>1. /\ todo = <<>> /\ t2 = StepsOf(event) /\ cell' = cell /\ pos' = q + 1
      /\ rows' = r /\ pending' = p /\ q < Len(merged) /\ q \in Nat
  BY DEF NextEvent
<1>2. Accounts(sc, <<>>, r, p, d)
  BY <1>1 DEF Account
<1>3. PICK ids : t2 \in Seq(Others(ids) \cup ProbeStepSet)
  <2>1. \E ids : StepsOf(event) \in Seq(Others(ids) \cup ProbeStepSet)
    BY EventProbes
  <2> QED BY <1>1, <2>1
<1>4. /\ Once(ProbeStepSet, t2)
      /\ \A a \in Range(Probes) :
            ProbeStep(a) \in Range(t2) <=> a \in Range(Planned) /\ a.after = event.id
  BY <1>1, EventProbes
<1>5. /\ t2 \in Seq(Range(t2)) /\ DOMAIN t2 = 1..Len(t2)
      /\ \A i \in 1..Len(t2) : t2[i] \in Others(ids) \cup ProbeStepSet
      /\ Range(t2) = {t2[i] : i \in 1..Len(t2)}
  <2>1. t2 \in Seq(Range(t2))
    BY <1>3, SeqOfRange
  <2> QED BY <1>3, <2>1 DEF Range
<1>6. \A a \in Range(Probes) : /\ ProbeStep(a).for = "probe" /\ ProbeStep(a).id = a.id
                               /\ WellAsked(ProbeStep(a))
  <2>1. \A a \in Range(Probes) : a.delivery \in {"respond", "act", "observe_only"}
    BY ProbeById
  <2> QED BY <2>1 DEF ProbeStep, Step, WellAsked
<1>7. \A i \in 1..Len(t2) : WellAsked(t2[i])
  <2> TAKE i \in 1..Len(t2)
  <2>1. CASE t2[i] \in Others(ids)
    BY <2>1, OthersAskNothing DEF WellAsked
  <2>2. CASE t2[i] \in ProbeStepSet
    BY <1>6, <2>2 DEF ProbeStepSet
  <2> QED BY <1>5, <2>1, <2>2
<1>8. ASSUME NEW i \in AskAt(t2)
      PROVE  /\ i \in 1..Len(t2) /\ t2[i] \in ProbeStepSet
             /\ \E a \in Range(Planned) : a.after = event.id /\ t2[i] = ProbeStep(a) /\ t2[i].id = a.id
  <2>1. i \in 1..Len(t2) /\ t2[i].for = "probe"
    BY DEF AskAt
  <2>2. t2[i] \in ProbeStepSet
    BY <1>5, <2>1, OthersAskNothing
  <2>3. PICK a \in Range(Probes) : t2[i] = ProbeStep(a)
    BY <2>2 DEF ProbeStepSet
  <2>4. ProbeStep(a) \in Range(t2)
    BY <1>5, <2>1, <2>3
  <2>5. a \in Range(Planned) /\ a.after = event.id
    BY <1>4, <2>4
  <2> QED BY <1>6, <2>1, <2>2, <2>3, <2>5
<1>9. AsksOnce(t2)
  <2> SUFFICES ASSUME NEW i \in AskAt(t2), NEW j \in AskAt(t2), t2[i].id = t2[j].id PROVE i = j
    BY DEF AsksOnce
  <2>1. PICK a \in Range(Planned) : t2[i] = ProbeStep(a) /\ t2[i].id = a.id
    BY <1>8
  <2>2. PICK b \in Range(Planned) : t2[j] = ProbeStep(b) /\ t2[j].id = b.id
    BY <1>8
  <2>3. a = b
    BY <2>1, <2>2, PlannedProbes, ProbeById
  <2>4. t2[i] = t2[j]
    BY <2>1, <2>2, <2>3
  <2> QED BY <1>4, <1>8, <2>4 DEF Once
<1>10. Asks(t2) = {a.id : a \in {b \in Range(Planned) : b.after = event.id}}
  <2>1. ASSUME NEW i \in AskAt(t2)
        PROVE  t2[i].id \in {a.id : a \in {b \in Range(Planned) : b.after = event.id}}
    BY <1>8
  <2>2. ASSUME NEW a \in Range(Planned), a.after = event.id PROVE a.id \in Asks(t2)
    <3>1. a \in Range(Probes)
      BY PlannedProbes
    <3>2. ProbeStep(a) \in Range(t2)
      BY <1>4, <2>2, <3>1
    <3>3. PICK i \in 1..Len(t2) : t2[i] = ProbeStep(a)
      BY <1>5, <3>2
    <3>4. i \in AskAt(t2) /\ t2[i].id = a.id
      BY <1>6, <3>1, <3>3 DEF AskAt
    <3> QED BY <3>4 DEF Asks
  <2>3. Asks(t2) \subseteq {a.id : a \in {b \in Range(Planned) : b.after = event.id}}
    BY <2>1 DEF Asks
  <2> QED BY <2>2, <2>3
<1>11. d = {a.id : a \in {b \in Range(Planned) : \E k \in 1..q : merged[k].id = b.after}}
  BY DEF DueNow
<1>12. d2 = {a.id : a \in {b \in Range(Planned) : \E k \in 1..(q + 1) : merged[k].id = b.after}}
  BY <1>1, SamePlan DEF DueNow
<1>13. \A b : (\E k \in 1..(q + 1) : merged[k].id = b.after)
                 <=> (\E k \in 1..q : merged[k].id = b.after) \/ b.after = event.id
  <2>1. \A k \in 1..(q + 1) : k \in 1..q \/ k = q + 1
    BY <1>1
  <2>2. q + 1 \in 1..(q + 1) /\ \A k \in 1..q : k \in 1..(q + 1)
    BY <1>1
  <2>3. merged[q + 1] = event
    OBVIOUS
  <2> QED BY <2>1, <2>2, <2>3
<1>14. d2 = d \cup Asks(t2)
  BY <1>10, <1>11, <1>12, <1>13
<1>15. Asks(t2) \cap d = {}
  <2> SUFFICES ASSUME NEW a \in Range(Planned), a.after = event.id, NEW b \in Range(Planned),
                      NEW k \in 1..q, merged[k].id = b.after, a.id = b.id
               PROVE  FALSE
    BY <1>10, <1>11
  <2>1. a = b /\ merged[k].id = merged[q + 1].id
    BY PlannedProbes, ProbeById
  <2>2. \E j \in DOMAIN Timeline : Timeline[j].id = merged[k].id
    BY PlannedProbes, ProbeById
  <2>3. k \in 1..Len(merged) /\ q + 1 \in 1..Len(merged) /\ k # q + 1
    BY <1>1, EventFacts
  <2>4. k = q + 1
    BY <2>1, <2>2, <2>3, MergedOnce
  <2> QED BY <2>3, <2>4
<1>16. Accounts(sc, t2, r, p, d \cup Asks(t2))
  BY <1>2, <1>5, <1>7, <1>9, <1>15, AccountEvent
<1> QED BY <1>1, <1>14, <1>16 DEF Account

----------------------------------------------------------------------------
(* Every planned probe gets its row *)

Ends == {"closing", "closed", "returned"}

\* Rows of different probes, put together.
LEMMA JoinRows ==
    ASSUME NEW sc, NEW r, Rows(sc, r), NEW s, Rows(sc, s), RowIds(r) \cap RowIds(s) = {}
    PROVE  Rows(sc, r \o s) /\ RowIds(r \o s) = RowIds(r) \cup RowIds(s)
<1>1. PICK u, m, n, V : u = r \o s /\ m = Len(r) /\ n = Len(s) /\ V = Range(r) \cup Range(s)
  OBVIOUS
<1>2. /\ \A i \in 1..m : IsRow(sc, r[i])
      /\ \A i, j \in 1..m : r[i].probe = r[j].probe => i = j
      /\ \A i \in 1..n : IsRow(sc, s[i])
      /\ \A i, j \in 1..n : s[i].probe = s[j].probe => i = j
  BY <1>1 DEF Rows
<1>3. \A i \in 1..m, j \in 1..n : r[i].probe # s[j].probe
  BY <1>1 DEF RowIds
<1>4. r \in Seq(V) /\ s \in Seq(V)
  BY <1>1, SeqMonotonic DEF Rows
<1>5. /\ u \in Seq(V) /\ Len(u) = m + n /\ m \in Nat /\ n \in Nat
      /\ \A i \in 1..(m + n) : u[i] = IF i <= m THEN r[i] ELSE s[i - m]
  BY <1>1, <1>4, ConcatProperties
<1>6. u \in Seq(Range(u))
  BY <1>5, SeqOfRange
<1>7. ASSUME NEW i \in 1..(m + n)
      PROVE  \/ i \in 1..m /\ u[i] = r[i]
             \/ i - m \in 1..n /\ u[i] = s[i - m]
  BY <1>5
<1>8. \A i \in 1..(m + n) : IsRow(sc, u[i])
  BY <1>2, <1>7
<1>9. ASSUME NEW i \in 1..(m + n), NEW j \in 1..(m + n), u[i].probe = u[j].probe PROVE i = j
  <2>1. PICK k, l : k = i - m /\ l = j - m
    OBVIOUS
  <2>2. /\ (i \in 1..m /\ u[i] = r[i]) \/ (k \in 1..n /\ u[i] = s[k])
        /\ (j \in 1..m /\ u[j] = r[j]) \/ (l \in 1..n /\ u[j] = s[l])
    <3>1. (i \in 1..m /\ u[i] = r[i]) \/ (i - m \in 1..n /\ u[i] = s[i - m])
      BY <1>7
    <3>2. (j \in 1..m /\ u[j] = r[j]) \/ (j - m \in 1..n /\ u[j] = s[j - m])
      BY <1>7
    <3> QED BY <2>1, <3>1, <3>2, Zenon
  <2>3. CASE i \in 1..m /\ u[i] = r[i] /\ j \in 1..m /\ u[j] = r[j]
    BY <1>2, <1>9, <2>3
  <2>4. CASE k \in 1..n /\ u[i] = s[k] /\ l \in 1..n /\ u[j] = s[l]
    <3>1. k = l
      BY <1>2, <1>9, <2>4
    <3> QED BY <1>5, <2>1, <3>1
  <2>5. CASE i \in 1..m /\ u[i] = r[i] /\ l \in 1..n /\ u[j] = s[l]
    BY <1>3, <1>9, <2>5
  <2>6. CASE k \in 1..n /\ u[i] = s[k] /\ j \in 1..m /\ u[j] = r[j]
    BY <1>3, <1>9, <2>6
  <2> QED BY <2>2, <2>3, <2>4, <2>5, <2>6, Zenon
<1>10. Rows(sc, u)
  BY <1>5, <1>6, <1>8, <1>9 DEF Rows
<1>11. RowIds(u) = RowIds(r) \cup RowIds(s)
  <2>1. RowIds(u) \subseteq RowIds(r) \cup RowIds(s)
    BY <1>1, <1>5, <1>7 DEF RowIds
  <2>2. ASSUME NEW i \in 1..m PROVE r[i].probe \in RowIds(u)
    <3>1. i \in 1..(m + n) /\ u[i] = r[i]
      BY <1>5
    <3> QED BY <1>5, <3>1 DEF RowIds
  <2>3. ASSUME NEW i \in 1..n PROVE s[i].probe \in RowIds(u)
    <3>1. PICK k : k = i + m
      OBVIOUS
    <3>2. k \in 1..(m + n) /\ ~(k <= m) /\ k - m = i
      BY <1>5, <3>1
    <3>3. u[k] = s[i]
      BY <1>5, <3>2
    <3> QED BY <1>5, <3>2, <3>3 DEF RowIds
  <2>4. RowIds(r) = {r[i].probe : i \in 1..m} /\ RowIds(s) = {s[i].probe : i \in 1..n}
    BY <1>1 DEF RowIds
  <2>5. RowIds(r) \subseteq RowIds(u) /\ RowIds(s) \subseteq RowIds(u)
    BY <2>2, <2>3, <2>4
  <2> QED BY <2>1, <2>5
<1> QED BY <1>1, <1>10, <1>11

\* The rows of the probes that waited for the end.
LEMMA WaitingRows ==
    ASSUME NEW scores, Waiting(pending)
    PROVE  /\ Rows(cell.scored, ScoredPending(scores))
           /\ RowIds(ScoredPending(scores)) = WaitIds(pending)
<1>1. PICK sc, p, s, n :
       sc = cell.scored /\ p = pending /\ s = ScoredPending(scores) /\ n = Len(p)
  OBVIOUS
<1>2. p \in Seq(Range(p)) /\ \A i, j \in 1..n : p[i] = p[j] => i = j
  BY <1>1 DEF Waiting
<1>3. n \in Nat /\ DOMAIN p = 1..n
  BY <1>1, <1>2
<1>4. s = [i \in 1..n |-> Row(p[i], "scored", scores[i], scores[i] = 1)]
  BY <1>1, <1>3 DEF ScoredPending
<1>5. ASSUME NEW i \in 1..n PROVE IsRow(sc, s[i]) /\ s[i].probe = p[i]
  <2>1. PICK a, b, c : a = p[i] /\ b = scores[i] /\ c = (scores[i] = 1)
    OBVIOUS
  <2>2. s[i] = Row(a, "scored", b, c)
    BY <1>4, <2>1, Zenon
  <2>3. b = 1 => c
    BY <2>1
  <2>4. IsRow(sc, Row(a, "scored", b, c)) /\ Row(a, "scored", b, c).probe = a
    BY <1>1, <2>3, RowIsRow
  <2> QED BY <2>1, <2>2, <2>4
<1>6. s \in [1..n -> {s[i] : i \in 1..n}]
  BY <1>4
<1>7. s \in Seq({s[i] : i \in 1..n}) /\ Len(s) = n
  BY <1>3, <1>6, FunctionIsSeq
<1>8. s \in Seq(Range(s))
  BY <1>7, SeqOfRange
<1>9. \A i, j \in 1..n : s[i].probe = s[j].probe => i = j
  BY <1>2, <1>5
<1>10. Rows(sc, s)
  BY <1>5, <1>7, <1>8, <1>9, Zenon DEF Rows
<1>11. RowIds(s) = WaitIds(p)
  <2>1. \A i \in 1..n : s[i].probe = p[i]
    BY <1>5
  <2> QED BY <1>1, <1>7, <2>1 DEF RowIds, WaitIds
<1> QED BY <1>1, <1>10, <1>11

\* At the end of the timeline, every planned probe is due.
LEMMA AllDue ==
    ASSUME cell \in Conditions, pos = Len(MergedTimeline)
    PROVE  DueNow = PlannedIds
<1> PICK merged, inj : merged = MergedTimeline /\ inj = cell.injections
  OBVIOUS
<1>1. PICK m : Places(Timeline, merged, Range(inj), m)
  BY MergedPlaces
<1>2. ASSUME NEW p \in Range(Planned) PROVE \E k \in 1..pos : merged[k].id = p.after
  <2>1. PICK j \in DOMAIN Timeline : Timeline[j].id = p.after
    BY PlannedProbes, ProbeById
  <2>2. j \in 1..Len(Timeline)
    BY EventFacts
  <2>3. m[j] \in 1..Len(merged) /\ merged[m[j]] = Timeline[j]
    BY <1>1, <2>2 DEF Places
  <2> QED BY <2>1, <2>3
<1> QED BY <1>2 DEF DueNow, PlannedIds

\* Scoring the pending probes leaves one row for every planned probe.
LEMMA ScoringCompletes ==
    ASSUME Account, cell \in Conditions, ScorePending
    PROVE  Complete'
<1>1. /\ todo = <<>> /\ pos = Len(MergedTimeline) /\ cell' = cell
      /\ \E scores : rows' = ScoreAll(scores)
  BY DEF ScorePending, AtEnd
<1>2. PICK scores : rows' = ScoreAll(scores)
  BY <1>1
<1>3. /\ Rows(cell.scored, rows) /\ Waiting(pending)
      /\ RowIds(rows) \cap WaitIds(pending) = {}
      /\ RowIds(rows) \cup WaitIds(pending) \cup Asks(todo) = PlannedIds
  BY <1>1, AllDue DEF Account, Accounts
<1>4. Asks(todo) = {}
  <2>1. Len(<<>>) = 0
    OBVIOUS
  <2> QED BY <1>1, <2>1 DEF Asks, AskAt
<1>5. PICK base, sc, new : base = rows \o ScoredPending(scores) /\ sc = cell.scored /\ new = rows'
  OBVIOUS
<1>6. Rows(sc, base) /\ RowIds(base) = PlannedIds
  <2>1. PICK r, s : r = rows /\ s = ScoredPending(scores)
    OBVIOUS
  <2>2. Rows(sc, s) /\ RowIds(s) = WaitIds(pending)
    BY <1>3, <1>5, <2>1, WaitingRows
  <2>3. Rows(sc, r) /\ RowIds(r) \cap RowIds(s) = {}
    BY <1>3, <1>5, <2>1, <2>2
  <2>4. Rows(sc, r \o s) /\ RowIds(r \o s) = RowIds(r) \cup RowIds(s)
    BY <2>2, <2>3, JoinRows
  <2> QED BY <1>3, <1>4, <1>5, <2>1, <2>2, <2>4
<1>7. new = ApplyConditional(base)
  BY <1>2, <1>5 DEF ScoreAll
<1>8. Rows(sc, new) /\ RowIds(new) = RowIds(base) /\ Credit(new)
  BY <1>6, <1>7, ConditionalIs
<1> QED BY <1>1, <1>5, <1>6, <1>8, SamePlan DEF Complete

\* What a step does to the stage, and to the rows at the end.
LEMMA PlanFrame ==
    ASSUME [Next]_vars
    PROVE  /\ stage' = "describing" => stage = "describing" /\ UNCHANGED <<todo, pos, rows, pending>>
           /\ stage' = "running" =>
                 \/ stage = "running"
                 \/ stage = "describing" /\ todo' = <<Step("reset", "run", "reset")>>
                    /\ UNCHANGED <<pos, rows, pending>>
           /\ valid' /\ stage' \in Ends => \/ ScorePending
                                           \/ valid /\ stage \in Ends /\ rows' = rows
<1> USE DEF Record, GiveUp, Invoking, Done, Unchanged, EndActLoop, Raise, Replacing, AtEnd, Ends
<1>1. CASE Lifecycle
  <2>1. CASE ResetAgent
    BY <2>1 DEF ResetAgent
  <2>2. CASE ObserveEvent
    BY <2>2 DEF ObserveEvent
  <2>3. CASE MaintainAgent \/ MaintainWithoutCall
    BY <2>3 DEF MaintainAgent, MaintainWithoutCall
  <2>4. CASE \E state \in {Nothing, Current} : EndSession(state)
    BY <2>4 DEF EndSession
  <2>5. CASE ReplaceAgent \/ ReplaceFails
    BY <2>5 DEF ReplaceAgent, ReplaceFails
  <2>6. CASE RestoreAgent
    BY <2>6 DEF RestoreAgent
  <2> QED BY <1>1, <2>1, <2>2, <2>3, <2>4, <2>5, <2>6 DEF Lifecycle
<1>2. CASE Probe
  <2>1. CASE \E score \in {0, 1}, recalled \in BOOLEAN : RespondToProbe(score, recalled)
    BY <2>1 DEF RespondToProbe
  <2>2. CASE \E score \in {0, 1} : FinishAct(score)
    BY <2>2 DEF FinishAct
  <2>3. CASE \E id \in ToolCallIds : CallTool(id)
    BY <2>3 DEF CallTool
  <2>4. CASE Misbehave
    BY <2>4 DEF Misbehave
  <2> QED BY <1>2, <2>1, <2>2, <2>3, <2>4 DEF Probe
<1>3. ASSUME NEW fault \in Fault, Retry(fault) \/ ProbeFailure(fault) \/ TaskFailure(fault)
      PROVE  stage = "running" /\ stage' \in {"running", "raised"} /\ valid' = valid
  BY <1>3 DEF Retry, ProbeFailure, TaskFailure
<1>4. ASSUME NEW fault \in Fault, LifecycleFailure(fault)
      PROVE  stage = "running" /\ stage' = "closing" /\ ~valid'
  BY <1>4 DEF LifecycleFailure
<1>5. CASE \E d \in Descriptors \cup {NoDescriptor} : Describe(d)
  BY <1>5 DEF Describe
<1>6. CASE NextEvent
  BY <1>6 DEF NextEvent
<1>7. CASE Resend \/ UNCHANGED vars
  BY <1>7 DEF Resend, vars
<1>8. CASE ScorePending \/ ScoringFails
  BY <1>8 DEF ScorePending, ScoringFails
<1>9. CASE Return
  BY <1>9 DEF Return
<1>10. CASE \E outcome \in {"success", "failure"} : Close(outcome)
  BY <1>10 DEF Close
<1> QED BY <1>1, <1>2, <1>3, <1>4, <1>5, <1>6, <1>7, <1>8, <1>9, <1>10 DEF Next

\* A run starts with nothing asked.
LEMMA InitPlan == Init => PlanInv
<1> SUFFICES ASSUME Init PROVE PlanInv
  OBVIOUS
<1>1. WorldInv
  BY InitWorld
<1>2. stage = "describing" /\ todo = <<>> /\ pos = 0 /\ rows = <<>> /\ pending = <<>>
  BY DEF Init
<1> QED BY <1>1, <1>2 DEF PlanInv

\* The first step to be done asks nothing, and nothing is due.
LEMMA FirstAccount ==
    ASSUME NEW sc
    PROVE  Accounts(sc, <<Step("reset", "run", "reset")>>, <<>>, <<>>, {})
<1>1. PICK s, t : s = Step("reset", "run", "reset") /\ t = <<s>>
  OBVIOUS
<1>2. WellAsked(s) /\ s.for # "probe"
  BY <1>1 DEF Step, WellAsked
<1>3. NoAsks(t)
  BY <1>1, <1>2, SingleAsks
<1>4. AsksOnce(t) /\ Asks(t) = {}
  <2>1. AskAt(t) = {}
    BY <1>3 DEF AskAt, NoAsks
  <2> QED BY <2>1 DEF AsksOnce, Asks
<1>5. Rows(sc, <<>>) /\ RowIds(<<>>) = {} /\ Waiting(<<>>) /\ WaitIds(<<>>) = {}
  <2>1. Len(<<>>) = 0 /\ 1..0 = {}
    OBVIOUS
  <2>2. <<>> \in Seq(Range(<<>>))
    BY NoTodo
  <2> QED BY <2>1, <2>2 DEF Rows, RowIds, Waiting, WaitIds
<1>6. Accounts(sc, t, <<>>, <<>>, {})
  BY <1>3, <1>4, <1>5 DEF Accounts, NoAsks
<1> QED BY <1>1, <1>6

\* Every step keeps the plan.
LEMMA StepPlan == PlanInv /\ [Next]_vars => PlanInv'
<1> SUFFICES ASSUME PlanInv, [Next]_vars PROVE PlanInv'
  OBVIOUS
<1>1. WorldInv /\ WorldInv' /\ cell' = cell /\ cell \in Conditions
  BY StepWorld, StepFrame DEF PlanInv, WorldInv
<1>2. stage' = "describing" => todo' = <<>> /\ pos' = 0 /\ rows' = <<>> /\ pending' = <<>>
  BY PlanFrame DEF PlanInv
<1>3. ASSUME stage' = "running" PROVE Account'
  <2>1. CASE stage = "describing"
    <3>1. pos' = 0 /\ rows' = <<>> /\ pending' = <<>> /\ todo' = <<Step("reset", "run", "reset")>>
      BY <1>3, <2>1, PlanFrame DEF PlanInv
    <3>2. DueNow' = {}
      <4>1. 1..pos' = {}
        BY <3>1
      <4> QED BY <4>1 DEF DueNow
    <3>3. PICK sc : sc = cell'.scored
      OBVIOUS
    <3>4. Accounts(sc, <<Step("reset", "run", "reset")>>, <<>>, <<>>, {})
      BY FirstAccount
    <3> QED BY <3>1, <3>2, <3>3, <3>4 DEF Account
  <2>2. CASE stage = "running" /\ NextEvent
    <3>1. pos \in Nat
      BY <1>1, EventFacts DEF WorldInv
    <3> QED BY <1>1, <2>2, <3>1, EventAccount DEF PlanInv
  <2>3. CASE stage = "running" /\ ~NextEvent /\ Next
    <3>1. AskStep
      BY <1>3, <2>3, StepAsks DEF PlanInv
    <3>2. pos' = pos
      BY <2>3, StepFrame
    <3> QED BY <1>1, <2>3, <3>1, <3>2, AccountKept DEF PlanInv
  <2>4. CASE stage = "running" /\ UNCHANGED vars
    <3>1. UNCHANGED <<todo, rows, pending, pos>>
      BY <2>4 DEF vars
    <3>2. AskStep
      BY <3>1 DEF AskStep
    <3> QED BY <1>1, <2>4, <3>1, <3>2, AccountKept DEF PlanInv
  <2> QED BY <1>3, <2>1, <2>2, <2>3, <2>4, PlanFrame
<1>4. ASSUME valid', stage' \in Ends PROVE Complete'
  <2>1. CASE ScorePending
    <3>1. Account
      BY <2>1 DEF ScorePending, AtEnd, PlanInv
    <3> QED BY <1>1, <2>1, <3>1, ScoringCompletes
  <2>2. CASE valid /\ stage \in Ends /\ rows' = rows
    <3>1. Complete
      BY <2>2 DEF PlanInv, Ends
    <3> QED BY <1>1, <2>2, <3>1, SamePlan DEF Complete
  <2> QED BY <1>4, <2>1, <2>2, PlanFrame
<1> QED BY <1>1, <1>2, <1>3, <1>4 DEF PlanInv, Ends

----------------------------------------------------------------------------
(* The denominator *)

\* Rows with one and the same set of probes, each once and with its weight, are one
\* denominator.
LEMMA SameRows ==
    ASSUME NEW sc, NEW a, Rows(sc, a), NEW b, NEW n \in Nat, DOMAIN b = 1..n, Len(b) = n,
           \A i \in 1..n : b[i].weight = IF b[i].probe \in sc THEN 1 ELSE 0,
           \A i, j \in 1..n : b[i].probe = b[j].probe => i = j,
           RowIds(a) = {b[i].probe : i \in 1..n}
    PROVE  SameDenominator(a, b)
<1>1. PICK m : m = Len(a)
  OBVIOUS
<1>2. a \in Seq(Range(a))
  BY DEF Rows
<1>3. m \in Nat /\ DOMAIN a = 1..m
  BY <1>1, <1>2
<1>4. /\ \A i \in 1..m : a[i].weight = IF a[i].probe \in sc THEN 1 ELSE 0
      /\ \A i, j \in 1..m : a[i].probe = a[j].probe => i = j
  BY <1>1 DEF Rows, IsRow
<1>5. /\ \A i \in 1..m : \E j \in 1..n : a[i].probe = b[j].probe
      /\ \A j \in 1..n : \E i \in 1..m : a[i].probe = b[j].probe
  <2>1. PICK A, B : A = {a[i].probe : i \in 1..m} /\ B = {b[i].probe : i \in 1..n}
    OBVIOUS
  <2>2. A = B
    BY <1>1, <2>1 DEF RowIds
  <2>3. ASSUME NEW i \in 1..m PROVE \E j \in 1..n : a[i].probe = b[j].probe
    <3>1. a[i].probe \in B
      BY <2>1, <2>2, ZenonT(60)
    <3> QED BY <2>1, <3>1
  <2>4. ASSUME NEW j \in 1..n PROVE \E i \in 1..m : a[i].probe = b[j].probe
    <3>1. b[j].probe \in A
      BY <2>1, <2>2, ZenonT(60)
    <3> QED BY <2>1, <3>1
  <2> QED BY <2>3, <2>4
<1>6. m = n
  <2> DEFINE f == [i \in 1..m |-> CHOOSE j \in 1..n : a[i].probe = b[j].probe]
  <2>1. \A i \in 1..m : f[i] \in 1..n /\ a[i].probe = b[f[i]].probe
    BY <1>5
  <2>2. f \in [1..m -> 1..n]
    BY <2>1
  <2> HIDE DEF f
  <2>3. f \in Injection(1..m, 1..n)
    <3>1. \A i, j \in 1..m : f[i] = f[j] => i = j
      BY <1>4, <2>1
    <3> QED BY <2>2, <3>1 DEF Injection, IsInjective
  <2>4. f \in Surjection(1..m, 1..n)
    <3>1. ASSUME NEW j \in 1..n PROVE \E i \in 1..m : f[i] = j
      <4>1. PICK i \in 1..m : a[i].probe = b[j].probe
        BY <1>5
      <4>2. f[i] = j
        BY <2>1, <4>1
      <4> QED BY <4>2
    <3> QED BY <2>2, <3>1 DEF Surjection
  <2>5. f \in Bijection(1..m, 1..n)
    BY <2>3, <2>4 DEF Bijection
  <2>6. IsFiniteSet(1..m) /\ Cardinality(1..m) = m /\ IsFiniteSet(1..n) /\ Cardinality(1..n) = n
    <3>1. 1 \in Int /\ m \in Int /\ n \in Int
      BY <1>3
    <3>2. /\ IsFiniteSet(1..m) /\ Cardinality(1..m) = IF 1 > m THEN 0 ELSE m - 1 + 1
          /\ IsFiniteSet(1..n) /\ Cardinality(1..n) = IF 1 > n THEN 0 ELSE n - 1 + 1
      BY <3>1, FS_Interval
    <3> QED BY <1>3, <3>2
  <2>7. Cardinality(1..m) = Cardinality(1..n)
    BY <2>5, <2>6, FS_Bijection DEF ExistsBijection
  <2> QED BY <2>6, <2>7
<1> DEFINE Times(row, rs) == Cardinality({i \in DOMAIN rs : /\ rs[i].probe = row.probe
                                                            /\ rs[i].weight = row.weight})
<1>7. ASSUME NEW k \in 1..n PROVE Times(b[k], a) = Times(b[k], b)
  <2>1. PICK i \in 1..m : a[i].probe = b[k].probe
    BY <1>5
  <2>2. {j \in DOMAIN a : a[j].probe = b[k].probe /\ a[j].weight = b[k].weight} = {i}
    BY <1>3, <1>4, <2>1
  <2>3. {j \in DOMAIN b : b[j].probe = b[k].probe /\ b[j].weight = b[k].weight} = {k}
    OBVIOUS
  <2>4. Cardinality({i}) = 1 /\ Cardinality({k}) = 1
    BY FS_Singleton
  <2> QED BY <2>2, <2>3, <2>4
<1> QED BY <1>1, <1>6, <1>7, ZenonT(60) DEF SameDenominator

\* The row of a probe of a failed run.
LEMMA FailedRow ==
    \A id : /\ IsRow(cell.scored, Row(id, "execution_failure", 0, FALSE))
            /\ Row(id, "execution_failure", 0, FALSE).probe = id
  BY DEF IsRow, Row, Weight

\* What a run reports has the denominator that was planned.
LEMMA ReportedDenominator ==
    ASSUME cell \in Conditions, valid => Complete
    PROVE  SameDenominator(ReportedRows, Scheduled)
<1>1. PICK sc, pl, n, rep, sch : /\ sc = cell.scored /\ pl = Planned /\ n = Len(pl)
                                 /\ rep = ReportedRows /\ sch = Scheduled
  OBVIOUS
<1>2. /\ pl \in Seq(Range(Probes)) /\ \A i, j \in 1..n : pl[i].id = pl[j].id => i = j
  BY <1>1, PlannedOnce
<1>3. n \in Nat /\ DOMAIN pl = 1..n
  BY <1>1, <1>2
<1>4. sch = [i \in 1..n |-> [probe |-> pl[i].id, weight |-> Weight(pl[i].id)]]
  BY <1>1, <1>3 DEF Scheduled
<1>5. \A i \in 1..n : sch[i].probe = pl[i].id /\ sch[i].weight = IF sch[i].probe \in sc THEN 1 ELSE 0
  BY <1>1, <1>4 DEF Weight
<1>6. PICK W : sch \in [1..n -> W]
  <2>1. sch \in [1..n -> {sch[i] : i \in 1..n}]
    BY <1>4
  <2> QED BY <2>1
<1>7. Len(sch) = n /\ DOMAIN sch = 1..n
  BY <1>3, <1>6, FunctionIsSeq
<1>8. {sch[i].probe : i \in 1..n} = PlannedIds
  BY <1>1, <1>3, <1>5 DEF PlannedIds, Range
<1>9. Rows(sc, rep) /\ RowIds(rep) = PlannedIds
  <2>1. CASE valid
    <3>1. rep = rows
      BY <1>1, <2>1 DEF ReportedRows
    <3> QED BY <1>1, <2>1, <3>1 DEF Complete
  <2>2. CASE ~valid
    <3>1. rep = [i \in 1..n |-> Row(pl[i].id, "execution_failure", 0, FALSE)]
      BY <1>1, <1>3, <2>2 DEF ReportedRows
    <3>2. ASSUME NEW i \in 1..n PROVE IsRow(sc, rep[i]) /\ rep[i].probe = pl[i].id
      <4>1. rep[i] = Row(pl[i].id, "execution_failure", 0, FALSE)
        BY <3>1, Zenon
      <4>2. IsRow(sc, Row(pl[i].id, "execution_failure", 0, FALSE))
            /\ Row(pl[i].id, "execution_failure", 0, FALSE).probe = pl[i].id
        BY <1>1, FailedRow, Zenon
      <4> QED BY <4>1, <4>2, Zenon
    <3>3. PICK V : rep \in [1..n -> V]
      <4>1. rep \in [1..n -> {rep[i] : i \in 1..n}]
        BY <3>1
      <4> QED BY <4>1
    <3>4. rep \in Seq(V) /\ Len(rep) = n
      BY <1>3, <3>3, FunctionIsSeq
    <3>5. rep \in Seq(Range(rep))
      BY <3>4, SeqOfRange
    <3>6. \A i, j \in 1..n : rep[i].probe = rep[j].probe => i = j
      BY <1>2, <3>2
    <3>7. Rows(sc, rep)
      BY <3>2, <3>4, <3>5, <3>6, Zenon DEF Rows
    <3>8. RowIds(rep) = {sch[i].probe : i \in 1..n}
      BY <1>5, <3>2, <3>4 DEF RowIds
    <3> QED BY <1>8, <3>7, <3>8
  <2> QED BY <2>1, <2>2
<1>10. \A i, j \in 1..n : sch[i].probe = sch[j].probe => i = j
  BY <1>2, <1>5
<1>11. SameDenominator(rep, sch)
  BY <1>3, <1>5, <1>7, <1>8, <1>9, <1>10, SameRows
<1> QED BY <1>1, <1>11

----------------------------------------------------------------------------
(* The receipts *)

IsReceipt(d, r) ==
    /\ r = [operation |-> r.operation, outcome |-> r.outcome,
            accepted |-> r.outcome = "success" /\ r.operation \in Acknowledged]
    /\ r.outcome \in {"success", "failure", "skipped"}
    /\ r.outcome = "skipped" => r.operation = "maintain" /\ Declares(d, "maintenance", FALSE)

Receipts(d, rs) == rs \in Seq(Range(rs)) /\ \A i \in 1..Len(rs) : IsReceipt(d, rs[i])

ReceiptsInv ==
    /\ PlanInv
    /\ Receipts(descriptor, receipts)
    /\ valid = ~Failed(receipts)
    /\ stage = "describing" => receipts = <<>>
    /\ stage # "describing" => Len(receipts) >= 1 /\ receipts[1].operation = "describe"
    /\ valid /\ stage # "describing" => DescriptorAccepted(descriptor, Required)
    /\ stage = "running" /\ Len(receipts) < 2 => todo # <<>> /\ Head(todo).op = "reset"
    /\ valid /\ Len(receipts) >= 2 => receipts[2].operation = "reset"
    /\ valid /\ stage \in Ends => Len(receipts) >= 2
    /\ stage = "closed" => receipts[Len(receipts)].operation = "close"

\* What an operation may come to.
MayEnd(d, op, outcome) ==
    \/ outcome \in {"success", "failure"}
    \/ outcome = "skipped" /\ op = "maintain" /\ Declares(d, "maintenance", FALSE)

\* The receipts once that is on record.
Recorded(op, outcome) ==
    /\ Receipts(descriptor, receipts)' /\ valid' = ~Failed(receipts')
    /\ Len(receipts') = Len(receipts) + 1
    /\ \A i \in 1..Len(receipts) : receipts'[i] = receipts[i]
    /\ receipts'[Len(receipts) + 1].operation = op
    /\ valid' => outcome # "failure"

Longer(d, rs, op, outcome, new) ==
    /\ Receipts(d, new) /\ Failed(new) = (Failed(rs) \/ outcome = "failure")
    /\ Len(rs) \in Nat /\ Len(new) = Len(rs) + 1
    /\ \A i \in 1..Len(rs) : new[i] = rs[i]
    /\ new[Len(rs) + 1].operation = op

\* One more receipt.
LEMMA MoreReceipts ==
    ASSUME NEW d, NEW rs, Receipts(d, rs), NEW op, NEW outcome, MayEnd(d, op, outcome),
           NEW new, new = Append(rs, Receipt(op, outcome))
    PROVE  Longer(d, rs, op, outcome, new)
<1>1. PICK r, S, n : r = Receipt(op, outcome) /\ S = Range(rs) \cup {r} /\ n = Len(rs)
  OBVIOUS
<1>2. rs \in Seq(S) /\ r \in S
  BY <1>1, SeqMonotonic DEF Receipts
<1>3. /\ new \in Seq(S) /\ Len(new) = n + 1 /\ n \in Nat /\ new[n + 1] = r
      /\ \A i \in 1..n : new[i] = rs[i]
  BY <1>1, <1>2, AppendProperties
<1>4. IsReceipt(d, r) /\ r.operation = op /\ r.outcome = outcome
  BY <1>1 DEF Receipt, IsReceipt, MayEnd
<1>5. new \in Seq(Range(new))
  BY <1>3, SeqOfRange
<1>6. \A i \in 1..(n + 1) : i \in 1..n \/ i = n + 1
  BY <1>3
<1>7. Receipts(d, new)
  BY <1>1, <1>3, <1>4, <1>5, <1>6 DEF Receipts
<1>8. DOMAIN rs = 1..n /\ DOMAIN new = 1..(n + 1)
  BY <1>1, <1>2, <1>3
<1>9. Failed(new) <=> Failed(rs) \/ outcome = "failure"
  <2>1. \A i \in 1..n : i \in 1..(n + 1)
    BY <1>3
  <2>2. n + 1 \in 1..(n + 1)
    BY <1>3
  <2> QED BY <1>3, <1>4, <1>6, <1>8, <2>1, <2>2 DEF Failed
<1>10. Failed(new) \in BOOLEAN /\ Failed(rs) \in BOOLEAN
  BY DEF Failed
<1> QED BY <1>1, <1>3, <1>4, <1>7, <1>9, <1>10 DEF Longer

\* Recording a receipt.
LEMMA RecordAdds ==
    \A op, outcome : /\ Record(op, outcome) /\ MayEnd(descriptor', op, outcome)
                    /\ Receipts(descriptor', receipts) /\ valid = ~Failed(receipts)
                    => Recorded(op, outcome)
<1> SUFFICES ASSUME NEW op, NEW outcome, Record(op, outcome), MayEnd(descriptor', op, outcome),
                    Receipts(descriptor', receipts), valid = ~Failed(receipts)
             PROVE  Recorded(op, outcome)
  OBVIOUS
<1>1. PICK d, rs, new : d = descriptor' /\ rs = receipts /\ new = receipts'
  OBVIOUS
<1>2. new = Append(rs, Receipt(op, outcome)) /\ valid' = (valid /\ outcome # "failure")
  BY <1>1 DEF Record
<1>3. Receipts(d, rs) /\ MayEnd(d, op, outcome)
  BY <1>1
<1>4. Longer(d, rs, op, outcome, new)
  BY <1>2, <1>3, MoreReceipts
<1>5. /\ Receipts(d, new) /\ Failed(new) = (Failed(rs) \/ outcome = "failure")
      /\ Len(rs) \in Nat /\ Len(new) = Len(rs) + 1
      /\ \A i \in 1..Len(rs) : new[i] = rs[i]
      /\ new[Len(rs) + 1].operation = op
  BY <1>4 DEF Longer
<1>6. valid' = ~Failed(new) /\ (valid' => outcome # "failure")
  BY <1>1, <1>2, <1>5
<1> QED BY <1>1, <1>5, <1>6 DEF Recorded

\* The operation at hand gets its receipt.
RecordStep(outcome) ==
    /\ stage = "running" /\ todo # <<>> /\ descriptor' = descriptor
    /\ Record(Head(todo).op, outcome)
    /\ outcome = "skipped" => /\ Head(todo).op = "maintain"
                              /\ Declares(descriptor, "maintenance", FALSE)
    /\ stage' = "running" \/ (stage' = "closing" /\ outcome = "failure")

\* How a step adds to the receipts.
ReceiptStep ==
    \/ \E d \in Descriptors \cup {NoDescriptor} : Describe(d)
    \/ /\ UNCHANGED <<receipts, valid, descriptor>>
       /\ \/ stage' = stage /\ (todo' = todo \/ todo = <<>> \/ Head(todo).op # "reset")
          \/ stage = "running" /\ stage' = "raised"
          \/ AtEnd /\ stage' = "closing"
          \/ Return
    \/ \E outcome \in {"success", "failure", "skipped"} : RecordStep(outcome)
    \/ \E outcome \in {"success", "failure"} : Close(outcome)

\* Every step adds to the receipts in one of these ways.
LEMMA ReceiptFrame == [Next]_vars => ReceiptStep
<1> SUFFICES ASSUME [Next]_vars PROVE ReceiptStep
  OBVIOUS
<1> USE DEF Invoking, Done, Unchanged, Replacing
<1>1. ASSUME stage = "running", todo # <<>>, descriptor' = descriptor, stage' = "running",
             Record(Head(todo).op, "success")
      PROVE  ReceiptStep
  <2>1. RecordStep("success")
    BY <1>1 DEF RecordStep
  <2> QED BY <2>1 DEF ReceiptStep
<1>2. CASE Lifecycle
  <2>1. CASE ResetAgent \/ ObserveEvent \/ MaintainAgent \/ RestoreAgent
    BY <1>1, <2>1 DEF ResetAgent, ObserveEvent, MaintainAgent, RestoreAgent
  <2>2. CASE \E state \in {Nothing, Current} : EndSession(state)
    BY <1>1, <2>2 DEF EndSession
  <2>3. CASE MaintainWithoutCall
    <3>1. /\ stage = "running" /\ todo # <<>> /\ descriptor' = descriptor
          /\ Head(todo).op = "maintain"
          /\ \/ /\ Record(Head(todo).op, "skipped") /\ stage' = "running"
                /\ Declares(descriptor, "maintenance", FALSE)
             \/ Record(Head(todo).op, "failure") /\ stage' = "closing"
      BY <2>3 DEF MaintainWithoutCall, GiveUp
    <3>2. RecordStep("skipped") \/ RecordStep("failure")
      BY <3>1 DEF RecordStep
    <3> QED BY <3>2 DEF ReceiptStep
  <2>4. CASE ReplaceAgent
    BY <2>4 DEF ReplaceAgent, ReceiptStep
  <2>5. CASE ReplaceFails
    BY <2>5 DEF ReplaceFails, Raise, ReceiptStep
  <2> QED BY <1>2, <2>1, <2>2, <2>3, <2>4, <2>5 DEF Lifecycle
<1>3. CASE Probe
  <2>1. CASE \E score \in {0, 1}, recalled \in BOOLEAN : RespondToProbe(score, recalled)
    BY <2>1 DEF RespondToProbe, ReceiptStep
  <2>2. CASE \E score \in {0, 1} : FinishAct(score)
    BY <2>2 DEF FinishAct, EndActLoop, ReceiptStep
  <2>3. CASE \E id \in ToolCallIds : CallTool(id)
    BY <2>3 DEF CallTool, ReceiptStep
  <2>4. CASE Misbehave
    BY <2>4 DEF Misbehave, EndActLoop, ReceiptStep
  <2> QED BY <1>3, <2>1, <2>2, <2>3, <2>4 DEF Probe
<1>4. ASSUME NEW fault \in Fault, Retry(fault) \/ ProbeFailure(fault) \/ TaskFailure(fault)
      PROVE  ReceiptStep
  BY <1>4 DEF Retry, ProbeFailure, TaskFailure, Raise, ReceiptStep
<1>5. ASSUME NEW fault \in Fault, LifecycleFailure(fault)
      PROVE  ReceiptStep
  <2>1. /\ stage = "running" /\ todo # <<>> /\ descriptor' = descriptor
        /\ Record(Head(todo).op, "failure") /\ stage' = "closing"
    BY <1>5 DEF LifecycleFailure, GiveUp
  <2>2. RecordStep("failure")
    BY <2>1 DEF RecordStep
  <2> QED BY <2>2 DEF ReceiptStep
<1>6. CASE \E d \in Descriptors \cup {NoDescriptor} : Describe(d)
  BY <1>6, Zenon DEF ReceiptStep
<1>7. CASE NextEvent
  BY <1>7 DEF NextEvent, ReceiptStep
<1>8. CASE Resend \/ UNCHANGED vars
  BY <1>8 DEF Resend, vars, ReceiptStep
<1>9. CASE ScorePending \/ ScoringFails
  BY <1>9 DEF ScorePending, ScoringFails, Raise, AtEnd, ReceiptStep
<1>10. CASE Return
  <2>1. UNCHANGED <<receipts, valid, descriptor>>
    BY <1>10 DEF Return
  <2> QED BY <1>10, <2>1, Zenon DEF ReceiptStep
<1>11. CASE \E outcome \in {"success", "failure"} : Close(outcome)
  BY <1>11, Zenon DEF ReceiptStep
<1> QED BY <1>2, <1>3, <1>4, <1>5, <1>6, <1>7, <1>8, <1>9, <1>10, <1>11 DEF Next

\* A run starts without receipts.
LEMMA InitReceipts == Init => ReceiptsInv
<1> SUFFICES ASSUME Init PROVE ReceiptsInv
  OBVIOUS
<1>1. PlanInv
  BY InitPlan
<1>2. receipts = <<>> /\ stage = "describing" /\ valid = TRUE
  BY DEF Init
<1>3. Receipts(descriptor, <<>>) /\ ~Failed(<<>>) /\ Len(<<>>) = 0
  <2>1. Len(<<>>) = 0 /\ 1..0 = {} /\ DOMAIN <<>> = {}
    OBVIOUS
  <2> QED BY <2>1, NoTodo DEF Receipts, Failed
<1>4. Receipts(descriptor, receipts) /\ Len(receipts) = 0
  BY <1>2, <1>3
<1>5. valid = ~Failed(receipts)
  <2>1. ~Failed(receipts)
    BY <1>2, <1>3
  <2> QED BY <1>2, <2>1
<1> QED BY <1>1, <1>2, <1>4, <1>5 DEF ReceiptsInv, Ends

\* Every step keeps the receipts in order.
LEMMA StepReceipts == ReceiptsInv /\ [Next]_vars => ReceiptsInv'
<1> SUFFICES ASSUME ReceiptsInv, [Next]_vars PROVE ReceiptsInv'
  OBVIOUS
<1>1. PlanInv' /\ ReceiptStep
  BY StepPlan, ReceiptFrame DEF ReceiptsInv
<1>2. Required' = Required
  BY DEF Required
<1>3. Len(receipts) \in Nat
  BY DEF ReceiptsInv, Receipts
<1>4. CASE UNCHANGED <<receipts, valid, descriptor>>
           /\ stage' = stage /\ (todo' = todo \/ todo = <<>> \/ Head(todo).op # "reset")
  BY <1>1, <1>2, <1>4 DEF ReceiptsInv
<1>5. CASE UNCHANGED <<receipts, valid, descriptor>> /\ stage = "running" /\ stage' = "raised"
  BY <1>1, <1>2, <1>5 DEF ReceiptsInv, Ends
<1>6. CASE UNCHANGED <<receipts, valid, descriptor>> /\ AtEnd /\ stage' = "closing"
  BY <1>1, <1>2, <1>3, <1>6 DEF ReceiptsInv, AtEnd, Ends
<1>7. CASE UNCHANGED <<receipts, valid, descriptor>> /\ Return
  <2>1. stage \in Ends /\ stage # "describing" /\ stage' = "returned"
    BY <1>7 DEF Return, Ends
  <2> QED BY <1>1, <1>2, <1>7, <2>1 DEF ReceiptsInv, Ends
<1>9. CASE \E outcome \in {"success", "failure", "skipped"} : RecordStep(outcome)
  <2>1. PICK outcome \in {"success", "failure", "skipped"} : RecordStep(outcome)
    BY <1>9
  <2>2. /\ stage = "running" /\ todo # <<>> /\ descriptor' = descriptor
        /\ stage' = "running" \/ (stage' = "closing" /\ outcome = "failure")
        /\ outcome = "skipped" => /\ Head(todo).op = "maintain"
                                  /\ Declares(descriptor, "maintenance", FALSE)
        /\ Record(Head(todo).op, outcome)
    BY <2>1 DEF RecordStep
  <2>3. PICK op : op = Head(todo).op
    OBVIOUS
  <2>4. /\ Receipts(descriptor, receipts)' /\ valid' = ~Failed(receipts')
        /\ Len(receipts') = Len(receipts) + 1
        /\ \A i \in 1..Len(receipts) : receipts'[i] = receipts[i]
        /\ receipts'[Len(receipts) + 1].operation = op
        /\ valid' => outcome # "failure"
    <3>1. Receipts(descriptor', receipts) /\ valid = ~Failed(receipts)
      BY <2>2 DEF ReceiptsInv
    <3>2. MayEnd(descriptor', op, outcome)
      BY <2>1, <2>2, <2>3 DEF MayEnd
    <3>3. Record(op, outcome)
      BY <2>2, <2>3
    <3>4. Recorded(op, outcome)
      BY <3>1, <3>2, <3>3, RecordAdds, Zenon
    <3> QED BY <3>4, Zenon DEF Recorded
  <2>5. Len(receipts) >= 1 /\ receipts[1].operation = "describe"
        /\ (Len(receipts) < 2 => op = "reset")
        /\ (valid /\ Len(receipts) >= 2 => receipts[2].operation = "reset")
    BY <2>2, <2>3 DEF ReceiptsInv
  <2>6. valid' => valid
    BY StepEnds, Zenon
  <2>7. Len(receipts') >= 2 /\ receipts'[1].operation = "describe"
    BY <1>3, <2>4, <2>5
  <2>8. valid' => receipts'[2].operation = "reset"
    <3>1. CASE Len(receipts) < 2
      <4>1. Len(receipts) + 1 = 2
        BY <1>3, <2>5, <3>1
      <4> QED BY <2>4, <2>5, <3>1, <4>1
    <3>2. CASE Len(receipts) >= 2
      <4>1. 2 \in 1..Len(receipts)
        BY <1>3, <3>2
      <4> QED BY <2>4, <2>5, <2>6, <3>2, <4>1
    <3> QED BY <1>3, <3>1, <3>2
  <2>9. valid' => DescriptorAccepted(descriptor, Required)'
    BY <1>2, <2>2, <2>6 DEF ReceiptsInv
  <2>10. Len(receipts') \in Nat
    BY <1>3, <2>4
  <2> QED BY <1>1, <2>2, <2>4, <2>7, <2>8, <2>9, <2>10 DEF ReceiptsInv
<1>10. CASE \E d \in Descriptors \cup {NoDescriptor} : Describe(d)
  <2>1. PICK d : Describe(d)
    BY <1>10
  <2>2. /\ stage = "describing" /\ receipts = <<>> /\ descriptor' = d
        /\ \/ /\ DescriptorAccepted(d, Required) /\ Record("describe", "success")
              /\ stage' = "running" /\ todo' = <<Step("reset", "run", "reset")>>
           \/ Record("describe", "failure") /\ stage' = "closing"
    BY <2>1 DEF Describe, GiveUp, ReceiptsInv
  <2>3. PICK outcome \in {"success", "failure"} :
          /\ Record("describe", outcome)
          /\ \/ /\ outcome = "success" /\ DescriptorAccepted(d, Required)
                /\ stage' = "running" /\ todo' = <<Step("reset", "run", "reset")>>
             \/ outcome = "failure" /\ stage' = "closing"
    BY <2>2
  <2>4. Receipts(descriptor', <<>>) /\ Len(<<>>) = 0
    <3>1. Len(<<>>) = 0 /\ 1..0 = {}
      OBVIOUS
    <3> QED BY <3>1, NoTodo DEF Receipts
  <2>5. /\ Receipts(descriptor, receipts)' /\ valid' = ~Failed(receipts')
        /\ Len(receipts') = 1
        /\ receipts'[1].operation = "describe"
        /\ valid' => outcome # "failure"
    <3>1. PICK op : op = "describe"
      OBVIOUS
    <3>2. /\ Record(op, outcome) /\ Receipts(descriptor', receipts)
          /\ MayEnd(descriptor', op, outcome) /\ valid = ~Failed(receipts)
      BY <2>2, <2>3, <2>4, <3>1 DEF MayEnd, ReceiptsInv
    <3>3. /\ Receipts(descriptor, receipts)' /\ valid' = ~Failed(receipts')
          /\ Len(receipts') = Len(receipts) + 1
          /\ receipts'[Len(receipts) + 1].operation = op
          /\ valid' => outcome # "failure"
      BY <3>2, RecordAdds, Zenon DEF Recorded
    <3>4. Len(receipts) + 1 = 1
      BY <2>2, <2>4
    <3> QED BY <3>1, <3>3, <3>4
  <2>6. stage' = "running" => todo' # <<>> /\ Head(todo').op = "reset"
    BY <2>3 DEF Step
  <2>7. valid' => DescriptorAccepted(descriptor, Required)' /\ stage' = "running"
    BY <1>2, <2>2, <2>3, <2>5
  <2> QED BY <1>1, <2>3, <2>5, <2>6, <2>7 DEF ReceiptsInv, Ends
<1>11. CASE \E outcome \in {"success", "failure"} : Close(outcome)
  <2>1. PICK outcome \in {"success", "failure"} : Close(outcome)
    BY <1>11
  <2>2. /\ stage = "closing" /\ stage' = "closed" /\ descriptor' = descriptor
        /\ Record("close", outcome)
    BY <2>1 DEF Close
  <2>3. PICK op : op = "close"
    OBVIOUS
  <2>4. /\ Receipts(descriptor, receipts)' /\ valid' = ~Failed(receipts')
        /\ Len(receipts') = Len(receipts) + 1
        /\ \A i \in 1..Len(receipts) : receipts'[i] = receipts[i]
        /\ receipts'[Len(receipts) + 1].operation = op
    <3>1. /\ Receipts(descriptor', receipts) /\ Record(op, outcome)
          /\ MayEnd(descriptor', op, outcome) /\ valid = ~Failed(receipts)
      BY <2>2, <2>3 DEF ReceiptsInv, MayEnd
    <3> QED BY <3>1, RecordAdds, Zenon DEF Recorded
  <2>5. /\ Len(receipts) >= 1 /\ receipts[1].operation = "describe"
        /\ valid => /\ Len(receipts) >= 2 /\ receipts[2].operation = "reset"
                    /\ DescriptorAccepted(descriptor, Required)
    BY <2>2 DEF ReceiptsInv, Ends
  <2>6. valid' => valid
    BY StepEnds, Zenon
  <2>7. Len(receipts') >= 1 /\ receipts'[1].operation = "describe"
    BY <1>3, <2>4, <2>5
  <2>8. valid' => Len(receipts') >= 2 /\ receipts'[2].operation = "reset"
    <3> SUFFICES ASSUME valid' PROVE Len(receipts') >= 2 /\ receipts'[2].operation = "reset"
      OBVIOUS
    <3>1. 2 \in 1..Len(receipts)
      BY <1>3, <2>5, <2>6
    <3> QED BY <1>3, <2>4, <2>5, <2>6, <3>1
  <2>9. valid' => DescriptorAccepted(descriptor, Required)'
    BY <1>2, <2>2, <2>5, <2>6
  <2>10. receipts'[Len(receipts')].operation = "close"
    BY <2>3, <2>4
  <2> QED BY <1>1, <2>2, <2>4, <2>7, <2>8, <2>9, <2>10 DEF ReceiptsInv
<1> QED BY <1>1, <1>4, <1>5, <1>6, <1>7, <1>9, <1>10, <1>11 DEF ReceiptStep

----------------------------------------------------------------------------
(* The run that is returned *)

Evidence(st, rr, sch, rs, v, d, q) ==
    [status |-> st, rows |-> rr, scheduled |-> sch, receipts |-> rs, valid |-> v,
     runner_valid |-> v, descriptor |-> d, required |-> q]

\* What the receipts, the validity and the rows of a run owe to one another.
Agrees(st, rr, sch, rs, v, d, q, req) ==
    /\ Receipts(d, rs) /\ Len(rs) >= 1 /\ rs[1].operation = "describe"
    /\ v = ~Failed(rs)
    /\ req => rs[Len(rs)].operation = "close"
    /\ v => DescriptorAccepted(d, q) /\ Len(rs) >= 2 /\ rs[2].operation = "reset"
    /\ SameDenominator(rr, sch)
    /\ ~v => /\ st = "invalid"
             /\ \A i \in DOMAIN rr : rr[i].outcome = "execution_failure" /\ rr[i].score = 0
    /\ v => st = StatusOf(rr)

\* The receipts of a run without a failure.
LEMMA GoodReceipts ==
    ASSUME NEW d, NEW rs, Receipts(d, rs), ~Failed(rs)
    PROVE  \A i \in 1..Len(rs) : rs[i].operation # "maintain" => rs[i].outcome = "success"
<1>1. DOMAIN rs = 1..Len(rs)
  BY DEF Receipts
<1> QED BY <1>1 DEF Receipts, IsReceipt, Failed

\* Evidence that agrees raises none of the errors of verify_run_contract.
LEMMA NoErrors ==
    ASSUME NEW st, NEW rr, NEW sch, NEW rs, NEW v, NEW d, NEW q, NEW req,
           Agrees(st, rr, sch, rs, v, d, q, req)
    PROVE  VerifyRunContract(Evidence(st, rr, sch, rs, v, d, q), req) = {}
<1>1. PICK u, n : u = Evidence(st, rr, sch, rs, v, d, q) /\ n = Len(rs)
  OBVIOUS
<1>2. /\ u.status = st /\ u.rows = rr /\ u.scheduled = sch /\ u.receipts = rs /\ u.valid = v
      /\ u.runner_valid = v /\ u.descriptor = d /\ u.required = q
  BY <1>1 DEF Evidence
<1>3. n \in Nat /\ n >= 1 /\ 1 \in 1..n /\ n \in 1..n
  BY <1>1 DEF Agrees, Receipts
<1>4. rs # <<>>
  <2>1. Len(<<>>) = 0
    OBVIOUS
  <2> QED BY <1>1, <1>3, <2>1
<1>5. \A i \in 1..n : IsReceipt(d, rs[i])
  BY <1>1 DEF Agrees, Receipts
<1>6. ~ \E i \in 1..n : rs[i].operation \in Acknowledged /\ rs[i].outcome = "success" /\ ~rs[i].accepted
  <2> SUFFICES ASSUME NEW i \in 1..n, rs[i].operation \in Acknowledged, rs[i].outcome = "success"
               PROVE  rs[i].accepted
    OBVIOUS
  <2>1. PICK op, out, acc : op = rs[i].operation /\ out = rs[i].outcome /\ acc = rs[i].accepted
    OBVIOUS
  <2>2. PICK b : b = (out = "success" /\ op \in Acknowledged)
    OBVIOUS
  <2>3. rs[i] = [operation |-> op, outcome |-> out, accepted |-> b]
    BY <1>5, <2>1, <2>2, Zenon DEF IsReceipt
  <2>4. acc = b
    BY <2>1, <2>3
  <2>5. b
    BY <2>1, <2>2
  <2> QED BY <2>1, <2>4, <2>5, Zenon
<1>7. ~ \E i \in 1..n : rs[i].outcome = "skipped"
                       /\ (rs[i].operation # "maintain" \/ ~Declares(d, "maintenance", FALSE))
  BY <1>5 DEF IsReceipt
<1>8. rs[1].operation = "describe" /\ (req => rs[n].operation = "close")
  BY <1>1 DEF Agrees
<1>9. ~(v = Failed(rs))
  BY DEF Agrees, Failed
<1>10. ~Failed(rs) => v
  BY DEF Agrees
<1>11. ~Failed(rs) => /\ DescriptorAccepted(d, q)
                     /\ n >= 2 /\ rs[2].operation = "reset"
                     /\ rs[1].outcome = "success" /\ rs[2].outcome = "success"
                     /\ (req => rs[n].outcome = "success")
  <2> SUFFICES ASSUME ~Failed(rs)
               PROVE  /\ DescriptorAccepted(d, q)
                      /\ n >= 2 /\ rs[2].operation = "reset"
                      /\ rs[1].outcome = "success" /\ rs[2].outcome = "success"
                      /\ (req => rs[n].outcome = "success")
    OBVIOUS
  <2>1. \A i \in 1..n : rs[i].operation # "maintain" => rs[i].outcome = "success"
    BY <1>1, GoodReceipts DEF Agrees
  <2>2. DescriptorAccepted(d, q) /\ n >= 2 /\ rs[2].operation = "reset"
    BY <1>1, <1>10 DEF Agrees
  <2>3. 2 \in 1..n
    BY <1>3, <2>2
  <2> QED BY <1>3, <1>8, <2>1, <2>2, <2>3
<1>12. SameDenominator(rr, sch)
  BY DEF Agrees
<1>13. Failed(rs) => /\ st = "invalid"
                    /\ \A i \in DOMAIN rr : rr[i].outcome = "execution_failure" /\ rr[i].score = 0
  BY DEF Agrees
<1>14. ~Failed(rs) => st = StatusOf(rr)
  BY <1>10 DEF Agrees
<1>15. PICK E : E = ContractErrors(u, req)
  OBVIOUS
<1>16. DOMAIN E = {"acceptance", "skip", "describe_first", "close_last", "validity",
                   "capabilities", "describe_outcome", "reset_second", "close_outcome",
                   "runner_valid", "denominator", "invalidation", "status"}
  BY <1>15 DEF ContractErrors
<1>17. ~E.acceptance /\ ~E.skip
  BY <1>1, <1>2, <1>6, <1>7, <1>15, ZenonT(60) DEF ContractErrors
<1>18. ~E.describe_first /\ ~E.close_last
  BY <1>1, <1>2, <1>8, <1>15 DEF ContractErrors
<1>19. ~E.validity /\ ~E.runner_valid
  <2>1. PICK f : f = Failed(rs)
    OBVIOUS
  <2>2. E.validity = (v = f) /\ E.runner_valid = (v = f)
    BY <1>2, <1>15, <2>1 DEF ContractErrors
  <2>3. v # f
    BY <1>9, <2>1
  <2> QED BY <2>2, <2>3
<1>20. ~E.capabilities /\ ~E.describe_outcome /\ ~E.reset_second /\ ~E.close_outcome
  <2>1. PICK f, c : f = Failed(rs) /\ c = DescriptorAccepted(d, q)
    OBVIOUS
  <2>2. /\ E.capabilities = (~f /\ ~c)
        /\ E.describe_outcome = (~f /\ rs[1].outcome # "success")
        /\ E.reset_second = (~f /\ (\/ n < 2 \/ rs[2].operation # "reset"
                                     \/ rs[2].outcome # "success"))
        /\ E.close_outcome = (~f /\ req /\ rs[n].outcome # "success")
    BY <1>1, <1>2, <1>15, <2>1 DEF ContractErrors
  <2>3. f \/ (/\ c /\ n >= 2 /\ rs[2].operation = "reset"
              /\ rs[1].outcome = "success" /\ rs[2].outcome = "success"
              /\ (req => rs[n].outcome = "success"))
    BY <1>11, <2>1, Zenon
  <2>4. n >= 2 => ~(n < 2)
    BY <1>3
  <2> QED BY <2>2, <2>3, <2>4, Zenon
<1>21. ~E.denominator
  BY <1>2, <1>12, <1>15 DEF ContractErrors
<1>22. ~E.invalidation
  BY <1>2, <1>13, <1>15 DEF ContractErrors
<1>23. ~E.status
  BY <1>2, <1>14, <1>15 DEF ContractErrors
<1>24. {e \in DOMAIN E : E[e]} = {}
  BY <1>16, <1>17, <1>18, <1>19, <1>20, <1>21, <1>22, <1>23
<1> QED BY <1>1, <1>2, <1>4, <1>15, <1>24, Zenon DEF VerifyRunContract

\* The rows of a run that earn credit had their prerequisites recalled.
Credited(rs) ==
    \A i \in DOMAIN rs, k \in DOMAIN Probes :
        /\ rs[i].probe = Probes[k].id
        /\ rs[i].score = 1
        => \A id \in Probes[k].conditional_on :
              \E j \in DOMAIN rs : rs[j].probe = id /\ rs[j].recalled

ContractInv ==
    /\ ReceiptsInv
    /\ run # Nothing => VerifyRunContract(run, cell.closes) = {} /\ Credited(run.rows)

\* The rows that are reported for a run that failed.
LEMMA FailedRows ==
    ASSUME ~valid
    PROVE  \A i \in DOMAIN ReportedRows :
              ReportedRows[i].outcome = "execution_failure" /\ ReportedRows[i].score = 0
<1>1. PICK pl, rep : pl = Planned /\ rep = ReportedRows
  OBVIOUS
<1>2. rep = [i \in DOMAIN pl |-> Row(pl[i].id, "execution_failure", 0, FALSE)]
  BY <1>1 DEF ReportedRows
<1>3. \A i \in DOMAIN rep : rep[i].outcome = "execution_failure" /\ rep[i].score = 0
  BY <1>2 DEF Row
<1> QED BY <1>1, <1>3

\* At its end, the evidence of a run agrees.
LEMMA ReturnAgrees ==
    ASSUME ReceiptsInv, Return
    PROVE  /\ Agrees(IF valid THEN StatusOf(ReportedRows) ELSE "invalid", ReportedRows, Scheduled,
                     receipts, valid, descriptor, Required, cell.closes)
           /\ Credited(ReportedRows)
<1>1. /\ stage \in Ends /\ stage # "describing"
      /\ cell.closes => stage = "closed"
  BY DEF Return, Ends
<1>2. valid => Complete
  BY <1>1 DEF ReceiptsInv, PlanInv, Ends
<1>3. SameDenominator(ReportedRows, Scheduled)
  BY <1>2, ReportedDenominator DEF ReceiptsInv, PlanInv, WorldInv
<1>4. /\ Receipts(descriptor, receipts) /\ Len(receipts) >= 1 /\ receipts[1].operation = "describe"
      /\ valid = ~Failed(receipts)
      /\ cell.closes => receipts[Len(receipts)].operation = "close"
  BY <1>1, Zenon DEF ReceiptsInv
<1>5. valid => /\ DescriptorAccepted(descriptor, Required)
               /\ Len(receipts) >= 2 /\ receipts[2].operation = "reset"
  BY <1>1 DEF ReceiptsInv
<1>6. Credited(ReportedRows)
  <2>1. PICK rep : rep = ReportedRows
    OBVIOUS
  <2>2. CASE valid
    <3>1. Rows(cell.scored, rep) /\ Credit(rep)
      BY <1>2, <2>1, <2>2 DEF Complete, ReportedRows
    <3>2. DOMAIN rep = 1..Len(rep) /\ DOMAIN Probes = 1..Len(Probes)
      BY <3>1, ConditionalIds DEF Rows
    <3>3. Credited(rep)
      BY <3>1, <3>2 DEF Credit, Credited
    <3> QED BY <2>1, <3>3
  <2>3. CASE ~valid
    <3>1. \A i \in DOMAIN rep : rep[i].score = 0
      BY <2>1, <2>3, FailedRows
    <3>2. Credited(rep)
      BY <3>1 DEF Credited
    <3> QED BY <2>1, <3>2
  <2> QED BY <2>2, <2>3
<1>7. ~valid => \A i \in DOMAIN ReportedRows :
                   ReportedRows[i].outcome = "execution_failure" /\ ReportedRows[i].score = 0
  BY FailedRows
<1> QED BY <1>3, <1>4, <1>5, <1>6, <1>7, Zenon DEF Agrees

\* Every step keeps what is said of the returned run.
LEMMA StepContract == ContractInv /\ [Next]_vars => ContractInv'
<1> SUFFICES ASSUME ContractInv, [Next]_vars PROVE ContractInv'
  OBVIOUS
<1>1. ReceiptsInv' /\ cell' = cell /\ (Return \/ run' = run)
  BY StepReceipts, StepFrame DEF ContractInv
<1>2. CASE run' = run
  BY <1>1, <1>2 DEF ContractInv, Credited
<1>3. CASE Return
  <2>1. PICK st, rr, sch, rs, v, d, q, req :
          /\ st = (IF valid THEN StatusOf(ReportedRows) ELSE "invalid")
          /\ rr = ReportedRows /\ sch = Scheduled /\ rs = receipts /\ v = valid
          /\ d = descriptor /\ q = Required /\ req = cell.closes
    OBVIOUS
  <2>2. run' = Evidence(st, rr, sch, rs, v, d, q)
    BY <1>3, <2>1, Zenon DEF Return, Evidence
  <2>3. Agrees(st, rr, sch, rs, v, d, q, req) /\ Credited(rr)
    BY <1>3, <2>1, ReturnAgrees, Zenon DEF ContractInv
  <2>4. VerifyRunContract(Evidence(st, rr, sch, rs, v, d, q), req) = {}
    BY <2>3, NoErrors
  <2>5. VerifyRunContract(run', cell'.closes) = {}
    BY <1>1, <2>1, <2>2, <2>4, Zenon
  <2>6. run'.rows = rr
    BY <2>2 DEF Evidence
  <2>7. Credited(run'.rows)
    BY <2>3, <2>6
  <2> QED BY <1>1, <2>5, <2>7 DEF ContractInv, Credited
<1> QED BY <1>1, <1>2, <1>3

\* Whatever the Agent and the transport do, at whatever step, a run that is returned
\* raises none of the errors of verify_run_contract: receipts, validity, status,
\* denominator and outcomes agree.
THEOREM ReturnedRunsVerify == Spec => []ReturnedRunVerifies
<1>1. Init => ContractInv
  BY InitReceipts DEF ContractInv, Init
<1>2. ContractInv => ReturnedRunVerifies
  BY DEF ContractInv, ReturnedRunVerifies
<1> QED BY <1>1, <1>2, StepContract, PTL DEF Spec

\* A conditional probe of a returned run earns credit only when each probe it is
\* conditional on was recalled in that run.
THEOREM CreditIsEarned == Spec => []CreditNeedsRecall
<1>1. Init => ContractInv
  BY InitReceipts DEF ContractInv, Init
<1>2. ContractInv => CreditNeedsRecall
  BY DEF ContractInv, CreditNeedsRecall, Credited
<1> QED BY <1>1, <1>2, StepContract, PTL DEF Spec

----------------------------------------------------------------------------
(* Tool calls *)

\* The identifiers of the tasks: no Probe that is acted on bears the one of a lived
\* task.  Runner names both alike on the wire, and validate_scenario looks for
\* duplicates among the events and among the Probes, not across.
TaskIdsAreOwn ==
    \A c \in Conditions : \A e \in Range(Timeline) \cup Range(c.injections) :
        e.type = "task" => \A p \in Range(Probes) : p.delivery = "act" => p.id # e.id

\* The event sets off a task of that identifier: its own, the one of an injection
\* anchored to it, or a Probe that is acted on.
ActOf(event, id) ==
    \/ event.type = "task" /\ event.id = id
    \/ \E e \in Range(cell.injections) : e.type = "task" /\ e.anchor = event.id /\ e.id = id
    \/ \E p \in Range(Probes) : p.delivery = "act" /\ p.after = event.id /\ p.id = id

\* The tasks that are still to be done, each once.
ActAt(t) == {i \in 1..Len(t) : t[i].op = "act"}
ActsOnce(t) == \A i, j \in ActAt(t) : t[i].id = t[j].id => i = j

\* The calls of a task, by their place among all calls.
CallsAt(tools, id) == {i \in 1..Len(tools) : tools[i].task = id}
CallIds(tools, id) == {tools[i].call : i \in CallsAt(tools, id)}

\* Where the task under way is: behind the result of its last call, which is still to
\* be observed, or first.
Telling(t) == Len(t) > 0 /\ t[1].for = "tool"
Doing(t) == IF Telling(t) THEN 2 ELSE 1

\* What the act loop has seen is what the task under way has called, and no other
\* task on the list has called anything.
InHand(t, seen, tools) ==
    /\ t \in Seq(Range(t)) /\ ActsOnce(t) /\ IsFiniteSet(seen)
    /\ \A i \in 1..Len(t) : t[i].for = "tool" => i = 1 /\ t[1].op = "observe"
    /\ Telling(t) => 2 \in ActAt(t) /\ t[2].id = t[1].id
    /\ \A i \in ActAt(t) : i # Doing(t) => CallsAt(tools, t[i].id) = {}
    /\ Doing(t) \in ActAt(t) =>
          /\ CallIds(tools, t[Doing(t)].id) = seen
          /\ Cardinality(CallsAt(tools, t[Doing(t)].id)) = Cardinality(seen)
    /\ Doing(t) \notin ActAt(t) => seen = {}

ShownTo(ags) == {<<s.id, s.call>> : s \in UNION {Range(ags[k].memory) : k \in 1..Len(ags)}}
Shown == ShownTo(agents)

\* Each call is made once, within the bound, for a task of an event that was begun.
CallsOnce(tools) ==
    /\ tools \in Seq(Range(tools))
    /\ \A i, j \in 1..Len(tools) : tools[i] = tools[j] => i = j
    /\ \A i \in 1..Len(tools) : Cardinality(CallsAt(tools, tools[i].task)) <= MaxToolCalls

Memories == \A k \in 1..Len(agents) : agents[k].memory \in Seq(Range(agents[k].memory))

\* Its result was observed, or is the next thing to be.
Told(tools, t, shown) ==
    \A i \in 1..Len(tools) :
        \/ <<tools[i].task, tools[i].call>> \in shown
        \/ Telling(t) /\ tools[i].task = t[1].id /\ tools[i].call = t[1].call

ToolInv ==
    /\ SessionInv /\ WorldInv /\ Memories
    /\ loop = [turn |-> loop.turn, seen |-> loop.seen]
    /\ CallsOnce(world.tools)
    /\ \A i \in 1..Len(world.tools) : \E k \in 1..pos : ActOf(MergedTimeline[k], world.tools[i].task)
    /\ stage = "describing" => todo = <<>> /\ loop.seen = {} /\ world.tools = <<>>
    /\ stage = "running" =>
          /\ InHand(todo, loop.seen, world.tools)
          /\ \A i \in ActAt(todo) : pos > 0 /\ ActOf(MergedTimeline[pos], todo[i].id)
    /\ valid /\ stage # "raised" => Told(world.tools, todo, Shown)
    /\ valid /\ stage \in {"closing", "closed", "returned"} => todo = <<>>

\* Steps put in the place of the first, of which none is a task's.
LEMMA InHandNext ==
    ASSUME NEW t, NEW seen, NEW tools, InHand(t, seen, tools), ~Telling(t), Len(t) > 0,
           NEW u, u \in Seq(Range(u)), NEW d \in Nat, Len(u) = d + (Len(t) - 1),
           \A i \in 1..Len(u) : i <= d => u[i].op # "act" /\ u[i].for # "tool",
           \A i \in 1..Len(u) : i > d => u[i] = t[i - d + 1]
    PROVE  InHand(u, {}, tools)
<1>1. /\ t \in Seq(Range(t)) /\ Len(t) \in Nat /\ ActsOnce(t) /\ Len(u) \in Nat
      /\ \A i \in 1..Len(t) : t[i].for # "tool"
      /\ \A i \in ActAt(t) : i # 1 => CallsAt(tools, t[i].id) = {}
  <2>1. t \in Seq(Range(t)) /\ Len(t) \in Nat /\ ActsOnce(t) /\ Len(u) \in Nat
    BY DEF InHand
  <2>2. \A i \in 1..Len(t) : t[i].for # "tool"
    BY DEF InHand, Telling
  <2>3. Doing(t) = 1
    BY DEF Doing
  <2> QED BY <2>1, <2>2, <2>3, Zenon DEF InHand
<1>2. ASSUME NEW i \in 1..Len(u), i > d
      PROVE  i - d + 1 \in 1..Len(t) /\ i - d + 1 # 1 /\ u[i] = t[i - d + 1]
  BY <1>1, <1>2
<1>3. \A i \in 1..Len(u) : u[i].for # "tool"
  <2> TAKE i \in 1..Len(u)
  <2>1. CASE i <= d
    BY <2>1
  <2>2. CASE i > d
    BY <1>1, <1>2, <2>2
  <2> QED BY <1>1, <2>1, <2>2
<1>4. ~Telling(u) /\ Doing(u) = 1
  BY <1>1, <1>3 DEF Telling, Doing
<1>5. ASSUME NEW i \in ActAt(u)
      PROVE  i \in 1..Len(u) /\ i > d /\ i - d + 1 \in ActAt(t) /\ u[i] = t[i - d + 1]
             /\ CallsAt(tools, u[i].id) = {}
  <2>1. i \in 1..Len(u) /\ u[i].op = "act"
    BY DEF ActAt
  <2>2. i > d
    BY <1>1, <2>1
  <2>3. i - d + 1 \in ActAt(t) /\ i - d + 1 # 1 /\ u[i] = t[i - d + 1]
    BY <1>2, <2>1, <2>2 DEF ActAt
  <2> QED BY <1>1, <2>1, <2>2, <2>3
<1>6. ActsOnce(u)
  <2> SUFFICES ASSUME NEW i \in ActAt(u), NEW j \in ActAt(u), u[i].id = u[j].id PROVE i = j
    BY DEF ActsOnce
  <2>1. t[i - d + 1].id = t[j - d + 1].id /\ i - d + 1 \in ActAt(t) /\ j - d + 1 \in ActAt(t)
    BY <1>5
  <2>2. i - d + 1 = j - d + 1
    BY <1>1, <2>1, Zenon DEF ActsOnce
  <2>3. i \in 1..Len(u) /\ j \in 1..Len(u)
    BY <1>5
  <2>4. i \in Nat /\ j \in Nat
    BY <2>3
  <2> QED BY <2>2, <2>4
<1>7. ASSUME NEW id, CallsAt(tools, id) = {}
      PROVE  CallIds(tools, id) = {} /\ Cardinality(CallsAt(tools, id)) = Cardinality({})
  BY <1>7 DEF CallIds
<1> QED BY <1>3, <1>4, <1>5, <1>6, <1>7, FS_EmptySet DEF InHand

\* The result of a call is observed: its task goes on.
LEMMA InHandObserved ==
    ASSUME NEW t, NEW seen, NEW tools, InHand(t, seen, tools), Telling(t),
           NEW u, u \in Seq(Range(u)), Len(u) = Len(t) - 1,
           \A i \in 1..Len(u) : u[i] = t[i + 1]
    PROVE  InHand(u, seen, tools) /\ ~Telling(u)
<1>1. /\ t \in Seq(Range(t)) /\ Len(t) \in Nat /\ Len(u) \in Nat /\ ActsOnce(t) /\ Len(t) > 0
      /\ Doing(t) = 2 /\ 2 \in ActAt(t)
      /\ \A i \in 1..Len(t) : t[i].for = "tool" => i = 1
  BY DEF InHand, Telling, Doing
<1>2. \A i \in 1..Len(u) : i + 1 \in 1..Len(t) /\ i + 1 # 1 /\ u[i] = t[i + 1]
  BY <1>1
<1>3. \A i \in 1..Len(u) : u[i].for # "tool"
  BY <1>1, <1>2
<1>4. ~Telling(u) /\ Doing(u) = 1
  BY <1>1, <1>3 DEF Telling, Doing
<1>5. \A i \in 1..Len(u) : i \in ActAt(u) <=> i + 1 \in ActAt(t)
  BY <1>2 DEF ActAt
<1>6. \A i \in ActAt(u) : i \in 1..Len(u) /\ i + 1 \in ActAt(t) /\ u[i] = t[i + 1]
  BY <1>2, <1>5 DEF ActAt
<1>7. ActsOnce(u)
  <2> SUFFICES ASSUME NEW i \in ActAt(u), NEW j \in ActAt(u), u[i].id = u[j].id PROVE i = j
    BY DEF ActsOnce
  <2>1. t[i + 1].id = t[j + 1].id /\ i + 1 \in ActAt(t) /\ j + 1 \in ActAt(t)
    BY <1>6
  <2>2. i + 1 = j + 1
    BY <1>1, <2>1, Zenon DEF ActsOnce
  <2>3. i \in 1..Len(u) /\ j \in 1..Len(u)
    BY <1>6
  <2>4. i \in Nat /\ j \in Nat
    BY <2>3
  <2> QED BY <2>2, <2>4
<1>8. 1 \in ActAt(u) /\ u[1] = t[2]
  <2>1. 1 \in 1..Len(u)
    BY <1>1 DEF ActAt
  <2> QED BY <1>1, <1>2, <1>5, <2>1
<1>9. \A i \in ActAt(u) : i # 1 => CallsAt(tools, u[i].id) = {}
  <2> SUFFICES ASSUME NEW i \in ActAt(u), i # 1 PROVE CallsAt(tools, u[i].id) = {}
    OBVIOUS
  <2>1. i + 1 \in ActAt(t) /\ i + 1 # 2 /\ u[i] = t[i + 1]
    BY <1>6
  <2> QED BY <1>1, <2>1 DEF InHand
<1>10. /\ CallIds(tools, u[1].id) = seen
       /\ Cardinality(CallsAt(tools, u[1].id)) = Cardinality(seen)
  BY <1>1, <1>8 DEF InHand
<1> QED BY <1>3, <1>4, <1>7, <1>8, <1>9, <1>10 DEF InHand

\* A new event: no task it sets off has called anything.
LEMMA InHandFresh ==
    ASSUME NEW t, NEW tools, t \in Seq(Range(t)), ActsOnce(t),
           \A i \in 1..Len(t) : t[i].for # "tool",
           \A i \in ActAt(t) : CallsAt(tools, t[i].id) = {}
    PROVE  InHand(t, {}, tools) /\ ~Telling(t)
<1>1. ~Telling(t) /\ Doing(t) = 1
  BY DEF Telling, Doing
<1>2. ASSUME NEW id, CallsAt(tools, id) = {}
      PROVE  CallIds(tools, id) = {} /\ Cardinality(CallsAt(tools, id)) = Cardinality({})
  BY <1>2 DEF CallIds
<1> QED BY <1>1, <1>2, FS_EmptySet DEF InHand

\* new is one call longer than tools, by the call x.
CallMore(tools, x, new) ==
    /\ new \in Seq(Range(new)) /\ Len(new) = Len(tools) + 1 /\ Len(tools) \in Nat
    /\ \A i \in 1..Len(tools) : new[i] = tools[i]
    /\ new[Len(tools) + 1] = x
    /\ CallIds(new, x.task) = CallIds(tools, x.task) \cup {x.call}
    /\ \A id : id # x.task => CallsAt(new, id) = CallsAt(tools, id)
    /\ Cardinality(CallsAt(new, x.task)) = Cardinality(CallsAt(tools, x.task)) + 1

\* Every call is.
LEMMA MoreCalls ==
    ASSUME NEW tools, tools \in Seq(Range(tools)), NEW x
    PROVE  CallMore(tools, x, Append(tools, x))
<1> PICK a, c, new : a = x.task /\ c = x.call /\ new = Append(tools, x)
  OBVIOUS
<1> DEFINE S == Range(tools) \cup {x}
           n == Len(tools)
<1>1. tools \in Seq(S) /\ x \in S /\ n \in Nat
  BY SeqMonotonic
<1>2. x.task = a /\ x.call = c /\ new = Append(tools, x)
  OBVIOUS
<1> HIDE DEF S
<1>4. /\ new \in Seq(S) /\ Len(new) = n + 1
      /\ \A i \in 1..n : new[i] = tools[i]
      /\ new[n + 1] = x
  BY <1>1, <1>2, AppendProperties
<1>5. new \in Seq(Range(new))
  BY <1>4, SeqOfRange
<1> HIDE DEF n
<1>6. \A i : i \in 1..Len(new) <=> i \in 1..n \/ i = n + 1
  BY <1>1, <1>4
<1>7. n + 1 \notin 1..n
  BY <1>1
<1>8. \A id : CallsAt(new, id) = CallsAt(tools, id) \cup (IF id = a THEN {n + 1} ELSE {})
  <2> TAKE id
  <2>1. \A i \in 1..n : i \in CallsAt(new, id) <=> i \in CallsAt(tools, id)
    BY <1>4, <1>6 DEF CallsAt, n
  <2>2. n + 1 \in CallsAt(new, id) <=> id = a
    BY <1>2, <1>4, <1>6 DEF CallsAt
  <2>3. \A i \in CallsAt(new, id) : i \in 1..n \/ i = n + 1
    BY <1>6 DEF CallsAt
  <2>4. \A i \in CallsAt(tools, id) : i \in 1..n
    BY DEF CallsAt, n
  <2> QED BY <2>1, <2>2, <2>3, <2>4
<1>9. CallIds(new, a) = CallIds(tools, a) \cup {c}
  <2>1. \A i \in CallsAt(tools, a) : i \in 1..n
    BY DEF CallsAt, n
  <2>2. \A i \in CallsAt(tools, a) : new[i] = tools[i]
    BY <1>4, <2>1
  <2>3. CallsAt(new, a) = CallsAt(tools, a) \cup {n + 1}
    BY <1>8
  <2>4. CallIds(new, a) = {new[i].call : i \in CallsAt(tools, a)} \cup {c}
    BY <1>2, <1>4, <2>3 DEF CallIds
  <2>5. {new[i].call : i \in CallsAt(tools, a)} = {tools[i].call : i \in CallsAt(tools, a)}
    BY <2>2
  <2> QED BY <2>4, <2>5 DEF CallIds
<1>10. ASSUME NEW id PROVE IsFiniteSet(CallsAt(tools, id)) /\ Cardinality(CallsAt(tools, id)) \in Nat
  <2>1. IsFiniteSet(1..n) /\ CallsAt(tools, id) \in SUBSET (1..n)
    BY <1>1, FS_Interval DEF CallsAt, n
  <2>2. IsFiniteSet(CallsAt(tools, id))
    BY <2>1, FS_Subset
  <2> QED BY <2>2, FS_CardinalityType
<1>11. Cardinality(CallsAt(new, a)) = Cardinality(CallsAt(tools, a)) + 1
  <2>1. CallsAt(new, a) = CallsAt(tools, a) \cup {n + 1} /\ n + 1 \notin CallsAt(tools, a)
    BY <1>7, <1>8 DEF CallsAt, n
  <2>2. PICK m, C, D : m = n + 1 /\ C = CallsAt(tools, a) /\ D = CallsAt(new, a)
    OBVIOUS
  <2>3. IsFiniteSet(C) /\ D = C \cup {m} /\ m \notin C
    BY <1>10, <2>1, <2>2
  <2>4. Cardinality(D) = Cardinality(C) + 1
    BY <2>3, FS_AddElement
  <2> QED BY <2>2, <2>4
<1>12. \A id : id # a => CallsAt(new, id) = CallsAt(tools, id)
  BY <1>8
<1> QED BY <1>1, <1>2, <1>4, <1>5, <1>9, <1>11, <1>12 DEF n, CallMore

\* A call that its task has not made, within the bound, is made once.
LEMMA CallsOnceMore ==
    ASSUME NEW tools, CallsOnce(tools), NEW x, NEW new, new = Append(tools, x),
           x.call \notin CallIds(tools, x.task),
           Cardinality(CallsAt(tools, x.task)) + 1 <= MaxToolCalls
    PROVE  CallsOnce(new)
<1> PICK n, a, c : n = Len(tools) /\ a = x.task /\ c = x.call
  OBVIOUS
<1>1. /\ new \in Seq(Range(new)) /\ Len(new) = n + 1 /\ n \in Nat
      /\ \A i \in 1..n : new[i] = tools[i]
      /\ new[n + 1].task = a /\ new[n + 1].call = c
      /\ \A id : id # a => CallsAt(new, id) = CallsAt(tools, id)
      /\ Cardinality(CallsAt(new, a)) = Cardinality(CallsAt(tools, a)) + 1
  <2>1. tools \in Seq(Range(tools))
    BY DEF CallsOnce
  <2>2. CallMore(tools, x, new)
    BY <2>1, MoreCalls
  <2> QED BY <2>2 DEF CallMore
<1>2. \A i \in 1..Len(new) : i \in 1..n \/ i = n + 1
  BY <1>1
<1>3. ASSUME NEW i \in 1..n PROVE new[i] # new[n + 1]
  <2> SUFFICES ASSUME new[i] = new[n + 1] PROVE FALSE
    OBVIOUS
  <2>1. tools[i].task = a /\ tools[i].call = c
    BY <1>1
  <2> QED BY <2>1 DEF CallIds, CallsAt
<1>4. \A i, j \in 1..Len(new) : new[i] = new[j] => i = j
  <2> SUFFICES ASSUME NEW i \in 1..Len(new), NEW j \in 1..Len(new), new[i] = new[j] PROVE i = j
    OBVIOUS
  <2>1. CASE i \in 1..n /\ j \in 1..n
    <3>1. tools[i] = tools[j]
      BY <1>1, <2>1
    <3> QED BY <2>1, <3>1 DEF CallsOnce
  <2>2. CASE i = n + 1 \/ j = n + 1
    BY <1>2, <1>3, <2>2
  <2> QED BY <1>2, <2>1, <2>2
<1>5. ASSUME NEW i \in 1..Len(new)
      PROVE  Cardinality(CallsAt(new, new[i].task)) <= MaxToolCalls
  <2>1. CASE new[i].task = a
    BY <1>1, <2>1
  <2>2. CASE new[i].task # a
    <3>1. i \in 1..n /\ new[i] = tools[i]
      BY <1>1, <1>2, <2>2
    <3>2. CallsAt(new, new[i].task) = CallsAt(tools, tools[i].task)
      BY <1>1, <2>2, <3>1
    <3> QED BY <3>1, <3>2 DEF CallsOnce
  <2> QED BY <2>1, <2>2
<1> QED BY <1>1, <1>4, <1>5 DEF CallsOnce

\* The task under way calls a tool: its result is to be observed first.
LEMMA InHandCall ==
    ASSUME NEW t, NEW seen, NEW tools, InHand(t, seen, tools), tools \in Seq(Range(tools)),
           ~Telling(t), Len(t) > 0, t[1].op = "act",
           NEW c, c \notin seen,
           NEW x, x.task = t[1].id, x.call = c, NEW new, new = Append(tools, x),
           NEW u, u \in Seq(Range(u)), Len(u) = Len(t) + 1,
           u[1].op = "observe", u[1].for = "tool", u[1].id = t[1].id,
           \A i \in 1..Len(u) : i > 1 => u[i] = t[i - 1]
    PROVE  InHand(u, seen \cup {c}, new)
<1> PICK a : a = t[1].id
  OBVIOUS
<1>1. /\ t \in Seq(Range(t)) /\ Len(t) \in Nat /\ Len(u) \in Nat /\ ActsOnce(t) /\ IsFiniteSet(seen)
      /\ Doing(t) = 1 /\ 1 \in ActAt(t)
      /\ \A i \in 1..Len(t) : t[i].for # "tool"
  <2>1. t \in Seq(Range(t)) /\ Len(t) \in Nat /\ Len(u) \in Nat /\ ActsOnce(t) /\ IsFiniteSet(seen)
    BY DEF InHand
  <2>2. \A i \in 1..Len(t) : t[i].for # "tool"
    BY DEF InHand, Telling
  <2>3. Doing(t) = 1 /\ 1 \in ActAt(t)
    BY <2>1 DEF Doing, ActAt
  <2> QED BY <2>1, <2>2, <2>3
<1>2. /\ CallIds(tools, a) = seen /\ Cardinality(CallsAt(tools, a)) = Cardinality(seen)
      /\ \A i \in ActAt(t) : i # 1 => CallsAt(tools, t[i].id) = {}
  BY <1>1 DEF InHand
<1>3. /\ CallIds(new, a) = seen \cup {c}
      /\ \A id : id # a => CallsAt(new, id) = CallsAt(tools, id)
      /\ Cardinality(CallsAt(new, a)) = Cardinality(seen) + 1
  <2>1. CallMore(tools, x, new)
    BY MoreCalls
  <2> QED BY <1>2, <2>1 DEF CallMore
<1>4. IsFiniteSet(seen \cup {c}) /\ Cardinality(seen \cup {c}) = Cardinality(seen) + 1
  BY <1>1, FS_AddElement
<1>5. ASSUME NEW i \in 1..Len(u), i # 1
      PROVE  i > 1 /\ i - 1 \in 1..Len(t) /\ u[i] = t[i - 1] /\ (i \in ActAt(u) <=> i - 1 \in ActAt(t))
  <2>1. i > 1 /\ i - 1 \in 1..Len(t) /\ u[i] = t[i - 1]
    BY <1>1, <1>5
  <2> QED BY <2>1 DEF ActAt
<1>6. 1 \notin ActAt(u) /\ \A i \in ActAt(u) : i \in 1..Len(u) /\ i # 1
  BY DEF ActAt
<1>7. Telling(u) /\ Doing(u) = 2 /\ 2 \in 1..Len(u) /\ u[2] = t[1] /\ 2 \in ActAt(u)
  <2>1. 2 \in 1..Len(u) /\ Len(u) > 0 /\ 2 - 1 = 1
    BY <1>1
  <2>2. u[2] = t[1] /\ 2 \in ActAt(u)
    BY <1>1, <1>5, <2>1
  <2> QED BY <2>1, <2>2 DEF Telling, Doing
<1>8. ActsOnce(u)
  <2> SUFFICES ASSUME NEW i \in ActAt(u), NEW j \in ActAt(u), u[i].id = u[j].id PROVE i = j
    BY DEF ActsOnce
  <2>1. i - 1 \in ActAt(t) /\ j - 1 \in ActAt(t) /\ t[i - 1].id = t[j - 1].id /\ i \in Nat /\ j \in Nat
    BY <1>5, <1>6, SMTT(60)
  <2>2. i - 1 = j - 1
    BY <1>1, <2>1, Zenon DEF ActsOnce
  <2> QED BY <2>1, <2>2
<1>9. \A i \in 1..Len(u) : u[i].for = "tool" => i = 1 /\ u[1].op = "observe"
  BY <1>1, <1>5
<1>10. ASSUME NEW i \in ActAt(u), i # 2 PROVE CallsAt(new, u[i].id) = {}
  <2>1. i \in 1..Len(u) /\ i # 1
    BY <1>6
  <2>2. i - 1 \in ActAt(t) /\ i - 1 # 1 /\ u[i] = t[i - 1]
    BY <1>5, <1>10, <2>1
  <2>3. t[i - 1].id # a
    BY <1>1, <2>2 DEF ActsOnce
  <2> QED BY <1>2, <1>3, <2>2, <2>3
<1> QED BY <1>3, <1>4, <1>7, <1>8, <1>9, <1>10 DEF InHand

----------------------------------------------------------------------------
(* The tasks of an event *)

\* The events merged so far have identifiers of their own, and are the scenario's or
\* injections without an anchor that were merged.
Distinct(inj, n, s) ==
    /\ \A k, l \in 1..Len(s) : s[k].id = s[l].id => k = l
    /\ \A k \in 1..Len(s) :
          s[k] \in Range(Timeline) \/ \E j \in 1..n : s[k] = inj[j] /\ inj[j].anchor = "none"

\* It stays so when the next injection is put among them.
LEMMA DistinctNext ==
    ASSUME NEW inj, NEW n \in Nat, n + 1 \in 1..Len(inj), NEW s, Len(s) \in Nat,
           Distinct(inj, n, s), inj[n + 1].anchor = "none",
           \A e \in Range(Timeline) : inj[n + 1].id # e.id,
           \A j \in 1..n : inj[n + 1].id # inj[j].id,
           NEW p, NEW new, Inserted(s, inj[n + 1], p, new)
    PROVE  Distinct(inj, n + 1, new)
<1>1. /\ p \in 1..(Len(s) + 1) /\ Len(new) = Len(s) + 1 /\ new[p] = inj[n + 1]
      /\ \A i \in 1..Len(s) : i < p => new[i] = s[i]
      /\ \A i \in 1..Len(s) : i >= p => new[i + 1] = s[i]
  BY DEF Inserted
<1> DEFINE old(k) == IF k < p THEN k ELSE k - 1
<1>2. ASSUME NEW k \in 1..Len(new), k # p PROVE old(k) \in 1..Len(s) /\ new[k] = s[old(k)]
  <2>1. CASE k < p
    BY <1>1, <2>1
  <2>2. CASE k > p
    <3>1. k - 1 \in 1..Len(s) /\ k - 1 >= p /\ (k - 1) + 1 = k
      BY <1>1, <2>2
    <3>2. new[(k - 1) + 1] = s[k - 1]
      BY <1>1, <3>1, Zenon
    <3> QED BY <1>1, <2>2, <3>1, <3>2
  <2> QED BY <1>1, <1>2, <2>1, <2>2
<1>3. \A k, l \in 1..Len(new) : k # p /\ l # p /\ old(k) = old(l) => k = l
  BY <1>1
<1> HIDE DEF old
<1>4. ASSUME NEW k \in 1..Len(new), k # p PROVE new[k].id # inj[n + 1].id
  <2>1. new[k] = s[old(k)] /\ old(k) \in 1..Len(s)
    BY <1>2, <1>4
  <2>2. s[old(k)] \in Range(Timeline) \/ \E j \in 1..n : s[old(k)] = inj[j]
    BY <2>1, Zenon DEF Distinct
  <2> QED BY <2>1, <2>2
<1>5. ASSUME NEW k \in 1..Len(new), NEW l \in 1..Len(new), new[k].id = new[l].id PROVE k = l
  <2>1. CASE k = p \/ l = p
    BY <1>1, <1>4, <1>5, <2>1
  <2>2. CASE k # p /\ l # p
    <3>1. old(k) = old(l)
      BY <1>2, <1>5, <2>2, SMTT(60) DEF Distinct
    <3> QED BY <1>3, <2>2, <3>1
  <2> QED BY <2>1, <2>2
<1>6. ASSUME NEW k \in 1..Len(new)
      PROVE  new[k] \in Range(Timeline)
             \/ \E j \in 1..(n + 1) : new[k] = inj[j] /\ inj[j].anchor = "none"
  <2>1. n + 1 \in 1..(n + 1) /\ \A j \in 1..n : j \in 1..(n + 1)
    OBVIOUS
  <2>2. CASE k = p
    BY <1>1, <2>1, <2>2
  <2>3. CASE k # p
    <3>1. new[k] = s[old(k)] /\ old(k) \in 1..Len(s)
      BY <1>2, <2>3
    <3>2. s[old(k)] \in Range(Timeline) \/ \E j \in 1..n : s[old(k)] = inj[j] /\ inj[j].anchor = "none"
      BY <3>1, Zenon DEF Distinct
    <3> QED BY <2>1, <3>1, <3>2
  <2> QED BY <2>2, <2>3
<1> QED BY <1>5, <1>6 DEF Distinct

\* So it is with the whole timeline.
LEMMA MergedDistinct ==
    ASSUME cell \in Conditions
    PROVE  Distinct(cell.injections, Len(cell.injections), MergedTimeline)
<1>0. PICK inj, f : inj = cell.injections /\ IsMerged(inj, f) /\ MergedTimeline = f[Len(inj)]
  BY MergedIs
<1> DEFINE n == Len(inj)
           Good(i, s) == s \in Seq(Events) /\ Distinct(inj, i, s)
           N == {i \in Nat : i <= n => Good(i, f[i])}
<1>1. /\ inj \in Seq(Range(inj)) /\ n \in Nat /\ DOMAIN inj = 1..n
      /\ \A i \in 1..n : inj[i] \in Events
      /\ Timeline \in Seq(Events)
  <2>1. inj \in Seq(Range(inj)) /\ Timeline \in Seq(Events) /\ Range(inj) \subseteq Events
    BY <1>0, MergedIs
  <2> HIDE DEF Range, Events
  <2> QED BY <2>1
<1>2. /\ f[0] = Timeline
      /\ \A i \in 1..n : f[i] = IF inj[i].anchor = "none" THEN InsertFloating(f[i - 1], inj[i])
                                ELSE f[i - 1]
  BY <1>0 DEF IsMerged
<1>3. /\ \A i, j \in 1..n : inj[i].id = inj[j].id => i = j
      /\ \A i \in 1..n : \A e \in Range(Timeline) : inj[i].id # e.id
      /\ \A i, j \in DOMAIN Timeline : Timeline[i].id = Timeline[j].id => i = j
  <2>1. /\ \A i \in DOMAIN inj : \A j \in DOMAIN Timeline : inj[i].id # Timeline[j].id
        /\ \A i, j \in DOMAIN inj : inj[i].id = inj[j].id => i = j
        /\ \A i, j \in DOMAIN Timeline : Timeline[i].id = Timeline[j].id => i = j
    BY <1>0, ScenarioAssumption
  <2> QED BY <1>1, <2>1 DEF Range
<1>4. 0 \in N
  <2>1. Distinct(inj, 0, Timeline)
    <3>1. DOMAIN Timeline = 1..Len(Timeline)
      BY <1>1
    <3> QED BY <1>3, <3>1 DEF Distinct, Range
  <2> QED BY <1>1, <1>2, <2>1
<1>5. ASSUME NEW i \in N PROVE i + 1 \in N
  <2> SUFFICES ASSUME i + 1 <= n PROVE Good(i + 1, f[i + 1])
    OBVIOUS
  <2>1. i \in Nat /\ Good(i, f[i]) /\ i + 1 \in 1..n /\ (i + 1) - 1 = i
    BY <1>1
  <2>2. f[i + 1] = IF inj[i + 1].anchor = "none" THEN InsertFloating(f[i], inj[i + 1]) ELSE f[i]
    BY <1>2, <2>1
  <2>3. CASE inj[i + 1].anchor # "none"
    <3>1. f[i + 1] = f[i] /\ Distinct(inj, i, f[i]) /\ f[i] \in Seq(Events)
      BY <2>1, <2>2, <2>3
    <3>2. \A j \in 1..i : j \in 1..(i + 1)
      BY <2>1
    <3> QED BY <3>1, <3>2 DEF Distinct
  <2>4. CASE inj[i + 1].anchor = "none"
    <3>1. PICK s, e, new : s = f[i] /\ e = inj[i + 1] /\ new = InsertFloating(s, e)
      OBVIOUS
    <3>2. s \in Seq(Events) /\ e \in Events /\ Len(s) \in Nat /\ Distinct(inj, i, s)
      BY <1>1, <2>1, <3>1
    <3>3. PICK p : new \in Seq(Events) /\ Inserted(s, e, p, new)
      BY <3>1, <3>2, InsertIs
    <3>4. /\ \A a \in Range(Timeline) : inj[i + 1].id # a.id
          /\ \A j \in 1..i : inj[i + 1].id # inj[j].id
      <4>1. \A j \in 1..i : j \in 1..n /\ j # i + 1
        BY <1>1, <2>1
      <4> QED BY <1>3, <2>1, <4>1
    <3>5. Distinct(inj, i + 1, new)
      BY <2>1, <2>4, <3>1, <3>2, <3>3, <3>4, DistinctNext
    <3> QED BY <2>2, <2>4, <3>1, <3>3, <3>5
  <2> QED BY <2>3, <2>4
<1>6. N = Nat
  <2>1. N \subseteq Nat
    OBVIOUS
  <2> HIDE DEF N
  <2> QED BY <1>4, <1>5, <2>1, NatSetInduction
<1>7. Distinct(inj, n, f[n])
  BY <1>1, <1>6
<1> QED BY <1>0, <1>7

\* A task is set off by one event.
LEMMA TaskOwner ==
    ASSUME TaskIdsAreOwn, cell \in Conditions,
           NEW k \in 1..Len(MergedTimeline), NEW l \in 1..Len(MergedTimeline), NEW id,
           ActOf(MergedTimeline[k], id), ActOf(MergedTimeline[l], id)
    PROVE  k = l
<1>0. PICK inj, merged : inj = cell.injections /\ merged = MergedTimeline
  OBVIOUS
<1>1. /\ \A i, j \in 1..Len(merged) : merged[i].id = merged[j].id => i = j
      /\ \A i \in 1..Len(merged) :
            merged[i] \in Range(Timeline)
            \/ \E j \in 1..Len(inj) : merged[i] = inj[j] /\ inj[j].anchor = "none"
  BY <1>0, MergedDistinct DEF Distinct
<1>2. /\ inj \in Seq(Range(inj)) /\ DOMAIN inj = 1..Len(inj)
      /\ Range(inj) = {inj[i] : i \in 1..Len(inj)}
  <2>1. inj \in Seq(Range(inj))
    BY <1>0, MergedIs
  <2> QED BY <2>1 DEF Range
<1>3. /\ \A d, e \in Range(inj) : d.id = e.id => d = e
      /\ \A e \in Range(inj) : e.id # "none" /\ \A a \in Range(Timeline) : e.id # a.id
      /\ \A a \in Range(Timeline) : a.id # "none"
  <2>1. /\ \A i \in DOMAIN inj : inj[i].id # "none" /\ \A j \in DOMAIN Timeline : inj[i].id # Timeline[j].id
        /\ \A i, j \in DOMAIN inj : inj[i].id = inj[j].id => i = j
        /\ \A j \in DOMAIN Timeline : Timeline[j].id # "none"
    BY <1>0, ScenarioAssumption
  <2> QED BY <1>2, <2>1 DEF Range
<1>4. \A i \in 1..Len(merged) : merged[i] \in Range(Timeline) \cup Range(inj) /\ merged[i].id # "none"
  BY <1>1, <1>2, <1>3
<1>5. \A e \in Range(Timeline) \cup Range(inj) : e.type = "task" =>
         \A p \in Range(Probes) : p.delivery = "act" => p.id # e.id
  BY <1>0 DEF TaskIdsAreOwn
<1> DEFINE Own(i) == merged[i].type = "task" /\ merged[i].id = id
           Anchored(i) == \E e \in Range(inj) : e.type = "task" /\ e.anchor = merged[i].id /\ e.id = id
           Probed(i) == \E p \in Range(Probes) :
                           p.delivery = "act" /\ p.after = merged[i].id /\ p.id = id
<1>6. /\ Own(k) \/ Anchored(k) \/ Probed(k)
      /\ Own(l) \/ Anchored(l) \/ Probed(l)
  BY <1>0 DEF ActOf
<1>7. ASSUME NEW i \in 1..Len(merged), NEW j \in 1..Len(merged), Own(i), Anchored(j) PROVE FALSE
  <2>1. PICK e \in Range(inj) : e.anchor = merged[j].id /\ e.id = merged[i].id
    BY <1>7
  <2>2. PICK m \in 1..Len(inj) : merged[i] = inj[m] /\ inj[m].anchor = "none"
    BY <1>1, <1>3, <2>1
  <2>3. inj[m] = e
    <3>1. inj[m] \in Range(inj) /\ inj[m].id = e.id
      BY <1>2, <2>1, <2>2
    <3> QED BY <1>3, <3>1
  <2> QED BY <1>4, <2>1, <2>2, <2>3
<1>8. ASSUME NEW i \in 1..Len(merged), NEW j \in 1..Len(merged), Own(i) \/ Anchored(i), Probed(j)
      PROVE  FALSE
  <2>1. \E e \in Range(Timeline) \cup Range(inj) : e.type = "task" /\ e.id = id
    BY <1>4, <1>8
  <2> QED BY <1>5, <1>8, <2>1
<1>9. CASE Own(k) /\ Own(l)
  BY <1>0, <1>1, <1>9
<1>10. CASE Anchored(k) /\ Anchored(l)
  <2>1. merged[k].id = merged[l].id
    BY <1>3, <1>10
  <2> QED BY <1>0, <1>1, <2>1
<1>11. CASE Probed(k) /\ Probed(l)
  <2>1. merged[k].id = merged[l].id
    BY <1>11, ProbeById
  <2> QED BY <1>0, <1>1, <2>1
<1> QED
  <2> HIDE DEF Own, Anchored, Probed
  <2>1. k \in 1..Len(merged) /\ l \in 1..Len(merged)
    BY <1>0
  <2> QED BY <1>6, <1>7, <1>8, <1>9, <1>10, <1>11, <2>1

\* The steps of a task, lived or asked for.
ActSteps(ids) == {s \in Others(ids) \cup ProbeStepSet : s.op = "act"}

\* What an event is by itself: one task at most, its own.
LEMMA HandlerTask ==
    ASSUME NEW ids, NEW e, e.id \in ids
    PROVE  /\ HandlerSteps(e) \in Seq(Others(ids))
           /\ Once(ActSteps(ids), HandlerSteps(e))
           /\ \A x \in Range(HandlerSteps(e)) :
                 x.op = "act" => e.type = "task" /\ x.for = "task" /\ x.id = e.id
<1> DEFINE a == Step("act", "task", e.id)
           b == Step("observe", "event", e.id)
           c == Step("maintain", "event", e.id)
           d == Step("session_boundary", "event", e.id)
<1>1. /\ a.op = "act" /\ a.for = "task" /\ a.id = e.id
      /\ b.op # "act" /\ c.op # "act" /\ d.op # "act"
  BY DEF Step
<1>2. \/ HandlerSteps(e) \in {<<>>, <<b>>, <<b, c>>, <<b, d>>}
      \/ HandlerSteps(e) = <<a>> /\ e.type = "task"
  BY DEF HandlerSteps
<1> HIDE DEF a, b, c, d
<1>3. ASSUME NEW x, NEW y, x.op # "act", y.op # "act"
      PROVE  /\ \A s \in {<<>>, <<x>>, <<x, y>>} : Once(ActSteps(ids), s)
             /\ \A s \in {<<>>, <<x>>, <<x, y>>} : \A z \in Range(s) : z.op # "act"
  <2>1. x \notin ActSteps(ids) /\ y \notin ActSteps(ids)
    BY <1>3 DEF ActSteps
  <2>2. /\ Len(<<>>) = 0 /\ Len(<<x>>) = 1 /\ Len(<<x, y>>) = 2
        /\ <<x>>[1] = x /\ <<x, y>>[1] = x /\ <<x, y>>[2] = y
        /\ DOMAIN <<>> = {} /\ DOMAIN <<x>> = {1} /\ DOMAIN <<x, y>> = {1, 2}
    OBVIOUS
  <2>3. Once(ActSteps(ids), <<>>) /\ Once(ActSteps(ids), <<x>>) /\ Once(ActSteps(ids), <<x, y>>)
    BY <2>1, <2>2 DEF Once
  <2>4. Range(<<>>) = {} /\ Range(<<x>>) = {x} /\ Range(<<x, y>>) = {x, y}
    BY <2>2 DEF Range
  <2> QED BY <1>3, <2>3, <2>4
<1>4. CASE HandlerSteps(e) \in {<<>>, <<b>>, <<b, c>>, <<b, d>>}
  <2>1. PICK s, y : s = HandlerSteps(e) /\ y \in {c, d} /\ s \in {<<>>, <<b>>, <<b, y>>}
    BY <1>4
  <2>2. Once(ActSteps(ids), s) /\ \A z \in Range(s) : z.op # "act"
    BY <1>1, <1>3, <2>1
  <2> QED BY <2>1, <2>2, HandlerIsOther
<1>5. CASE HandlerSteps(e) = <<a>> /\ e.type = "task"
  <2>1. Once(ActSteps(ids), <<a>>) /\ Range(<<a>>) = {a}
    <3>1. Len(<<a>>) = 1 /\ <<a>>[1] = a /\ DOMAIN <<a>> = {1}
      OBVIOUS
    <3> QED BY <3>1 DEF Once, Range
  <2> QED BY <1>1, <1>5, <2>1, HandlerIsOther
<1> QED BY <1>2, <1>4, <1>5

\* What a Probe is: one task at most, the one it asks for.
LEMMA ProbeTask ==
    ASSUME NEW ids, NEW p, p.id \in ids, p \in Range(Probes)
    PROVE  /\ ProbeSteps(p) \in Seq(Others(ids) \cup ProbeStepSet)
           /\ Once(ActSteps(ids), ProbeSteps(p))
           /\ \A x \in Range(ProbeSteps(p)) : x.op = "act" => x = ProbeStep(p) /\ p.delivery = "act"
<1> DEFINE a == Step("observe", "injection", p.id)
           b == ProbeStep(p)
<1>1. a.op # "act" /\ (b.op = "act" => p.delivery = "act")
  BY DEF Step, ProbeStep
<1>2. ProbeSteps(p) = (IF p.id \in cell.before THEN <<a>> ELSE <<>>) \o <<b>>
  BY DEF ProbeSteps, ProbeStep
<1> HIDE DEF a, b
<1>3. ProbeSteps(p) = <<b>> \/ ProbeSteps(p) = <<a, b>>
  BY <1>2, PairConcat
<1>4. /\ Len(<<b>>) = 1 /\ DOMAIN <<b>> = {1} /\ <<b>>[1] = b
      /\ Len(<<a, b>>) = 2 /\ DOMAIN <<a, b>> = {1, 2} /\ <<a, b>>[1] = a /\ <<a, b>>[2] = b
  OBVIOUS
<1>5. Range(<<b>>) = {b} /\ Range(<<a, b>>) = {a, b}
  BY <1>4 DEF Range
<1>6. Once(ActSteps(ids), <<b>>) /\ Once(ActSteps(ids), <<a, b>>)
  <2>1. a \notin ActSteps(ids)
    BY <1>1 DEF ActSteps
  <2> QED BY <1>4, <2>1 DEF Once
<1>7. /\ Once(ActSteps(ids), ProbeSteps(p))
      /\ \A x \in Range(ProbeSteps(p)) : x.op = "act" => x = b /\ p.delivery = "act"
  BY <1>1, <1>3, <1>5, <1>6
<1> QED BY <1>7, ProbeStepsAre DEF b

\* The tasks of an event: its own, those of the injections anchored to it, and the
\* Probes that are acted on after it, each once.
LEMMA EventTasks ==
    ASSUME TaskIdsAreOwn, cell \in Conditions, NEW k \in 1..Len(MergedTimeline),
           NEW event, event = MergedTimeline[k]
    PROVE  /\ StepsOf(event) \in Seq(Range(StepsOf(event)))
           /\ ActsOnce(StepsOf(event))
           /\ \A i \in 1..Len(StepsOf(event)) : StepsOf(event)[i].for # "tool"
           /\ \A i \in ActAt(StepsOf(event)) : ActOf(event, StepsOf(event)[i].id)
<1>0. PICK inj, planned, past : inj = cell.injections /\ planned = Planned /\ past = cell.past
  OBVIOUS
<1> DEFINE ids == {event.id} \cup {i.id : i \in Range(inj)} \cup {p.id : p \in Range(Probes)}
           S == Others(ids) \cup ProbeStepSet
           T == ActSteps(ids)
<1>1. PICK f, g :
          /\ f = [i \in DOMAIN inj |-> IF inj[i].anchor = event.id THEN HandlerSteps(inj[i]) ELSE <<>>]
          /\ g = [i \in DOMAIN planned |->
                    IF planned[i].after = event.id THEN ProbeSteps(planned[i]) ELSE <<>>]
  OBVIOUS
<1>2. /\ inj \in Seq(Range(inj)) /\ DOMAIN inj = 1..Len(inj) /\ Len(inj) \in Nat
      /\ \A i, j \in 1..Len(inj) : inj[i].id = inj[j].id => i = j
  <2>1. inj \in Seq(Range(inj)) /\ \A i, j \in DOMAIN inj : inj[i].id = inj[j].id => i = j
    BY <1>0, ScenarioAssumption, Zenon
  <2> QED BY <2>1
<1>3. /\ planned \in Seq(Range(Probes)) /\ DOMAIN planned = 1..Len(planned) /\ Len(planned) \in Nat
      /\ \A i \in 1..Len(planned) : planned[i] \in Range(Probes)
      /\ \A i, j \in 1..Len(planned) : planned[i].id = planned[j].id => i = j
  BY <1>0, PlannedOnce
<1>4. \A i \in 1..Len(inj) : inj[i].anchor = event.id => inj[i].id # event.id
  <2> SUFFICES ASSUME NEW i \in 1..Len(inj), inj[i].anchor = event.id, inj[i].id = event.id
               PROVE  FALSE
    OBVIOUS
  <2>1. ActOf(event, event.id) \/ event.type # "task"
    BY DEF ActOf
  <2>2. /\ \A j \in DOMAIN Timeline : inj[i].id # Timeline[j].id
        /\ inj[i].id # "none"
    BY <1>0, <1>2, ScenarioAssumption
  <2>3. event \notin Range(Timeline)
    BY <2>2 DEF Range
  <2>4. PICK j \in 1..Len(inj) : event = inj[j] /\ inj[j].anchor = "none"
    BY <1>0, <2>3, MergedDistinct DEF Distinct
  <2>5. i = j
    BY <1>2, <2>4
  <2> QED BY <2>2, <2>4, <2>5
<1>5. ASSUME NEW i \in 1..Len(inj)
      PROVE  /\ f[i] \in Seq(Others(ids)) /\ Once(T, f[i])
             /\ \A x \in Range(f[i]) : x.op = "act" =>
                   inj[i].anchor = event.id /\ inj[i].type = "task" /\ x.for = "task" /\ x.id = inj[i].id
  <2>1. inj[i].id \in ids
    BY <1>2 DEF Range
  <2>2. f[i] = IF inj[i].anchor = event.id THEN HandlerSteps(inj[i]) ELSE <<>>
    BY <1>1, <1>2
  <2> HIDE DEF ids
  <2>3. <<>> \in Seq(Others(ids)) /\ Range(<<>>) = {} /\ Once(T, <<>>)
    BY DEF Range, Once
  <2>4. /\ HandlerSteps(inj[i]) \in Seq(Others(ids)) /\ Once(T, HandlerSteps(inj[i]))
        /\ \A x \in Range(HandlerSteps(inj[i])) :
              x.op = "act" => inj[i].type = "task" /\ x.for = "task" /\ x.id = inj[i].id
    BY <2>1, HandlerTask
  <2> HIDE DEF T
  <2>5. CASE inj[i].anchor = event.id
    BY <2>2, <2>4, <2>5
  <2>6. CASE inj[i].anchor # event.id
    BY <2>2, <2>3, <2>6
  <2> QED BY <2>5, <2>6
<1>6. ASSUME NEW i \in 1..Len(planned)
      PROVE  /\ g[i] \in Seq(S) /\ Once(T, g[i])
             /\ \A x \in Range(g[i]) : x.op = "act" =>
                   /\ x = ProbeStep(planned[i])
                   /\ planned[i].delivery = "act" /\ planned[i].after = event.id
  <2>1. planned[i].id \in ids /\ planned[i] \in Range(Probes)
    BY <1>3
  <2>2. g[i] = IF planned[i].after = event.id THEN ProbeSteps(planned[i]) ELSE <<>>
    BY <1>1, <1>3
  <2> HIDE DEF ids
  <2>3. /\ ProbeSteps(planned[i]) \in Seq(S) /\ Once(T, ProbeSteps(planned[i]))
        /\ \A x \in Range(ProbeSteps(planned[i])) :
              x.op = "act" => x = ProbeStep(planned[i]) /\ planned[i].delivery = "act"
    BY <2>1, ProbeTask
  <2>4. <<>> \in Seq(S) /\ Range(<<>>) = {} /\ Once(T, <<>>)
    BY DEF Range, Once
  <2> HIDE DEF S, T
  <2>5. CASE planned[i].after = event.id
    BY <2>2, <2>3, <2>5
  <2>6. CASE planned[i].after # event.id
    BY <2>2, <2>4, <2>6
  <2> QED BY <2>5, <2>6
<1>7. \A x \in T : x.op = "act"
  BY DEF ActSteps
<1>8. HandlerSteps(event) \in Seq(Others(ids)) /\ Once(T, HandlerSteps(event))
      /\ \A x \in Range(HandlerSteps(event)) :
            x.op = "act" => event.type = "task" /\ x.for = "task" /\ x.id = event.id
  <2>1. event.id \in ids
    OBVIOUS
  <2> HIDE DEF ids
  <2> QED BY <2>1, HandlerTask
<1>9. Step("observe", "injection", event.id) \in Others(ids)
      /\ Step("observe", "injection", event.id).op # "act"
  <2>1. event.id \in ids
    OBVIOUS
  <2> HIDE DEF ids
  <2> QED BY <2>1 DEF Others, Step
<1> HIDE DEF ids, T
<1>10. f \in Seq(Seq(S)) /\ Len(f) = Len(inj)
  <2>1. Seq(Others(ids)) \subseteq Seq(S)
    OBVIOUS
  <2> HIDE DEF S
  <2>2. f \in [1..Len(inj) -> Seq(S)]
    BY <1>1, <1>2, <1>5, <2>1
  <2> QED BY <1>2, <2>2
<1>11. g \in Seq(Seq(S)) /\ Len(g) = Len(planned)
  <2> HIDE DEF S
  <2>1. g \in [1..Len(planned) -> Seq(S)]
    BY <1>1, <1>3, <1>6
  <2> QED BY <1>3, <2>1
<1> DEFINE A == HandlerSteps(event)
           B == FlattenSeq(f)
           C == IF event.id \in past THEN <<Step("observe", "injection", event.id)>> ELSE <<>>
           D == FlattenSeq(g)
<1>12. StepsOf(event) = A \o B \o C \o D
  BY <1>0, <1>1 DEF StepsOf
<1>13. /\ B \in Seq(S) /\ Once(T, B)
       /\ \A x \in Range(B) : x.op = "act" =>
             \E i \in 1..Len(inj) : /\ inj[i].anchor = event.id /\ inj[i].type = "task"
                                    /\ x.for = "task" /\ x.id = inj[i].id
  <2> HIDE DEF S
  <2>1. B \in Seq(S) /\ Range(B) = UNION {Range(f[i]) : i \in 1..Len(inj)}
    <3>1. B \in Seq(S) /\ Range(B) = UNION {Range(f[i]) : i \in DOMAIN f}
      BY <1>10, FlattenRange
    <3>2. DOMAIN f = 1..Len(inj)
      BY <1>1, <1>2
    <3> QED BY <3>1, <3>2
  <2>2. \A i \in 1..Len(f) : Once(T, f[i])
    BY <1>5, <1>10
  <2>3. \A i, j \in 1..Len(f) : i # j => Range(f[i]) \cap Range(f[j]) \cap T = {}
    <3> SUFFICES ASSUME NEW i \in 1..Len(inj), NEW j \in 1..Len(inj), i # j,
                        NEW x \in Range(f[i]), x \in Range(f[j]), x \in T
                 PROVE  FALSE
      BY <1>10
    <3>1. x.id = inj[i].id /\ x.id = inj[j].id
      BY <1>5, <1>7
    <3> QED BY <1>2, <3>1
  <2>4. Once(T, B)
    BY <1>10, <2>2, <2>3, FlattenOnce
  <2>5. ASSUME NEW x \in Range(B), x.op = "act"
        PROVE  \E i \in 1..Len(inj) : /\ inj[i].anchor = event.id /\ inj[i].type = "task"
                                      /\ x.for = "task" /\ x.id = inj[i].id
    <3>1. PICK i \in 1..Len(inj) : x \in Range(f[i])
      BY <2>1
    <3> QED BY <1>5, <2>5, <3>1
  <2> QED BY <2>1, <2>4, <2>5
<1>14. /\ D \in Seq(S) /\ Once(T, D)
       /\ \A x \in Range(D) : x.op = "act" =>
             \E p \in Range(Probes) : x = ProbeStep(p) /\ p.delivery = "act" /\ p.after = event.id
  <2> HIDE DEF S
  <2>1. D \in Seq(S) /\ Range(D) = UNION {Range(g[i]) : i \in 1..Len(planned)}
    <3>1. D \in Seq(S) /\ Range(D) = UNION {Range(g[i]) : i \in DOMAIN g}
      BY <1>11, FlattenRange
    <3>2. DOMAIN g = 1..Len(planned)
      BY <1>1, <1>3
    <3> QED BY <3>1, <3>2
  <2>2. \A i \in 1..Len(g) : Once(T, g[i])
    BY <1>6, <1>11
  <2>3. \A i, j \in 1..Len(g) : i # j => Range(g[i]) \cap Range(g[j]) \cap T = {}
    <3> SUFFICES ASSUME NEW i \in 1..Len(planned), NEW j \in 1..Len(planned), i # j,
                        NEW x \in Range(g[i]), x \in Range(g[j]), x \in T
                 PROVE  FALSE
      BY <1>11
    <3>1. x = ProbeStep(planned[i]) /\ x = ProbeStep(planned[j])
      BY <1>6, <1>7
    <3>2. planned[i] = planned[j]
      BY <1>3, <3>1, ProbeStepOf
    <3> QED BY <1>3, <3>2
  <2>4. Once(T, D)
    BY <1>11, <2>2, <2>3, FlattenOnce
  <2>5. ASSUME NEW x \in Range(D), x.op = "act"
        PROVE  \E p \in Range(Probes) : x = ProbeStep(p) /\ p.delivery = "act" /\ p.after = event.id
    <3>1. PICK i \in 1..Len(planned) : x \in Range(g[i])
      BY <2>1
    <3>2. x = ProbeStep(planned[i]) /\ planned[i].delivery = "act" /\ planned[i].after = event.id
      BY <1>6, <2>5, <3>1
    <3> QED BY <1>3, <3>2
  <2> QED BY <2>1, <2>4, <2>5
<1>15. C \in Seq(S) /\ Once(T, C) /\ \A x \in Range(C) : x.op # "act"
  <2>1. PICK c : c = Step("observe", "injection", event.id)
    OBVIOUS
  <2>2. /\ <<c>> \in Seq(S) /\ <<>> \in Seq(S) /\ Len(<<c>>) = 1 /\ <<c>>[1] = c
        /\ DOMAIN <<c>> = {1} /\ DOMAIN <<>> = {} /\ Len(<<>>) = 0
    BY <1>9, <2>1
  <2>3. Range(<<c>>) = {c} /\ Range(<<>>) = {}
    BY <2>2 DEF Range
  <2>4. Once(T, <<c>>) /\ Once(T, <<>>)
    BY <2>2 DEF Once
  <2> QED BY <1>9, <2>1, <2>2, <2>3, <2>4
<1> HIDE DEF A, B, C, D
<1>16. /\ A \in Seq(S) /\ Once(T, A)
       /\ \A x \in Range(A) : x.op = "act" => event.type = "task" /\ x.for = "task" /\ x.id = event.id
  BY <1>8 DEF A
<1> DEFINE AB == A \o B
           ABC == AB \o C
<1> HIDE DEF S
<1>17. AB \in Seq(S) /\ Once(T, AB) /\ Range(AB) = Range(A) \cup Range(B)
  <2>1. Range(A) \cap Range(B) \cap T = {}
    <3> SUFFICES ASSUME NEW x \in Range(A), x \in Range(B), x \in T PROVE FALSE
      OBVIOUS
    <3>1. x.op = "act"
      BY <1>7
    <3>2. x.id = event.id
      BY <1>16, <3>1
    <3>3. \E i \in 1..Len(inj) : inj[i].anchor = event.id /\ x.id = inj[i].id
      BY <1>13, <3>1
    <3> QED BY <1>4, <3>2, <3>3
  <2> QED BY <1>13, <1>16, <2>1, OnceConcat
<1>18. ABC \in Seq(S) /\ Once(T, ABC) /\ Range(ABC) = Range(AB) \cup Range(C)
  <2> HIDE DEF AB
  <2>1. Range(AB) \cap Range(C) \cap T = {}
    BY <1>7, <1>15
  <2> QED BY <1>15, <1>17, <2>1, OnceConcat
<1>19. \A x \in Range(ABC) : x.op = "act" => x.for = "task" /\
          \/ event.type = "task" /\ x.id = event.id
          \/ \E i \in 1..Len(inj) : inj[i].anchor = event.id /\ inj[i].type = "task" /\ x.id = inj[i].id
  BY <1>13, <1>15, <1>16, <1>17, <1>18
<1> HIDE DEF ABC
<1> DEFINE t == ABC \o D
<1>20. t \in Seq(S) /\ Once(T, t) /\ Range(t) = Range(ABC) \cup Range(D)
  <2>1. Range(ABC) \cap Range(D) \cap T = {}
    <3> SUFFICES ASSUME NEW x \in Range(ABC), x \in Range(D), x \in T PROVE FALSE
      OBVIOUS
    <3>1. x.op = "act" /\ x.for = "task"
      BY <1>7, <1>19
    <3>2. \E p : x = ProbeStep(p)
      BY <1>14, <3>1
    <3> QED BY <3>1, <3>2, ProbeStepOf
  <2> QED BY <1>14, <1>18, <2>1, OnceConcat
<1>21. StepsOf(event) = t
  BY <1>12 DEF AB, ABC
<1> HIDE DEF t
<1>22. t \in Seq(Range(t)) /\ \A i \in 1..Len(t) : t[i] \in S /\ t[i] \in Range(t)
  <2>1. t \in Seq(Range(t))
    BY <1>20, SeqOfRange
  <2>2. \A i \in 1..Len(t) : t[i] \in S
    BY <1>20
  <2>3. \A i \in 1..Len(t) : t[i] \in Range(t)
    BY <1>20 DEF Range
  <2> QED BY <2>1, <2>2, <2>3
<1>23. \A x \in S : x.for # "tool"
  <2>1. \A x \in Others(ids) : x.for # "tool"
    BY DEF Others, Step
  <2>2. \A x \in ProbeStepSet : x.for # "tool"
    BY ProbeStepOf DEF ProbeStepSet
  <2> QED BY <2>1, <2>2 DEF S
<1>24. ASSUME NEW i \in ActAt(t)
       PROVE  /\ i \in 1..Len(t) /\ t[i] \in T
              /\ \/ /\ t[i].for = "task"
                    /\ \/ event.type = "task" /\ t[i].id = event.id
                       \/ \E e \in Range(inj) : e.anchor = event.id /\ e.type = "task" /\ t[i].id = e.id
                 \/ \E p \in Range(Probes) : /\ t[i] = ProbeStep(p) /\ t[i].id = p.id
                                             /\ p.delivery = "act" /\ p.after = event.id
  <2>1. i \in 1..Len(t) /\ t[i].op = "act"
    BY DEF ActAt
  <2>2. t[i] \in T
    BY <1>22, <2>1 DEF T, ActSteps, S
  <2>3. \A j \in 1..Len(inj) : inj[j] \in Range(inj)
    BY <1>2
  <2>4. CASE t[i] \in Range(ABC)
    BY <1>19, <2>1, <2>2, <2>3, <2>4
  <2>5. CASE t[i] \in Range(D)
    BY <1>14, <2>1, <2>2, <2>5, ProbeStepOf
  <2> QED BY <1>20, <1>22, <2>1, <2>4, <2>5
<1>25. \A i \in ActAt(t) : ActOf(event, t[i].id)
  BY <1>0, <1>24 DEF ActOf
<1>26. ActsOnce(t)
  <2> SUFFICES ASSUME NEW i \in ActAt(t), NEW j \in ActAt(t), t[i].id = t[j].id PROVE t[i] = t[j]
    BY <1>20, <1>24 DEF ActsOnce, Once
  <2>1. \A x \in Others(ids) : x.op = "act" /\ x.for = "task" => x = Step("act", "task", x.id)
    BY DEF Others, Step
  <2>2. \A x \in ProbeStepSet : x.for = "probe"
    BY ProbeStepOf DEF ProbeStepSet
  <2>3. \A x \in T : x.for = "task" => x = Step("act", "task", x.id)
    BY <2>1, <2>2 DEF T, ActSteps
  <2>4. \A e \in {event} \cup Range(inj) : e.type = "task" =>
           \A p \in Range(Probes) : p.delivery = "act" => p.id # e.id
    <3>1. event \in Range(Timeline) \cup Range(inj)
      <4>1. event \in Range(Timeline) \/ \E l \in 1..Len(inj) : event = inj[l]
        BY <1>0, MergedDistinct DEF Distinct
      <4> QED BY <1>2, <4>1
    <3> QED BY <1>0, <3>1 DEF TaskIdsAreOwn
  <2>5. CASE t[i].for = "task" /\ t[j].for = "task"
    BY <1>24, <2>3, <2>5
  <2>6. CASE t[i].for # "task" /\ t[j].for # "task"
    <3>1. PICK p \in Range(Probes), q \in Range(Probes) :
             t[i] = ProbeStep(p) /\ t[j] = ProbeStep(q) /\ p.id = q.id
      BY <1>24, <2>6
    <3> QED BY <3>1, ProbeById
  <2>7. ASSUME NEW a \in ActAt(t), NEW b \in ActAt(t), t[a].for = "task", t[b].for # "task"
        PROVE  t[a].id # t[b].id
    <3>1. PICK p \in Range(Probes) : p.delivery = "act" /\ t[b].id = p.id
      BY <1>24, <2>7
    <3>2. t[a].for # "probe"
      BY <2>7
    <3>3. \E e \in {event} \cup Range(inj) : e.type = "task" /\ t[a].id = e.id
      BY <1>24, <2>7, <3>2, ProbeStepOf
    <3> QED BY <2>4, <3>1, <3>3
  <2> QED BY <2>5, <2>6, <2>7
<1>27. \A i \in 1..Len(t) : t[i].for # "tool"
  BY <1>22, <1>23
<1> QED BY <1>21, <1>22, <1>25, <1>26, <1>27

\* What a step does to the instances.
LEMMA AgentStep ==
    ASSUME [Next]_vars
    PROVE  \/ agents' = agents
           \/ \E v : \/ agents' = [agents EXCEPT ![Current].reset = v]
                     \/ agents' = [agents EXCEPT ![Current].restored = v]
                     \/ agents' = [agents EXCEPT ![Current].handed = v]
           \/ \E x : agents' = [agents EXCEPT ![Current].memory = Append(@, x)]
           \/ \E n \in {1, 2} : Release(n)
           \/ agents' = Append([agents EXCEPT ![Current].closes = @ + 1], FreshAgent)
<1> USE DEF Record, GiveUp, Invoking, Done, Unchanged, EndActLoop, Raise, Replacing, AtEnd
<1>1. CASE Lifecycle
  <2>1. CASE ResetAgent
    BY <2>1 DEF ResetAgent
  <2>2. CASE ObserveEvent
    BY <2>2 DEF ObserveEvent
  <2>3. CASE MaintainAgent \/ MaintainWithoutCall
    BY <2>3 DEF MaintainAgent, MaintainWithoutCall
  <2>4. CASE \E state \in {Nothing, Current} : EndSession(state)
    BY <2>4 DEF EndSession
  <2>5. CASE ReplaceAgent
    BY <2>5 DEF ReplaceAgent
  <2>6. CASE ReplaceFails
    BY <2>6 DEF ReplaceFails
  <2>7. CASE RestoreAgent
    BY <2>7 DEF RestoreAgent
  <2> QED BY <1>1, <2>1, <2>2, <2>3, <2>4, <2>5, <2>6, <2>7 DEF Lifecycle
<1>2. CASE Probe
  <2>1. CASE \E score \in {0, 1}, recalled \in BOOLEAN : RespondToProbe(score, recalled)
    BY <2>1 DEF RespondToProbe
  <2>2. CASE \E score \in {0, 1} : FinishAct(score)
    BY <2>2 DEF FinishAct
  <2>3. CASE \E id \in ToolCallIds : CallTool(id)
    BY <2>3 DEF CallTool
  <2>4. CASE Misbehave
    BY <2>4 DEF Misbehave
  <2> QED BY <1>2, <2>1, <2>2, <2>3, <2>4 DEF Probe
<1>3. ASSUME NEW fault \in Fault, Retry(fault) \/ LifecycleFailure(fault)
      PROVE  agents' = agents \/ \E x : agents' = [agents EXCEPT ![Current].memory = Append(@, x)]
  <2>1. agents' = AfterFault(fault)
    BY <1>3 DEF Retry, LifecycleFailure
  <2> QED BY <2>1 DEF AfterFault
<1>4. CASE \E fault \in Fault : ProbeFailure(fault) \/ TaskFailure(fault)
  BY <1>4 DEF ProbeFailure, TaskFailure
<1>5. CASE \E d \in Descriptors \cup {NoDescriptor} : Describe(d)
  BY <1>5 DEF Describe
<1>6. CASE NextEvent
  BY <1>6 DEF NextEvent
<1>7. CASE Resend \/ UNCHANGED vars
  BY <1>7 DEF Resend, vars
<1>8. CASE ScorePending \/ ScoringFails
  BY <1>8 DEF ScorePending, ScoringFails
<1>9. CASE Return
  BY <1>9 DEF Return
<1>10. CASE \E outcome \in {"success", "failure"} : Close(outcome)
  BY <1>10 DEF Close
<1> QED BY <1>1, <1>2, <1>3, <1>4, <1>5, <1>6, <1>7, <1>8, <1>9, <1>10 DEF Next

\* No instance forgets, and a new one has observed nothing.
Remember(ags, new) ==
    /\ Len(ags) \in Nat /\ Len(new) \in Nat /\ Len(new) >= Len(ags)
    /\ \A k \in 1..Len(ags) : \/ new[k].memory = ags[k].memory
                              \/ \E x : new[k].memory = Append(ags[k].memory, x)
    /\ \A k \in 1..Len(new) : k > Len(ags) => new[k].memory = <<>>

\* A memory that is longer holds what it held.
LEMMA MemoryLonger ==
    ASSUME NEW m, m \in Seq(Range(m)), NEW x
    PROVE  /\ Append(m, x) \in Seq(Range(Append(m, x)))
           /\ Range(m) \subseteq Range(Append(m, x)) /\ x \in Range(Append(m, x))
<1> DEFINE S == Range(m) \cup {x}
<1>1. m \in Seq(S) /\ x \in S
  BY SeqMonotonic
<1> HIDE DEF S
<1> PICK new : new = Append(m, x)
  OBVIOUS
<1>2. /\ new \in Seq(S) /\ Len(m) \in Nat /\ Len(new) = Len(m) + 1
      /\ \A i \in 1..Len(m) : new[i] = m[i]
      /\ new[Len(m) + 1] = x
      /\ DOMAIN m = 1..Len(m) /\ DOMAIN new = 1..Len(new)
  BY <1>1, AppendProperties
<1>3. new \in Seq(Range(new))
  BY <1>2, SeqOfRange
<1>4. \A i \in DOMAIN m : i \in DOMAIN new /\ new[i] = m[i]
  BY <1>2
<1>5. Len(m) + 1 \in DOMAIN new
  BY <1>2
<1> QED BY <1>2, <1>3, <1>4, <1>5 DEF Range

\* So what was shown stays shown.
LEMMA ShownStays ==
    ASSUME NEW ags, NEW new, Remember(ags, new),
           \A k \in 1..Len(ags) : ags[k].memory \in Seq(Range(ags[k].memory))
    PROVE  /\ \A k \in 1..Len(new) : new[k].memory \in Seq(Range(new[k].memory))
           /\ ShownTo(ags) \subseteq ShownTo(new)
<1>1. ASSUME NEW k \in 1..Len(ags)
      PROVE  /\ k \in 1..Len(new) /\ new[k].memory \in Seq(Range(new[k].memory))
             /\ Range(ags[k].memory) \subseteq Range(new[k].memory)
  <2>1. k \in 1..Len(new)
    BY DEF Remember
  <2>2. PICK m, m2 : m = ags[k].memory /\ m2 = new[k].memory
    OBVIOUS
  <2>3. m \in Seq(Range(m)) /\ (m2 = m \/ \E x : m2 = Append(m, x))
    BY <2>2 DEF Remember
  <2>4. m2 \in Seq(Range(m2)) /\ Range(m) \subseteq Range(m2)
    BY <2>3, MemoryLonger
  <2> QED BY <2>1, <2>2, <2>4
<1>2. ASSUME NEW k \in 1..Len(new), k \notin 1..Len(ags)
      PROVE  new[k].memory \in Seq(Range(new[k].memory))
  <2>1. new[k].memory = <<>>
    BY <1>2 DEF Remember
  <2> QED BY <2>1, NoTodo
<1>3. ShownTo(ags) \subseteq ShownTo(new)
  <2> SUFFICES ASSUME NEW y \in ShownTo(ags) PROVE y \in ShownTo(new)
    OBVIOUS
  <2>1. PICK s \in UNION {Range(ags[k].memory) : k \in 1..Len(ags)} : y = <<s.id, s.call>>
    BY Zenon DEF ShownTo
  <2>2. PICK k \in 1..Len(ags) : s \in Range(ags[k].memory)
    BY <2>1
  <2>3. k \in 1..Len(new) /\ s \in Range(new[k].memory)
    BY <1>1, <2>2
  <2>4. s \in UNION {Range(new[i].memory) : i \in 1..Len(new)}
    BY <2>3
  <2> QED BY <2>1, <2>4, Zenon DEF ShownTo
<1> QED BY <1>1, <1>2, <1>3

\* An update of the current instance that keeps, or lengthens, its memory.
LEMMA LastRemembers ==
    ASSUME AreAgents(agents), NEW b, IsAgent(b),
           \/ b.memory = agents[Len(agents)].memory
           \/ \E x : b.memory = Append(agents[Len(agents)].memory, x),
           NEW new, new = [agents EXCEPT ![Len(agents)] = b]
    PROVE  /\ AreAgents(new) /\ Remember(agents, new) /\ Len(new) = Len(agents)
           /\ Len(agents) \in 1..Len(new) /\ new[Len(agents)] = b
<1>1. /\ AreAgents(new) /\ Len(new) = Len(agents) /\ new[Len(agents)] = b
      /\ DOMAIN agents = 1..Len(agents) /\ Len(agents) \in DOMAIN agents
      /\ \A k \in DOMAIN agents : k # Len(agents) => new[k] = agents[k]
  BY LastUpdate
<1>2. Len(agents) \in Nat /\ Len(new) \in Nat /\ Len(new) >= Len(agents) /\ Len(agents) \in 1..Len(new)
  <2>1. PICK n, l : n = Len(agents) /\ l = Len(new)
    BY Zenon
  <2>2. n > 0 /\ n \in Nat /\ l = n
    BY <1>1, <2>1 DEF AreAgents
  <2> QED BY <2>1, <2>2
<1>3. \A k \in 1..Len(agents) : \/ new[k].memory = agents[k].memory
                                \/ \E x : new[k].memory = Append(agents[k].memory, x)
  BY <1>1, Zenon
<1>4. \A k \in 1..Len(new) : k > Len(agents) => new[k].memory = <<>>
  <2>1. PICK n, l : n = Len(agents) /\ l = Len(new)
    OBVIOUS
  <2>2. n \in Nat /\ l = n
    BY <1>1, <1>2, <2>1
  <2>3. \A k \in 1..l : ~(k > n)
    BY <2>2
  <2> QED BY <2>1, <2>3
<1>5. Remember(agents, new)
  BY <1>2, <1>3, <1>4, Zenon DEF Remember
<1> QED BY <1>1, <1>2, <1>5, Zenon

\* Every step remembers.
LEMMA StepRemembers ==
    ASSUME RunInv, [Next]_vars
    PROVE  Remember(agents, agents')
<1> DEFINE a == agents[Len(agents)]
<1>1. AreAgents(agents) /\ IsAgent(a)
  BY DEF RunInv, AreAgents
<1>2. Len(agents) \in Nat
  BY <1>1 DEF AreAgents
<1>3. CASE agents' = agents
  BY <1>2, <1>3 DEF Remember
<1>4. ASSUME NEW v, \/ agents' = [agents EXCEPT ![Current].reset = v]
                    \/ agents' = [agents EXCEPT ![Current].restored = v]
                    \/ agents' = [agents EXCEPT ![Current].handed = v]
      PROVE  Remember(agents, agents')
  <2>1. PICK b : /\ b = [a EXCEPT !.reset = v] \/ b = [a EXCEPT !.restored = v] \/ b = [a EXCEPT !.handed = v]
                 /\ agents' = [agents EXCEPT ![Len(agents)] = b]
    <3>1. CASE agents' = [agents EXCEPT ![Current].reset = v]
      BY <3>1 DEF Current
    <3>2. CASE agents' = [agents EXCEPT ![Current].restored = v]
      BY <3>2 DEF Current
    <3>3. CASE agents' = [agents EXCEPT ![Current].handed = v]
      BY <3>3 DEF Current
    <3> QED BY <1>4, <3>1, <3>2, <3>3
  <2> HIDE DEF a
  <2>2. IsAgent(b)
    <3>1. CASE b = [a EXCEPT !.reset = v]
      BY <1>1, <3>1, AgentUpdate
    <3>2. CASE b = [a EXCEPT !.restored = v]
      BY <1>1, <3>2, AgentUpdate
    <3>3. CASE b = [a EXCEPT !.handed = v]
      BY <1>1, <3>3, AgentUpdate
    <3> QED BY <2>1, <3>1, <3>2, <3>3
  <2>3. b.memory = a.memory
    <3>1. CASE b = [a EXCEPT !.reset = v]
      BY <1>1, <3>1, FieldsKept
    <3>2. CASE b = [a EXCEPT !.restored = v]
      BY <1>1, <3>2, FieldsKept
    <3>3. CASE b = [a EXCEPT !.handed = v]
      BY <1>1, <3>3, FieldsKept
    <3> QED BY <2>1, <3>1, <3>2, <3>3
  <2> QED BY <1>1, <2>1, <2>2, <2>3, LastRemembers DEF a
<1>5. ASSUME NEW x, agents' = [agents EXCEPT ![Current].memory = Append(@, x)]
      PROVE  Remember(agents, agents')
  <2>1. PICK m, b : m = Append(a.memory, x) /\ b = [a EXCEPT !.memory = m]
    OBVIOUS
  <2>2. agents' = [agents EXCEPT ![Len(agents)] = b]
    BY <1>5, <2>1 DEF Current
  <2> HIDE DEF a
  <2>3. IsAgent(b) /\ b.memory = m
    <3>1. IsAgent(b)
      BY <1>1, <2>1, AgentUpdate
    <3> QED BY <1>1, <2>1, <3>1 DEF IsAgent
  <2> QED BY <1>1, <2>1, <2>2, <2>3, LastRemembers DEF a
<1>6. ASSUME NEW n \in {1, 2}, Release(n) PROVE Remember(agents, agents')
  <2>1. SameMemories /\ DOMAIN agents = 1..Len(agents)
    BY <1>1, <1>6, ClosedAgent DEF AreAgents
  <2> QED BY <1>2, <2>1 DEF SameMemories, Remember
<1>7. CASE agents' = Append([agents EXCEPT ![Current].closes = @ + 1], FreshAgent)
  <2>1. PICK b, old : b = [a EXCEPT !.closes = a.closes + 1] /\ old = [agents EXCEPT ![Len(agents)] = b]
    OBVIOUS
  <2>2. agents' = Append(old, FreshAgent)
    BY <1>7, <2>1 DEF Current
  <2> HIDE DEF a
  <2>3. IsAgent(b) /\ b.memory = a.memory
    <3>1. a.closes + 1 \in Nat
      BY <1>1 DEF IsAgent
    <3> QED BY <1>1, <2>1, <3>1, AgentUpdate
  <2>4. AreAgents(old) /\ Remember(agents, old) /\ Len(old) = Len(agents)
    BY <1>1, <2>1, <2>3, LastRemembers DEF a
  <2>5. IsAgent(FreshAgent) /\ FreshAgent.memory = <<>>
    BY DEF IsAgent, FreshAgent
  <2>6. /\ Len(agents') = Len(old) + 1
        /\ agents'[Len(old) + 1] = FreshAgent
        /\ \A k \in 1..Len(old) : agents'[k] = old[k]
    BY <2>2, <2>4, <2>5, OneMoreAgent
  <2>7. \A k \in 1..Len(agents) : agents'[k].memory = old[k].memory
    BY <2>4, <2>6
  <2>8. \A k \in 1..Len(agents') : k > Len(agents) => agents'[k].memory = <<>>
    <3> SUFFICES ASSUME NEW k \in 1..Len(agents'), k > Len(agents) PROVE agents'[k].memory = <<>>
      OBVIOUS
    <3>1. k = Len(old) + 1
      BY <1>2, <2>4, <2>6
    <3> QED BY <2>5, <2>6, <3>1
  <2>9. Len(agents') \in Nat /\ Len(agents') >= Len(agents)
    <3>1. PICK n, l : n = Len(agents) /\ l = Len(agents')
      OBVIOUS
    <3>2. n \in Nat /\ l = n + 1
      BY <1>2, <2>4, <2>6, <3>1
    <3> QED BY <3>1, <3>2
  <2>10. \A k \in 1..Len(agents) : \/ agents'[k].memory = agents[k].memory
                                   \/ \E x : agents'[k].memory = Append(agents[k].memory, x)
    BY <2>4, <2>7 DEF Remember
  <2> QED BY <1>2, <2>8, <2>9, <2>10, Zenon DEF Remember
<1> QED BY <1>3, <1>4, <1>5, <1>6, <1>7, AgentStep

\* What is observed is shown.
LEMMA ObservedIsShown ==
    ASSUME RunInv, Memories, ObserveEvent
    PROVE  <<Head(todo).id, Head(todo).call>> \in Shown'
<1> DEFINE a == agents[Len(agents)]
<1>1. AreAgents(agents) /\ IsAgent(a) /\ a.memory \in Seq(Range(a.memory))
  BY DEF RunInv, AreAgents, Memories
<1>2. PICK x, m, b : x = Head(todo) /\ m = Append(a.memory, x) /\ b = [a EXCEPT !.memory = m]
  OBVIOUS
<1>3. agents' = [agents EXCEPT ![Len(agents)] = b]
  BY <1>2 DEF ObserveEvent, Current
<1> HIDE DEF a
<1>4. IsAgent(b) /\ b.memory = m
  <2>1. IsAgent(b)
    BY <1>1, <1>2, AgentUpdate
  <2> QED BY <1>1, <1>2, <2>1 DEF IsAgent
<1>5. Len(agents) \in 1..Len(agents') /\ agents'[Len(agents)] = b
  BY <1>1, <1>2, <1>3, <1>4, LastRemembers DEF a
<1>6. x \in Range(m)
  BY <1>1, <1>2, MemoryLonger
<1>7. PICK k \in 1..Len(agents') : x \in Range(agents'[k].memory)
  BY <1>4, <1>5, <1>6
<1>8. x \in UNION {Range(agents'[i].memory) : i \in 1..Len(agents')}
  BY <1>7
<1>9. <<x.id, x.call>> \in Shown'
  BY <1>8, Zenon DEF Shown, ShownTo
<1> QED BY <1>2, <1>9

\* One or a few steps that are no task's.
NoTasks(s) == s \in Seq(Range(s)) /\ \A i \in 1..Len(s) : s[i].op # "act" /\ s[i].for # "tool"

\* Neither is a session boundary's.
LEMMA HandoverTasks ==
    ASSUME NEW state
    PROVE  NoTasks(Handover(state))
<1> DEFINE a == Step("replace", "session", "session")
           b == Step("reset", "session", "session")
           c == Step("restore", "session", "session")
<1>1. /\ a.op # "act" /\ a.for # "tool" /\ b.op # "act" /\ b.for # "tool"
      /\ c.op # "act" /\ c.for # "tool"
  BY DEF Step
<1>2. Handover(state) = <<a, b>> \o (IF state = Nothing THEN <<>> ELSE <<c>>)
  BY DEF Handover
<1> HIDE DEF a, b, c
<1>3. Handover(state) = <<a, b>> \/ Handover(state) = <<a, b, c>>
  BY <1>2, ShortConcat
<1>4. /\ <<a, b>> \in Seq(Range(<<a, b>>)) /\ Len(<<a, b>>) = 2
      /\ <<a, b>>[1] = a /\ <<a, b>>[2] = b
      /\ <<a, b, c>> \in Seq(Range(<<a, b, c>>)) /\ Len(<<a, b, c>>) = 3
      /\ <<a, b, c>>[1] = a /\ <<a, b, c>>[2] = b /\ <<a, b, c>>[3] = c
  BY ShortSeqs, Zenon
<1>5. NoTasks(<<a, b>>)
  <2>1. \A i \in 1..2 : i = 1 \/ i = 2
    OBVIOUS
  <2> QED BY <1>1, <1>4, <2>1 DEF NoTasks
<1>6. NoTasks(<<a, b, c>>)
  <2>1. \A i \in 1..3 : i = 1 \/ i = 2 \/ i = 3
    OBVIOUS
  <2> QED BY <1>1, <1>4, <2>1 DEF NoTasks
<1> QED BY <1>3, <1>5, <1>6

\* What a step does to the tasks at hand: nothing; the run goes on to its end, or is
\* given up; it begins; the next event; a step that shows no result is done; a result
\* is shown; a tool is called.
Stays == UNCHANGED <<todo, loop, world, stage>>
Leaves ==
    /\ stage' \notin {"describing", "running"} /\ world' = world /\ loop' \in {loop, NoLoop}
    /\ \/ ~valid' /\ todo' = <<>>
       \/ stage' = "raised"
       \/ valid' = valid /\ todo' = todo /\ (todo = <<>> \/ stage \in Ends)
       \/ ~valid' /\ todo' = todo /\ stage \in Ends
Begins ==
    /\ stage = "describing" /\ stage' = "running" /\ UNCHANGED <<loop, world>>
    /\ todo' = <<Step("reset", "run", "reset")>>
GoesOn ==
    /\ stage = "running" /\ stage' = "running" /\ world' = world
    /\ todo # <<>> /\ (Head(todo).for = "tool" => Head(todo).op # "observe")
    /\ \/ loop' = NoLoop
       \/ loop' = loop /\ Head(todo).op # "act"
    /\ todo' = Tail(todo) \/ \E s : NoTasks(s) /\ todo' = s \o Tail(todo)
Tells ==
    /\ ObserveEvent /\ stage = "running" /\ stage' = "running" /\ world' = world
    /\ todo # <<>> /\ Head(todo).for = "tool" /\ todo' = Tail(todo)
    /\ loop' = [loop EXCEPT !.turn = @ + 1]

\* Every step does one of them.
LEMMA TaskStep ==
    ASSUME [Next]_vars
    PROVE  Stays \/ Leaves \/ Begins \/ NextEvent \/ GoesOn \/ Tells
           \/ \E id \in ToolCallIds : CallTool(id)
<1> USE DEF Record, GiveUp, Invoking, Done, Unchanged, EndActLoop, Raise, Replacing, AtEnd, Ends
<1>1. CASE Lifecycle
  <2>1. CASE ResetAgent
    BY <2>1 DEF ResetAgent, GoesOn
  <2>2. CASE ObserveEvent
    <3>1. CASE Head(todo).for = "tool"
      BY <2>2, <3>1 DEF ObserveEvent, Tells
    <3>2. CASE Head(todo).for # "tool"
      BY <2>2, <3>2 DEF ObserveEvent, GoesOn
    <3> QED BY <3>1, <3>2
  <2>3. CASE MaintainAgent
    BY <2>3 DEF MaintainAgent, GoesOn
  <2>4. CASE MaintainWithoutCall
    BY <2>4 DEF MaintainWithoutCall, GoesOn, Leaves
  <2>5. CASE \E state \in {Nothing, Current} : EndSession(state)
    <3>1. PICK state : EndSession(state)
      BY <2>5
    <3>2. PICK s : s = IF cell.isolation = "persisted_state" THEN Handover(state) ELSE <<>>
      OBVIOUS
    <3>3. NoTasks(s)
      <4>1. NoTasks(Handover(state))
        BY HandoverTasks
      <4>2. NoTasks(<<>>)
        BY NoTodo DEF NoTasks
      <4> QED BY <3>2, <4>1, <4>2
    <3>4. todo' = s \o Tail(todo)
      BY <3>1, <3>2 DEF EndSession
    <3> QED BY <3>1, <3>3, <3>4 DEF EndSession, GoesOn
  <2>6. CASE ReplaceAgent
    BY <2>6 DEF ReplaceAgent, GoesOn
  <2>7. CASE ReplaceFails
    BY <2>7 DEF ReplaceFails, Leaves
  <2>8. CASE RestoreAgent
    BY <2>8 DEF RestoreAgent, GoesOn
  <2> QED BY <1>1, <2>1, <2>2, <2>3, <2>4, <2>5, <2>6, <2>7, <2>8 DEF Lifecycle
<1>2. CASE Probe
  <2>1. CASE \E score \in {0, 1}, recalled \in BOOLEAN : RespondToProbe(score, recalled)
    BY <2>1 DEF RespondToProbe, GoesOn
  <2>2. CASE \E score \in {0, 1} : FinishAct(score)
    BY <2>2 DEF FinishAct, GoesOn
  <2>3. CASE Misbehave
    BY <2>3 DEF Misbehave, GoesOn
  <2> QED BY <1>2, <2>1, <2>2, <2>3 DEF Probe
<1>3. ASSUME NEW fault \in Fault, Retry(fault) PROVE Stays
  BY <1>3 DEF Retry, Stays
<1>4. ASSUME NEW fault \in Fault, LifecycleFailure(fault) \/ TaskFailure(fault) PROVE Leaves
  BY <1>4 DEF LifecycleFailure, TaskFailure, Leaves
<1>5. ASSUME NEW fault \in Fault, ProbeFailure(fault) PROVE GoesOn
  BY <1>5 DEF ProbeFailure, GoesOn
<1>6. CASE \E d \in Descriptors \cup {NoDescriptor} : Describe(d)
  BY <1>6 DEF Describe, Begins, Leaves
<1>7. CASE Resend \/ UNCHANGED vars
  BY <1>7 DEF Resend, vars, Stays
<1>8. CASE ScorePending \/ ScoringFails
  BY <1>8 DEF ScorePending, ScoringFails, Leaves
<1>9. CASE Return
  BY <1>9 DEF Return, Leaves
<1>10. CASE \E outcome \in {"success", "failure"} : Close(outcome)
  BY <1>10 DEF Close, Leaves
<1> QED BY <1>1, <1>2, <1>3, <1>4, <1>5, <1>6, <1>7, <1>8, <1>9, <1>10 DEF Next

\* What every step leaves of the calls, the tasks and what was shown.
LEMMA ToolFrame ==
    ASSUME ToolInv, [Next]_vars
    PROVE  /\ SessionInv' /\ WorldInv' /\ Memories' /\ Shown \subseteq Shown'
           /\ cell' = cell /\ cell \in Conditions /\ MergedTimeline' = MergedTimeline
           /\ pos \in Nat /\ Len(MergedTimeline) \in Nat /\ pos <= Len(MergedTimeline)
           /\ NextEvent \/ pos' = pos
           /\ valid' => valid
           /\ stage = "raised" => stage' = "raised"
           /\ \A k, id : ActOf(MergedTimeline[k], id)' <=> ActOf(MergedTimeline[k], id)
<1>1. SessionInv' /\ WorldInv' /\ cell' = cell /\ cell \in Conditions /\ RunInv
  BY StepSession, StepWorld, StepFrame DEF ToolInv, SessionInv
<1>2. Memories' /\ Shown \subseteq Shown'
  <2>1. Remember(agents, agents')
    BY <1>1, StepRemembers
  <2>2. PICK ags, new : ags = agents /\ new = agents'
    OBVIOUS
  <2>3. Remember(ags, new) /\ \A k \in 1..Len(ags) : ags[k].memory \in Seq(Range(ags[k].memory))
    BY <2>1, <2>2 DEF ToolInv, Memories
  <2>4. /\ \A k \in 1..Len(new) : new[k].memory \in Seq(Range(new[k].memory))
        /\ ShownTo(ags) \subseteq ShownTo(new)
    BY <2>3, ShownStays
  <2> QED BY <2>2, <2>4 DEF Memories, Shown
<1>3. MergedTimeline' = MergedTimeline
  BY <1>1 DEF MergedTimeline
<1>4. pos \in Nat /\ Len(MergedTimeline) \in Nat /\ pos <= Len(MergedTimeline)
  <2>1. Len(MergedTimeline) \in Nat /\ pos \in 0..Len(MergedTimeline)
    BY <1>1, EventFacts DEF ToolInv, WorldInv
  <2> QED BY <2>1
<1>5. \A k, id : ActOf(MergedTimeline[k], id)' <=> ActOf(MergedTimeline[k], id)
  BY <1>1, <1>3 DEF ActOf
<1> QED BY <1>1, <1>2, <1>3, <1>4, <1>5, StepFrame, StepEnds

\* A step that calls no tool keeps the invariant when it leaves the list of a run that
\* goes on in order, and lets no result go unseen.
LEMMA KeptTools ==
    ASSUME ToolInv, [Next]_vars, world'.tools = world.tools,
           \/ loop' \in {loop, NoLoop}
           \/ loop' = [loop EXCEPT !.turn = @ + 1],
           stage' = "describing" => todo' = <<>> /\ loop'.seen = {} /\ world'.tools = <<>>,
           stage' = "running" => InHand(todo', loop'.seen, world.tools),
           stage' = "running" => \A i \in ActAt(todo') : pos' > 0 /\ ActOf(MergedTimeline[pos'], todo'[i].id),
           valid' /\ stage' # "raised" => Told(world.tools, todo', Shown'),
           valid' /\ stage' \in Ends => todo' = <<>>
    PROVE  ToolInv'
<1>1. loop' = [turn |-> loop'.turn, seen |-> loop'.seen]
  <2>1. loop = [turn |-> loop.turn, seen |-> loop.seen]
    BY DEF ToolInv
  <2>2. CASE loop' = [loop EXCEPT !.turn = @ + 1]
    BY <2>1, <2>2
  <2> QED BY <2>1, <2>2 DEF NoLoop
<1>2. CallsOnce(world.tools)'
  BY DEF ToolInv, CallsOnce, CallsAt
<1>3. PICK tools : tools = world.tools /\ tools = world'.tools
  OBVIOUS
<1>4. \A i \in 1..Len(tools) : \E k \in 1..pos' : ActOf(MergedTimeline[k], tools[i].task)
  <2> SUFFICES ASSUME NEW i \in 1..Len(tools)
               PROVE  \E k \in 1..pos' : ActOf(MergedTimeline[k], tools[i].task)
    OBVIOUS
  <2>1. PICK k \in 1..pos : ActOf(MergedTimeline[k], tools[i].task)
    BY <1>3 DEF ToolInv
  <2>2. pos \in Nat /\ (pos' = pos \/ pos' = pos + 1)
    BY ToolFrame DEF NextEvent
  <2>3. k \in 1..pos'
    BY <2>2
  <2> QED BY <2>1, <2>3
<1>5. \A i \in 1..Len(world'.tools) :
         \E k \in 1..pos' : ActOf(MergedTimeline[k], world.tools[i].task)'
  BY <1>3, <1>4, ToolFrame DEF ActOf
<1>6. stage' = "running" =>
         \A i \in ActAt(todo') : pos' > 0 /\ ActOf(MergedTimeline[pos], todo[i].id)'
  BY ToolFrame DEF ActOf
<1>7. SessionInv' /\ WorldInv' /\ Memories'
  BY ToolFrame
<1> QED BY <1>1, <1>2, <1>5, <1>6, <1>7 DEF ToolInv, Ends

\* A step that goes on keeps the calls of the task at hand.
LEMMA GoesOnTools ==
    ASSUME ToolInv, [Next]_vars, GoesOn
    PROVE  ToolInv'
<1>1. PICK t, u, seen, tools : t = todo /\ u = todo' /\ seen = loop.seen /\ tools = world.tools
  OBVIOUS
<1>2. /\ InHand(t, seen, tools) /\ t \in Seq(Range(t)) /\ t # <<>>
      /\ u \in Seq(Range(u))
      /\ \A i \in ActAt(t) : pos > 0 /\ ActOf(MergedTimeline[pos], t[i].id)
  <2>1. InHand(t, seen, tools) /\ t # <<>>
        /\ \A i \in ActAt(t) : pos > 0 /\ ActOf(MergedTimeline[pos], t[i].id)
    BY <1>1 DEF ToolInv, GoesOn
  <2>2. t \in Seq(Range(t))
    BY <2>1 DEF InHand
  <2>3. SessionInv'
    BY ToolFrame
  <2>4. u \in Seq(Range(u))
    BY <1>1, <2>3 DEF SessionInv
  <2> QED BY <2>1, <2>2, <2>4
<1>3. /\ Len(t) \in Nat /\ Len(t) > 0 /\ Head(t) = t[1] /\ Len(Tail(t)) = Len(t) - 1
      /\ Tail(t) \in Seq(Range(Tail(t)))
      /\ \A i \in 1..(Len(t) - 1) : Tail(t)[i] = t[i + 1]
  <2>1. /\ Len(t) \in Nat /\ Len(t) >= 1 /\ Head(t) = t[1] /\ Len(Tail(t)) = Len(t) - 1
        /\ Tail(t) \in Seq(Range(Tail(t)))
        /\ \A i \in 1..(Len(t) - 1) : Tail(t)[i] = t[i + 1]
    BY <1>2, TailFacts
  <2> QED BY <2>1
<1>4. ~Telling(t)
  <2>1. Head(t).for = "tool" => Head(t).op # "observe"
    BY <1>1 DEF GoesOn
  <2>2. 1 \in 1..Len(t)
    BY <1>3
  <2> QED BY <1>2, <1>3, <2>1, <2>2 DEF InHand, Telling
<1>5. loop'.seen = {} /\ loop' \in {loop, NoLoop}
  <2>1. CASE loop' = NoLoop
    BY <2>1 DEF NoLoop
  <2>2. CASE loop' = loop /\ Head(todo).op # "act"
    <3>1. Doing(t) = 1 /\ 1 \notin ActAt(t)
      BY <1>1, <1>3, <1>4, <2>2 DEF Doing, ActAt
    <3>2. seen = {}
      BY <1>2, <3>1 DEF InHand
    <3> QED BY <1>1, <2>2, <3>2
  <2> QED BY <2>1, <2>2 DEF GoesOn
<1>6. PICK d \in Nat : /\ Len(u) = d + (Len(t) - 1)
                       /\ \A i \in 1..Len(u) : i <= d => u[i].op # "act" /\ u[i].for # "tool"
                       /\ \A i \in 1..Len(u) : i > d => u[i] = t[i - d + 1]
  <2>1. CASE u = Tail(t)
    <3>1. Len(u) = 0 + (Len(t) - 1) /\ Len(u) = Len(t) - 1
      BY <1>3, <2>1
    <3>2. \A i \in 1..Len(u) : i > 0 /\ ~(i <= 0) /\ i - 0 + 1 = i + 1 /\ u[i] = t[i + 1]
      BY <1>3, <2>1, <3>1
    <3>3. \A i \in 1..Len(u) : i > 0 => u[i] = t[i - 0 + 1]
      BY <3>2
    <3>4. 0 \in Nat
      OBVIOUS
    <3> QED BY <3>1, <3>2, <3>3, <3>4
  <2>2. CASE \E s : NoTasks(s) /\ u = s \o Tail(t)
    <3>1. PICK s, r : NoTasks(s) /\ r = Tail(t) /\ u = s \o r
      BY <2>2
    <3>2. /\ Len(s) \in Nat /\ Len(r) = Len(t) - 1 /\ Len(u) = Len(s) + Len(r)
          /\ \A i \in 1..Len(s) : u[i] = s[i]
          /\ \A i \in 1..Len(u) : i > Len(s) => i - Len(s) \in 1..Len(r) /\ u[i] = r[i - Len(s)]
      <4>1. s \in Seq(Range(s)) /\ r \in Seq(Range(r)) /\ Len(s) \in Nat
        BY <1>3, <3>1 DEF NoTasks
      <4> QED BY <1>3, <3>1, <4>1, PlainConcat
    <3>3. ASSUME NEW i \in 1..Len(u), i <= Len(s) PROVE u[i].op # "act" /\ u[i].for # "tool"
      <4>1. i \in 1..Len(s)
        BY <1>3, <3>2, <3>3
      <4> QED BY <3>1, <3>2, <4>1 DEF NoTasks
    <3>4. ASSUME NEW i \in 1..Len(u), i > Len(s) PROVE u[i] = t[i - Len(s) + 1]
      <4>1. i - Len(s) \in 1..(Len(t) - 1) /\ u[i] = r[i - Len(s)]
        BY <3>2, <3>4
      <4> QED BY <1>3, <3>1, <4>1
    <3>5. Len(u) = Len(s) + (Len(t) - 1)
      BY <3>2
    <3> QED BY <3>2, <3>3, <3>4, <3>5
  <2> QED BY <1>1, <2>1, <2>2 DEF GoesOn
<1>7. InHand(u, {}, tools)
  BY <1>2, <1>3, <1>4, <1>6, InHandNext
<1>8. \A i \in ActAt(u) : pos > 0 /\ ActOf(MergedTimeline[pos], u[i].id)
  <2> SUFFICES ASSUME NEW i \in ActAt(u) PROVE pos > 0 /\ ActOf(MergedTimeline[pos], u[i].id)
    OBVIOUS
  <2>1. i \in 1..Len(u) /\ u[i].op = "act" /\ Len(u) \in Nat
    BY <1>2 DEF ActAt
  <2>2. i > d
    BY <1>6, <2>1
  <2>3. i - d + 1 \in 1..Len(t) /\ u[i] = t[i - d + 1]
    BY <1>3, <1>6, <2>1, <2>2
  <2>4. i - d + 1 \in ActAt(t)
    BY <2>1, <2>3 DEF ActAt
  <2> QED BY <1>2, <2>3, <2>4
<1>9. valid' /\ stage' # "raised" => Told(tools, u, Shown')
  <2> SUFFICES ASSUME valid' PROVE Told(tools, u, Shown')
    OBVIOUS
  <2>1. valid /\ stage # "raised" /\ Shown \subseteq Shown'
    BY ToolFrame DEF GoesOn
  <2>2. Told(tools, t, Shown)
    BY <1>1, <2>1 DEF ToolInv
  <2> QED BY <1>4, <2>1, <2>2 DEF Told
<1>10. stage' = "running" /\ world' = world /\ ~NextEvent /\ pos' = pos
  <2>1. stage' = "running" /\ world' = world /\ todo # <<>>
    BY DEF GoesOn
  <2>2. ~NextEvent
    BY <2>1 DEF NextEvent
  <2> QED BY <2>1, <2>2, ToolFrame
<1>11. world'.tools = world.tools
  BY <1>10
<1>12. InHand(todo', loop'.seen, world.tools)
  BY <1>1, <1>5, <1>7
<1>13. \A i \in ActAt(todo') : pos' > 0 /\ ActOf(MergedTimeline[pos'], todo'[i].id)
  BY <1>1, <1>8, <1>10
<1>14. valid' /\ stage' # "raised" => Told(world.tools, todo', Shown')
  BY <1>1, <1>9
<1> QED BY <1>5, <1>10, <1>11, <1>12, <1>13, <1>14, KeptTools DEF Ends

\* Nor does a result that is observed make, or lose, a call.
LEMMA TellsTools ==
    ASSUME ToolInv, [Next]_vars, Tells
    PROVE  ToolInv'
<1>1. PICK t, u, seen, tools : t = todo /\ u = todo' /\ seen = loop.seen /\ tools = world.tools
  OBVIOUS
<1>2. /\ InHand(t, seen, tools) /\ t \in Seq(Range(t)) /\ t # <<>> /\ u = Tail(t)
      /\ \A i \in ActAt(t) : pos > 0 /\ ActOf(MergedTimeline[pos], t[i].id)
      /\ stage = "running" /\ stage' = "running" /\ world' = world
      /\ Head(t).for = "tool"
  <2>1. InHand(t, seen, tools) /\ t # <<>> /\ u = Tail(t) /\ Head(t).for = "tool"
        /\ \A i \in ActAt(t) : pos > 0 /\ ActOf(MergedTimeline[pos], t[i].id)
    BY <1>1 DEF ToolInv, Tells
  <2>2. t \in Seq(Range(t))
    BY <2>1 DEF InHand
  <2> QED BY <2>1, <2>2 DEF Tells
<1>3. /\ Len(t) \in Nat /\ Len(t) > 0 /\ Head(t) = t[1] /\ Len(u) = Len(t) - 1 /\ Len(u) \in Nat
      /\ u \in Seq(Range(u))
      /\ \A i \in 1..Len(u) : u[i] = t[i + 1]
  <2>1. /\ Len(t) \in Nat /\ Len(t) >= 1 /\ Head(t) = t[1] /\ Len(u) = Len(t) - 1
        /\ u \in Seq(Range(u))
        /\ \A i \in 1..(Len(t) - 1) : u[i] = t[i + 1]
    BY <1>2, TailFacts
  <2> QED BY <2>1
<1>4. Telling(t)
  BY <1>2, <1>3 DEF Telling
<1>5. InHand(u, seen, tools)
  BY <1>2, <1>3, <1>4, InHandObserved
<1>6. \A i \in ActAt(u) : pos > 0 /\ ActOf(MergedTimeline[pos], u[i].id)
  <2> SUFFICES ASSUME NEW i \in ActAt(u) PROVE pos > 0 /\ ActOf(MergedTimeline[pos], u[i].id)
    OBVIOUS
  <2>1. i \in 1..Len(u) /\ u[i].op = "act"
    BY DEF ActAt
  <2>2. i + 1 \in 1..Len(t) /\ u[i] = t[i + 1]
    BY <1>3, <2>1
  <2>3. i + 1 \in ActAt(t)
    BY <2>1, <2>2 DEF ActAt
  <2> QED BY <1>2, <2>2, <2>3
<1>7. valid' => Told(tools, u, Shown')
  <2> SUFFICES ASSUME valid' PROVE Told(tools, u, Shown')
    OBVIOUS
  <2>1. valid /\ stage # "raised" /\ Shown \subseteq Shown' /\ RunInv /\ Memories
    BY <1>2, ToolFrame DEF ToolInv, SessionInv
  <2>2. Told(tools, t, Shown)
    BY <1>1, <2>1 DEF ToolInv
  <2>3. <<t[1].id, t[1].call>> \in Shown'
    <3>1. ObserveEvent
      BY DEF Tells
    <3>2. <<Head(todo).id, Head(todo).call>> \in Shown'
      BY <2>1, <3>1, ObservedIsShown
    <3> QED BY <1>1, <1>3, <3>2
  <2> QED BY <2>1, <2>2, <2>3 DEF Told
<1>8. loop'.seen = loop.seen /\ loop' = [loop EXCEPT !.turn = @ + 1]
  <2>1. loop = [turn |-> loop.turn, seen |-> loop.seen]
    BY DEF ToolInv
  <2> QED BY <2>1 DEF Tells
<1>9. pos' = pos
  <2>1. ~NextEvent
    BY <1>1, <1>2 DEF NextEvent
  <2> QED BY <2>1, ToolFrame
<1>10. world'.tools = world.tools
  BY <1>2
<1>11. InHand(todo', loop'.seen, world.tools)
  BY <1>1, <1>5, <1>8
<1>12. \A i \in ActAt(todo') : pos' > 0 /\ ActOf(MergedTimeline[pos'], todo'[i].id)
  BY <1>1, <1>6, <1>9
<1>13. valid' /\ stage' # "raised" => Told(world.tools, todo', Shown')
  BY <1>1, <1>7
<1> QED BY <1>2, <1>8, <1>10, <1>11, <1>12, <1>13, KeptTools DEF Ends

\* The next event sets off tasks that have called nothing.
LEMMA EventTools ==
    ASSUME TaskIdsAreOwn, ToolInv, [Next]_vars, NextEvent
    PROVE  ToolInv'
<1>1. PICK u, tools, event :
         /\ u = todo' /\ tools = world.tools /\ event = MergedTimeline[pos + 1]
  OBVIOUS
<1>2. /\ u = StepsOf(event) /\ pos' = pos + 1 /\ pos < Len(MergedTimeline) /\ todo = <<>>
      /\ stage = "running" /\ stage' = "running" /\ loop' = loop /\ world'.tools = tools
      /\ valid' = valid
  <2>1. world = [updates |-> world.updates, tools |-> world.tools]
    BY DEF ToolInv, WorldInv
  <2> QED BY <1>1, <2>1 DEF NextEvent
<1>3. /\ pos \in Nat /\ cell \in Conditions /\ Len(MergedTimeline) \in Nat
      /\ pos + 1 \in 1..Len(MergedTimeline)
  <2>1. pos \in Nat /\ Len(MergedTimeline) \in Nat /\ cell \in Conditions
    BY ToolFrame
  <2> QED BY <1>2, <2>1
<1>4. /\ u \in Seq(Range(u)) /\ ActsOnce(u)
      /\ \A i \in 1..Len(u) : u[i].for # "tool"
      /\ \A i \in ActAt(u) : ActOf(event, u[i].id)
  BY <1>1, <1>2, <1>3, EventTasks
<1>5. \A i \in ActAt(u) : CallsAt(tools, u[i].id) = {}
  <2> SUFFICES ASSUME NEW i \in ActAt(u), NEW j \in CallsAt(tools, u[i].id) PROVE FALSE
    OBVIOUS
  <2>1. j \in 1..Len(tools) /\ tools[j].task = u[i].id
    BY DEF CallsAt
  <2>2. PICK k \in 1..pos : ActOf(MergedTimeline[k], tools[j].task)
    BY <1>1, <2>1 DEF ToolInv
  <2>3. ActOf(MergedTimeline[pos + 1], u[i].id) /\ ActOf(MergedTimeline[k], u[i].id)
    BY <1>1, <1>4, <2>1, <2>2
  <2>4. k \in 1..Len(MergedTimeline) /\ k # pos + 1
    BY <1>3, <2>2
  <2> QED BY <1>3, <2>3, <2>4, TaskOwner
<1>6. InHand(u, {}, tools) /\ ~Telling(u)
  BY <1>4, <1>5, InHandFresh
<1>7. loop.seen = {} /\ ~Telling(<<>>)
  <2>1. PICK t : t = todo
    OBVIOUS
  <2>2. InHand(t, loop.seen, tools) /\ Len(t) = 0
    BY <1>1, <1>2, <2>1 DEF ToolInv
  <2>3. ~Telling(t) /\ ActAt(t) = {}
    BY <2>2 DEF Telling, ActAt
  <2>4. loop.seen = {}
    BY <2>2, <2>3 DEF InHand
  <2> QED BY <1>2, <2>1, <2>3, <2>4
<1>8. valid' => Told(tools, u, Shown')
  <2> SUFFICES ASSUME valid' PROVE Told(tools, u, Shown')
    OBVIOUS
  <2>1. Told(tools, <<>>, Shown) /\ Shown \subseteq Shown'
    BY <1>1, <1>2, ToolFrame DEF ToolInv
  <2> QED BY <1>7, <2>1 DEF Told
<1>9. InHand(todo', loop'.seen, world.tools)
  BY <1>1, <1>2, <1>6, <1>7
<1>10. \A i \in ActAt(todo') : pos' > 0 /\ ActOf(MergedTimeline[pos'], todo'[i].id)
  BY <1>1, <1>2, <1>3, <1>4
<1>11. valid' /\ stage' # "raised" => Told(world.tools, todo', Shown')
  BY <1>1, <1>8
<1>12. world'.tools = world.tools /\ loop' \in {loop, NoLoop}
  BY <1>1, <1>2
<1> QED BY <1>2, <1>9, <1>10, <1>11, <1>12, KeptTools DEF Ends

\* A tool is called once under an id, and its result is the next thing to be observed.
LEMMA CallTools ==
    ASSUME ToolInv, [Next]_vars, NEW id \in ToolCallIds, CallTool(id)
    PROVE  ToolInv'
<1>1. PICK t, u, seen, tools, new, first, x :
         /\ t = todo /\ u = todo' /\ seen = loop.seen /\ tools = world.tools /\ new = world'.tools
         /\ first = [Step("observe", "tool", Head(todo).id) EXCEPT !.call = id]
         /\ x = [task |-> Head(todo).id, call |-> id]
  OBVIOUS
<1>2. /\ stage = "running" /\ stage' = "running" /\ valid' = valid /\ t # <<>> /\ Head(t).op = "act"
      /\ id \notin seen /\ Cardinality(seen \cup {id}) <= MaxToolCalls
      /\ new = Append(tools, x) /\ u = <<first>> \o t
      /\ loop' = [turn |-> loop'.turn, seen |-> loop'.seen] /\ loop'.seen = seen \cup {id}
  <2>1. world = [updates |-> world.updates, tools |-> world.tools]
        /\ loop = [turn |-> loop.turn, seen |-> loop.seen]
    BY DEF ToolInv, WorldInv
  <2>2. new = Append(tools, x)
    BY <1>1, <2>1 DEF CallTool
  <2>3. loop' = [turn |-> loop'.turn, seen |-> loop'.seen] /\ loop'.seen = seen \cup {id}
    BY <1>1, <2>1 DEF CallTool
  <2>4. /\ stage = "running" /\ stage' = "running" /\ valid' = valid /\ t # <<>> /\ Head(t).op = "act"
        /\ id \notin seen /\ Cardinality(seen \cup {id}) <= MaxToolCalls
    BY <1>1 DEF CallTool, Invoking, Unchanged, MayCallTool
  <2>5. u = <<first>> \o t
    BY <1>1 DEF CallTool
  <2> QED BY <2>2, <2>3, <2>4, <2>5
<1>3. /\ InHand(t, seen, tools) /\ t \in Seq(Range(t))
      /\ CallsOnce(tools) /\ tools \in Seq(Range(tools))
      /\ \A i \in ActAt(t) : pos > 0 /\ ActOf(MergedTimeline[pos], t[i].id)
  <2>1. InHand(t, seen, tools) /\ CallsOnce(tools)
        /\ \A i \in ActAt(t) : pos > 0 /\ ActOf(MergedTimeline[pos], t[i].id)
    BY <1>1, <1>2 DEF ToolInv
  <2> QED BY <2>1 DEF InHand, CallsOnce
<1>4. Len(t) \in Nat /\ Len(t) > 0 /\ Head(t) = t[1] /\ 1 \in ActAt(t)
  <2>1. Len(t) \in Nat /\ Len(t) >= 1 /\ Head(t) = t[1]
    BY <1>2, <1>3, TailFacts
  <2> QED BY <1>2, <2>1 DEF ActAt
<1>5. ~Telling(t)
  <2>1. 1 \in 1..Len(t)
    BY <1>4
  <2>2. t[1].op # "observe"
    BY <1>2, <1>4
  <2> QED BY <1>3, <2>1, <2>2 DEF InHand, Telling
<1>6. /\ first.op = "observe" /\ first.for = "tool" /\ first.id = t[1].id /\ first.call = id
      /\ x.task = t[1].id /\ x.call = id
  BY <1>1, <1>4 DEF Step
<1>7. /\ u \in Seq(Range(u)) /\ Len(u) = Len(t) + 1 /\ u[1] = first
      /\ \A i \in 1..Len(u) : i > 1 => i - 1 \in 1..Len(t) /\ u[i] = t[i - 1]
  <2>1. PICK one : one = <<first>>
    OBVIOUS
  <2>2. one \in Seq(Range(one)) /\ Len(one) = 1 /\ one[1] = first
    BY <2>1, OneStep
  <2>3. u = one \o t
    BY <1>2, <2>1
  <2>4. /\ u \in Seq(Range(u)) /\ Len(u) = Len(one) + Len(t)
        /\ \A i \in 1..Len(one) : u[i] = one[i]
        /\ \A i \in 1..Len(u) : i > Len(one) => i - Len(one) \in 1..Len(t)
                                               /\ u[i] = t[i - Len(one)]
    BY <1>3, <2>2, <2>3, PlainConcat
  <2> QED BY <1>4, <2>2, <2>4
<1>8. InHand(u, seen \cup {id}, new)
  <2>1. u[1].op = "observe" /\ u[1].for = "tool" /\ u[1].id = t[1].id
    BY <1>6, <1>7
  <2>2. \A i \in 1..Len(u) : i > 1 => u[i] = t[i - 1]
    BY <1>7
  <2>3. t[1].op = "act"
    BY <1>2, <1>4
  <2>4. /\ InHand(t, seen, tools) /\ tools \in Seq(Range(tools)) /\ ~Telling(t) /\ Len(t) > 0
        /\ id \notin seen /\ x.task = t[1].id /\ x.call = id /\ new = Append(tools, x)
        /\ u \in Seq(Range(u)) /\ Len(u) = Len(t) + 1
    BY <1>2, <1>3, <1>4, <1>5, <1>6, <1>7, Zenon
  <2> QED BY <2>1, <2>2, <2>3, <2>4, InHandCall, Zenon
<1>9. CallsOnce(new)
  <2>1. Doing(t) = 1 /\ IsFiniteSet(seen)
    BY <1>3, <1>5 DEF Doing, InHand
  <2>2. CallIds(tools, t[1].id) = seen /\ Cardinality(CallsAt(tools, t[1].id)) = Cardinality(seen)
    BY <1>3, <1>4, <2>1 DEF InHand
  <2>3. Cardinality(seen \cup {id}) = Cardinality(seen) + 1
    BY <1>2, <2>1, FS_AddElement
  <2>4. x.call \notin CallIds(tools, x.task) /\ Cardinality(CallsAt(tools, x.task)) + 1 <= MaxToolCalls
    BY <1>2, <1>6, <2>2, <2>3
  <2> QED BY <1>2, <1>3, <2>4, CallsOnceMore
<1>10. /\ Len(tools) \in Nat /\ Len(new) = Len(tools) + 1 /\ new[Len(tools) + 1] = x
       /\ \A i \in 1..Len(tools) : new[i] = tools[i]
       /\ \A i \in 1..Len(new) : i \in 1..Len(tools) \/ i = Len(tools) + 1
  <2>1. CallMore(tools, x, new)
    BY <1>2, <1>3, MoreCalls
  <2>2. /\ Len(tools) \in Nat /\ Len(new) = Len(tools) + 1 /\ new[Len(tools) + 1] = x
        /\ \A i \in 1..Len(tools) : new[i] = tools[i]
    BY <2>1 DEF CallMore
  <2> QED BY <2>2
<1>11. pos' = pos
  <2>1. ~NextEvent
    BY <1>1, <1>2 DEF NextEvent
  <2> QED BY <2>1, ToolFrame
<1>12. \A i \in 1..Len(new) : \E k \in 1..pos : ActOf(MergedTimeline[k], new[i].task)
  <2> SUFFICES ASSUME NEW i \in 1..Len(new) PROVE \E k \in 1..pos : ActOf(MergedTimeline[k], new[i].task)
    OBVIOUS
  <2>1. CASE i \in 1..Len(tools)
    <3>1. \E k \in 1..pos : ActOf(MergedTimeline[k], tools[i].task)
      BY <1>1, <2>1 DEF ToolInv
    <3> QED BY <1>10, <2>1, <3>1
  <2>2. CASE i = Len(tools) + 1
    <3>1. pos > 0 /\ ActOf(MergedTimeline[pos], t[1].id) /\ new[i].task = t[1].id
      BY <1>3, <1>4, <1>6, <1>10, <2>2
    <3>2. pos \in Nat
      BY ToolFrame
    <3> QED BY <3>1, <3>2
  <2> QED BY <1>10, <2>1, <2>2
<1>13. \A i \in ActAt(u) : pos > 0 /\ ActOf(MergedTimeline[pos], u[i].id)
  <2> SUFFICES ASSUME NEW i \in ActAt(u) PROVE pos > 0 /\ ActOf(MergedTimeline[pos], u[i].id)
    OBVIOUS
  <2>1. i \in 1..Len(u) /\ u[i].op = "act"
    BY DEF ActAt
  <2>2. i # 1
    BY <1>6, <1>7, <2>1
  <2>3. i - 1 \in 1..Len(t) /\ u[i] = t[i - 1]
    BY <1>4, <1>7, <2>1, <2>2
  <2>4. i - 1 \in ActAt(t)
    BY <2>1, <2>3 DEF ActAt
  <2> QED BY <1>3, <2>3, <2>4
<1>14. valid' => Told(new, u, Shown')
  <2> SUFFICES ASSUME valid', NEW i \in 1..Len(new)
               PROVE  \/ <<new[i].task, new[i].call>> \in Shown'
                      \/ Telling(u) /\ new[i].task = u[1].id /\ new[i].call = u[1].call
    BY DEF Told
  <2>1. Told(tools, t, Shown) /\ Shown \subseteq Shown'
    BY <1>1, <1>2, ToolFrame DEF ToolInv
  <2>2. CASE i \in 1..Len(tools)
    BY <1>5, <1>10, <2>1, <2>2 DEF Told
  <2>3. CASE i = Len(tools) + 1
    <3>1. Telling(u)
      BY <1>4, <1>6, <1>7 DEF Telling
    <3> QED BY <1>6, <1>7, <1>10, <2>3, <3>1
  <2> QED BY <1>10, <2>2, <2>3
<1>15. /\ CallsOnce(world.tools)' /\ InHand(todo, loop.seen, world.tools)'
       /\ (valid => Told(world.tools, todo, Shown))'
  BY <1>1, <1>2, <1>8, <1>9, <1>14
<1>16. \A i \in 1..Len(world'.tools) : \E k \in 1..pos' : ActOf(MergedTimeline[k], world.tools[i].task)'
  BY <1>1, <1>11, <1>12, ToolFrame DEF ActOf
<1>17. \A i \in ActAt(todo') : pos' > 0 /\ ActOf(MergedTimeline[pos], todo[i].id)'
  BY <1>1, <1>11, <1>13, ToolFrame DEF ActOf
<1>18. SessionInv' /\ WorldInv' /\ Memories'
  BY ToolFrame
<1> QED BY <1>2, <1>15, <1>16, <1>17, <1>18 DEF ToolInv

\* A run starts with no task and no call.
LEMMA InitTools == Init => ToolInv
<1> SUFFICES ASSUME Init PROVE ToolInv
  OBVIOUS
<1>1. /\ stage = "describing" /\ todo = <<>> /\ loop = NoLoop /\ pos = 0
      /\ world = [updates |-> <<>>, tools |-> <<>>] /\ agents = <<FreshAgent>>
  BY DEF Init
<1>2. SessionInv /\ WorldInv
  BY SessionInit, InitWorld
<1>3. Memories
  <2>1. Len(agents) = 1 /\ agents[1] = FreshAgent
    BY <1>1
  <2>2. \A k \in 1..Len(agents) : agents[k].memory = <<>>
    BY <2>1 DEF FreshAgent
  <2> QED BY <2>2, NoTodo DEF Memories
<1>4. world.tools = <<>> /\ Len(<<>>) = 0 /\ 1..0 = {}
  BY <1>1
<1>5. CallsOnce(world.tools)
  BY <1>4, NoTodo DEF CallsOnce
<1>6. loop = [turn |-> loop.turn, seen |-> loop.seen] /\ loop.seen = {}
  BY <1>1 DEF NoLoop
<1>7. \A i \in 1..Len(world.tools) : \E k \in 1..pos : ActOf(MergedTimeline[k], world.tools[i].task)
  BY <1>4
<1>8. Told(world.tools, todo, Shown)
  BY <1>4 DEF Told
<1> QED BY <1>1, <1>2, <1>3, <1>4, <1>5, <1>6, <1>7, <1>8 DEF ToolInv

\* A run begins with its first reset.
LEMMA BeginsTools ==
    ASSUME ToolInv, [Next]_vars, Begins
    PROVE  ToolInv'
<1>1. PICK a, u : a = Step("reset", "run", "reset") /\ u = <<a>>
  OBVIOUS
<1>2. /\ stage' = "running" /\ loop' = loop /\ world' = world /\ todo' = u
      /\ loop.seen = {} /\ world.tools = <<>>
  BY <1>1 DEF Begins, ToolInv
<1>3. a.op # "act" /\ a.for # "tool"
  BY <1>1 DEF Step
<1>4. u \in Seq(Range(u)) /\ Len(u) = 1 /\ u[1] = a
  BY <1>1, OneStep
<1>5. \A i \in 1..Len(u) : u[i].op # "act" /\ u[i].for # "tool"
  BY <1>3, <1>4
<1>6. ActAt(u) = {}
  BY <1>5 DEF ActAt
<1>7. InHand(u, {}, <<>>)
  BY <1>4, <1>5, <1>6, InHandFresh DEF ActsOnce
<1>8. Told(<<>>, u, Shown')
  <2>1. Len(<<>>) = 0 /\ 1..0 = {}
    OBVIOUS
  <2> QED BY <2>1 DEF Told
<1>9. world'.tools = world.tools
  BY <1>2
<1>10. InHand(todo', loop'.seen, world.tools)
  BY <1>2, <1>7
<1>11. \A i \in ActAt(todo') : pos' > 0 /\ ActOf(MergedTimeline[pos'], todo'[i].id)
  BY <1>2, <1>6
<1>12. Told(world.tools, todo', Shown')
  BY <1>2, <1>8
<1> QED BY <1>2, <1>9, <1>10, <1>11, <1>12, KeptTools DEF Ends

\* Calls are as they were where the list is.
LEMMA StaysTools ==
    ASSUME ToolInv, [Next]_vars, Stays \/ Leaves, ~NextEvent
    PROVE  ToolInv'
<1>1. loop' \in {loop, NoLoop} /\ world' = world
  BY DEF Stays, Leaves
<1>2. world'.tools = world.tools
  BY <1>1
<1>3. Shown \subseteq Shown' /\ (valid' => valid) /\ (stage = "raised" => stage' = "raised")
  BY ToolFrame
<1>4. ASSUME valid', stage' # "raised" PROVE todo' = todo /\ (Leaves => todo = <<>>)
  <2>1. valid /\ stage # "raised"
    BY <1>3, <1>4
  <2>2. CASE Stays
    <3>1. todo' = todo /\ stage' = stage
      BY <2>2 DEF Stays
    <3>2. Leaves => todo = <<>>
      BY <1>4, <2>1, <3>1 DEF Leaves, ToolInv, Ends
    <3> QED BY <3>1, <3>2
  <2>3. CASE Leaves
    BY <1>4, <2>1, <2>3 DEF Leaves, ToolInv, Ends
  <2> QED BY <2>2, <2>3
<1>5. valid' /\ stage' # "raised" => Told(world.tools, todo', Shown')
  <2> SUFFICES ASSUME valid', stage' # "raised" PROVE Told(world.tools, todo', Shown')
    OBVIOUS
  <2>1. Told(world.tools, todo, Shown) /\ todo' = todo
    BY <1>3, <1>4 DEF ToolInv
  <2> QED BY <1>3, <2>1 DEF Told
<1>6. valid' /\ stage' \in Ends => todo' = <<>>
  <2>1. CASE Stays
    BY <1>3, <2>1 DEF Stays, ToolInv, Ends
  <2>2. CASE Leaves
    BY <1>4, <2>2 DEF Ends
  <2> QED BY <2>1, <2>2
<1>7. stage' = "describing" => todo' = <<>> /\ loop'.seen = {} /\ world'.tools = <<>>
  BY <1>1 DEF Stays, Leaves, ToolInv
<1>8. stage' = "running" => todo' = todo /\ loop' = loop /\ stage = "running" /\ pos' = pos
  BY ToolFrame DEF Stays, Leaves
<1>9. stage' = "running" => InHand(todo', loop'.seen, world.tools)
  BY <1>8 DEF ToolInv
<1>10. stage' = "running" =>
          \A i \in ActAt(todo') : pos' > 0 /\ ActOf(MergedTimeline[pos'], todo'[i].id)
  BY <1>8 DEF ToolInv
<1> QED BY <1>1, <1>2, <1>5, <1>6, <1>7, <1>9, <1>10, KeptTools

\* Every step keeps the calls.
LEMMA StepTools == TaskIdsAreOwn /\ ToolInv /\ [Next]_vars => ToolInv'
<1> SUFFICES ASSUME TaskIdsAreOwn, ToolInv, [Next]_vars PROVE ToolInv'
  OBVIOUS
<1>1. CASE NextEvent
  BY <1>1, EventTools
<1>2. CASE Begins
  BY <1>2, BeginsTools
<1>3. CASE (Stays \/ Leaves) /\ ~NextEvent
  BY <1>3, StaysTools
<1>4. CASE GoesOn
  BY <1>4, GoesOnTools
<1>5. CASE Tells
  BY <1>5, TellsTools
<1>6. CASE \E id \in ToolCallIds : CallTool(id)
  BY <1>6, CallTools
<1> QED BY <1>1, <1>2, <1>3, <1>4, <1>5, <1>6, TaskStep

\* Where the identifiers of acted Probes and lived tasks are apart, a task executes each
\* tool_call_id once and max_tool_calls at most, and the Agent of a valid run has been
\* shown the result of every call, whatever is retried, misbehaves or is given up between.
THEOREM ToolCallsAreKept == TaskIdsAreOwn => (Spec => []ToolCallsAreExperienced)
<1>1. ToolInv => ToolCallsAreExperienced
  <2> SUFFICES ASSUME ToolInv PROVE ToolCallsAreExperienced
    OBVIOUS
  <2>1. PICK tools : tools = world.tools
    OBVIOUS
  <2>2. CallsOnce(tools) /\ DOMAIN tools = 1..Len(tools)
    <3>1. CallsOnce(tools)
      BY <2>1 DEF ToolInv
    <3>2. tools \in Seq(Range(tools))
      BY <3>1 DEF CallsOnce
    <3> QED BY <3>1, <3>2
  <2>3. \A i, j \in DOMAIN tools : tools[i] = tools[j] => i = j
    BY <2>2 DEF CallsOnce
  <2>4. \A i \in DOMAIN tools :
           Cardinality({j \in DOMAIN tools : tools[j].task = tools[i].task}) <= MaxToolCalls
    BY <2>2 DEF CallsOnce, CallsAt
  <2>5. DOMAIN agents = 1..Len(agents)
    BY DEF ToolInv, SessionInv, RunInv, AreAgents
  <2>6. ASSUME run # Nothing, run.valid, NEW i \in DOMAIN tools
        PROVE  <<tools[i].task, tools[i].call>> \in Shown
    <3>1. stage = "returned" /\ valid /\ todo = <<>>
      BY <2>6 DEF ToolInv, WorldInv
    <3>2. Told(tools, <<>>, Shown)
      BY <2>1, <3>1 DEF ToolInv
    <3>3. ~Telling(<<>>)
      BY DEF Telling
    <3> QED BY <2>2, <2>6, <3>2, <3>3 DEF Told
  <2> QED BY <2>1, <2>3, <2>4, <2>5, <2>6 DEF ToolCallsAreExperienced, Shown, ShownTo
<1> SUFFICES ASSUME TaskIdsAreOwn PROVE Spec => []ToolCallsAreExperienced
  OBVIOUS
<1>2. Init => ToolInv
  BY InitTools
<1>3. ToolInv /\ [Next]_vars => ToolInv'
  BY StepTools
<1> QED BY <1>1, <1>2, <1>3, PTL DEF Spec

============================================================================
