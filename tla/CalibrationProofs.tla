-------------------------- MODULE CalibrationProofs -------------------------
(***************************************************************************)
(* Theorems about the calibration of Calibration, for any Templates,       *)
(* seeds, configurations, number of faults and thresholds of instances.    *)
(***************************************************************************)
EXTENDS Calibration, FiniteSets, Integers, SequencesExt, SequenceTheorems,
        FiniteSetTheorems, WellFoundedInduction, TLAPS

----------------------------------------------------------------------------
(* What FlattenSeq makes of a sequence of sequences *)

\* The least-number principle.
LEMMA LeastNumber ==
    ASSUME NEW T, T \subseteq Nat, T # {}
    PROVE  \E x \in T : \A y \in T : x <= y
<1> DEFINE R == {ss \in Nat \X Nat : ss[1] < ss[2]}
<1>1. IsWellFoundedOn(R, Nat)
  BY NatLessThanWellFounded DEF OpToRel
<1> HIDE DEF R
<1>2. PICK x \in T : \A y \in T : ~(<<y, x>> \in R)
  BY <1>1, WFMin
<1>3. \A y \in T : ~(y < x)
  BY <1>2 DEF R
<1> QED BY <1>3

\* What holds of 0 and of the successor of what it holds of, holds of every number.
LEMMA NatSetInduction ==
    ASSUME NEW N, N \subseteq Nat, 0 \in N, \A n \in N : n + 1 \in N
    PROVE  N = Nat
<1> SUFFICES ASSUME Nat \ N # {} PROVE FALSE
  OBVIOUS
<1>1. PICK x \in Nat \ N : \A y \in Nat \ N : x <= y
  BY LeastNumber
<1>2. x - 1 \in N
  BY <1>1
<1> QED BY <1>1, <1>2

\* The recursive function of FlattenSeq, up to n.
IsFlatten(s, n, f) == f = [i \in 1..n |-> IF i = 1 THEN s[i] ELSE f[i - 1] \o s[i]]

\* There is such a function for every sequence.
LEMMA FlattenExists ==
    ASSUME NEW s, NEW n \in Nat
    PROVE  \E f : IsFlatten(s, n, f)
<1> DEFINE N == {m \in Nat : \E f : IsFlatten(s, m, f)}
<1>1. 0 \in N
  <2>1. IsFlatten(s, 0, <<>>)
    BY DEF IsFlatten
  <2> QED BY <2>1
<1>2. ASSUME NEW m \in N PROVE m + 1 \in N
  <2>1. PICK f : IsFlatten(s, m, f)
    OBVIOUS
  <2> DEFINE g == [i \in 1..(m + 1) |-> IF i = m + 1
                                       THEN IF i = 1 THEN s[i] ELSE f[i - 1] \o s[i]
                                       ELSE f[i]]
             h == [i \in 1..(m + 1) |-> IF i = 1 THEN s[i] ELSE g[i - 1] \o s[i]]
  <2>2. \A i \in 1..m : f[i] = IF i = 1 THEN s[i] ELSE f[i - 1] \o s[i]
    BY <2>1 DEF IsFlatten
  <2>3. \A i \in 1..(m + 1) : g[i] = h[i]
    <3> TAKE i \in 1..(m + 1)
    <3>1. CASE i = m + 1
      BY <3>1, <2>2
    <3>2. CASE i # m + 1
      BY <3>2, <2>2
    <3> QED BY <3>1, <3>2
  <2>4. g = h
    BY <2>3
  <2>5. IsFlatten(s, m + 1, g)
    BY <2>4 DEF IsFlatten
  <2> QED BY <2>5
<1> HIDE DEF N
<1>3. N = Nat
  BY <1>1, <1>2, NatSetInduction DEF N
<1> QED BY <1>3 DEF N

\* FlattenSeq is what its recursion says.
LEMMA FlattenIs ==
    ASSUME NEW s, Len(s) \in Nat, Len(s) # 0
    PROVE  \E f : IsFlatten(s, Len(s), f) /\ FlattenSeq(s) = f[Len(s)]
<1> DEFINE f == CHOOSE g : IsFlatten(s, Len(s), g)
<1>1. IsFlatten(s, Len(s), f)
  BY FlattenExists
<1>2. FlattenSeq(s) = f[Len(s)]
  BY DEF FlattenSeq, IsFlatten
<1> QED BY <1>1, <1>2

\* It holds what the sequences hold, and nothing else.
LEMMA FlattenRange ==
    ASSUME NEW S, NEW s \in Seq(Seq(S))
    PROVE  /\ FlattenSeq(s) \in Seq(S)
           /\ Range(FlattenSeq(s)) = UNION {Range(s[i]) : i \in DOMAIN s}
<1>1. CASE s = <<>>
  <2>1. Len(s) = 0 /\ DOMAIN s = {}
    BY <1>1
  <2>2. FlattenSeq(s) = <<>>
    BY <1>1, <2>1 DEF FlattenSeq
  <2> QED BY <2>1, <2>2 DEF Range
<1>2. CASE s # <<>>
  <2>1. Len(s) \in Nat /\ Len(s) # 0 /\ DOMAIN s = 1..Len(s)
    BY <1>2
  <2>2. PICK f : IsFlatten(s, Len(s), f) /\ FlattenSeq(s) = f[Len(s)]
    BY <2>1, FlattenIs
  <2> DEFINE Upto(n) == UNION {Range(s[i]) : i \in 1..n}
             N == {n \in Nat : n \in 1..Len(s) => f[n] \in Seq(S) /\ Range(f[n]) = Upto(n)}
  <2>3. 0 \in N
    <3>1. 0 \notin 1..Len(s)
      BY <2>1
    <3> QED BY <3>1
  <2>4. /\ \A i \in 1..Len(s) : i = 1 => f[i] = s[i]
        /\ \A i \in 1..Len(s) : i # 1 => f[i] = f[i - 1] \o s[i]
    BY <2>2 DEF IsFlatten
  <2>5. ASSUME NEW n \in N PROVE n + 1 \in N
    <3> SUFFICES ASSUME n + 1 \in 1..Len(s)
                 PROVE  f[n + 1] \in Seq(S) /\ Range(f[n + 1]) = Upto(n + 1)
      OBVIOUS
    <3>1. s[n + 1] \in Seq(S) /\ n \in Nat
      OBVIOUS
    <3>2. CASE n = 0
      <4>1. f[1] = s[1]
        BY <2>1, <2>4
      <4>2. 1..1 = {1}
        OBVIOUS
      <4>3. Upto(1) = Range(s[1])
        BY <4>2
      <4> QED BY <3>1, <3>2, <4>1, <4>3
    <3>3. CASE n # 0
      <4>1. n \in 1..Len(s) /\ n + 1 # 1 /\ n + 1 - 1 = n
        BY <3>1, <3>3
      <4>2. f[n + 1] = f[n] \o s[n + 1]
        <5>1. PICK i \in 1..Len(s) : i = n + 1
          OBVIOUS
        <5>2. i # 1 /\ i - 1 = n
          BY <4>1, <5>1
        <5>3. f[i] = f[i - 1] \o s[i]
          BY <2>4, <5>2, Zenon
        <5> QED BY <5>1, <5>2, <5>3, Zenon
      <4>3. f[n] \in Seq(S) /\ Range(f[n]) = Upto(n)
        BY <4>1
      <4>4. f[n + 1] \in Seq(S) /\ Range(f[n + 1]) = Range(f[n]) \cup Range(s[n + 1])
        BY <3>1, <4>2, <4>3, ConcatProperties, RangeConcatenation, SMTT(60)
      <4>5. 1..(n + 1) = 1..n \cup {n + 1}
        BY <3>1
      <4>6. Upto(n + 1) = Upto(n) \cup Range(s[n + 1])
        BY <4>5, Zenon
      <4> QED BY <4>3, <4>4, <4>6, Zenon
    <3> QED BY <3>2, <3>3
  <2> HIDE DEF N
  <2>6. N = Nat
    BY <2>3, <2>5, NatSetInduction DEF N
  <2>7. f[Len(s)] \in Seq(S) /\ Range(f[Len(s)]) = Upto(Len(s))
    <3>1. Len(s) \in N /\ Len(s) \in 1..Len(s)
      BY <2>1, <2>6
    <3> QED BY <3>1 DEF N
  <2> QED BY <2>1, <2>2, <2>7, Zenon
<1> QED BY <1>1, <1>2

----------------------------------------------------------------------------
(* The report and its verifier *)

\* The report of a finished experiment is the one its state makes.
ReportInv ==
    /\ cfg \in Configs
    /\ recorders \in [Arms -> Recorder]
    /\ preflight \in BOOLEAN \cup {None}
    /\ report # NoReport \/ edited => plan = <<>> /\ preflight # None
    /\ report # NoReport /\ ~edited => report = ReportOf
    /\ edited => report \in Flips(ReportOf) \cup {ReportOf}

LEMMA ReportInit == Init => ReportInv
BY DEF Init, ReportInv, Recorder

\* An experiment that has come to its end stays as it is, and so does what is made of it.
AtRest == UNCHANGED <<cfg, preflight, results, recorders>>

LEMMA RestingSums ==
    ASSUME AtRest
    PROVE  /\ \A jobs : SumOf(jobs)' = SumOf(jobs)
           /\ \A s, t, arm : RunsOf(s, t, arm)' = RunsOf(s, t, arm)
<1>1. ASSUME NEW jobs PROVE SumOf(jobs)' = SumOf(jobs)
  BY DEF AtRest, SumOf, MapThenSumSet, MapThenFoldSet
<1>2. ASSUME NEW s, NEW t, NEW arm PROVE RunsOf(s, t, arm)' = RunsOf(s, t, arm)
  BY DEF AtRest, RunsOf
<1> QED BY <1>1, <1>2

LEMMA RestingMeans ==
    ASSUME AtRest
    PROVE  \A s, t, arm : MeanOf(RunsOf(s, t, arm))' = MeanOf(RunsOf(s, t, arm))
BY RestingSums DEF MeanOf

LEMMA RestingPairs ==
    ASSUME AtRest
    PROVE  /\ \A u : FullOf(u)' = FullOf(u)
           /\ \A u, a : PairValid(u, a)' <=> PairValid(u, a)
           /\ \A u, a : Effect(u, a)' = Effect(u, a)
<1>1. ASSUME NEW u PROVE FullOf(u)' = FullOf(u)
  BY DEF AtRest, FullOf
<1>2. ASSUME NEW u, NEW a PROVE PairValid(u, a)' <=> PairValid(u, a)
  BY <1>1 DEF AtRest, PairValid, Valid
<1>3. ASSUME NEW u, NEW a PROVE Effect(u, a)' = Effect(u, a)
  BY <1>1 DEF AtRest, Effect
<1> QED BY <1>1, <1>2, <1>3

LEMMA RestingGates ==
    ASSUME AtRest
    PROVE  \A t, a, threshold : CausalGate(t, a, threshold)' = CausalGate(t, a, threshold)
<1>1. ASSUME NEW units, NEW a PROVE SumOfEffects(units, a)' = SumOfEffects(units, a)
  BY DEF AtRest, SumOfEffects, MapThenSumSet, MapThenFoldSet, Effect, FullOf
<1> SUFFICES ASSUME NEW t, NEW a, NEW threshold
             PROVE  CausalGate(t, a, threshold)' = CausalGate(t, a, threshold)
  OBVIOUS
<1> DEFINE units == {u \in Range(CausalUnits) : u.template = t}
           measured == {u \in units : PairValid(u, a)}
           complete == \A u \in units : \A b \in Range(Ablations) : PairValid(u, b)
<1>2. measured' = measured /\ (complete' <=> complete)
  BY RestingPairs
<1>3. SumOfEffects(measured, a)' = SumOfEffects(measured, a)
  BY <1>1, <1>2
<1> QED BY <1>2, <1>3 DEF CausalGate

LEMMA RestingCards ==
    ASSUME AtRest
    PROVE  \A t : Card(t)' = Card(t)
BY RestingMeans, RestingGates DEF AtRest, Card, FullReference

\* The parts of a report.
Cards == [t \in Range(Templates) |-> Card(t)]
Passed == Cardinality({t \in Range(Templates) : Admitted(Cards[t])})
Telemetry == [b \in Range(Conditions) |-> recorders[b]]
Reference == IF cfg.reference THEN recorders["reference"] ELSE None
Audited == {recorders[a] : a \in AuditedRecorders}
Complete == Untruncated(cfg.bounded, Reference, Telemetry)
Closed == AuditedRuns # {} /\ \A j \in AuditedRuns : Valid(j)
TheAudit == Audit(Audited, preflight, Balanced, Paired, Complete, Closed)
Eligible == ~cfg.stub /\ TheAudit.valid /\ Passed = Len(Templates) /\ cfg.purpose = "full"

TheReport ==
               [bounded |-> cfg.bounded, purpose |-> cfg.purpose,
                digest |-> <<cfg.bounded, cfg.purpose>>, stub |-> cfg.stub,
                preflight |-> preflight, balanced |-> Balanced, paired |-> Paired,
                telemetry |-> Telemetry, reference |-> Reference, audit |-> TheAudit,
                cards |-> Cards, templates |-> Len(Templates), admitted |-> Passed,
                gate |-> [eligible |-> Eligible, non_stub |-> ~cfg.stub,
                          fairness |-> TheAudit.valid, total |-> Len(Templates),
                          passed |-> Passed, all |-> Passed = Len(Templates)],
                calibration |-> Eligible]

LEMMA ReportParts == ReportOf = TheReport /\ ReportOf' = TheReport'
BY DEF ReportOf, TheReport, Cards, Passed, Telemetry, Reference, Audited, Complete, Closed, TheAudit, Eligible

LEMMA RestingReport ==
    ASSUME AtRest
    PROVE  ReportOf' = ReportOf
<1>1. Paired' <=> Paired
  BY DEF AtRest, Paired, AuditedRuns, PutProbes
<1>2. Closed' <=> Closed
  BY DEF AtRest, Closed, AuditedRuns, Valid
<1>3. Audited' = Audited
  BY DEF AtRest, Audited, AuditedRecorders
<1>4. Cards' = Cards /\ Passed' = Passed
  <2>1. Cards' = Cards
    BY RestingCards DEF Cards
  <2> QED BY <2>1 DEF Passed, Admitted
<1>5. Telemetry' = Telemetry /\ Reference' = Reference
  BY DEF AtRest, Telemetry, Reference
<1>6. Complete' <=> Complete
  BY <1>5 DEF AtRest, Complete, Untruncated
<1>7. TheAudit' = TheAudit
  BY <1>1, <1>2, <1>3, <1>6 DEF AtRest, TheAudit, Audit
<1>8. Eligible' <=> Eligible
  BY <1>4, <1>7 DEF AtRest, Eligible
<1> QED BY <1>1, <1>4, <1>5, <1>7, <1>8, ReportParts, ZenonT(60) DEF AtRest, TheReport

\* A run is seen by the recorder of its arm, and by no other.
LEMMA RecordersSee ==
    ASSUME NEW outcome, Execute(outcome), recorders \in [Arms -> Recorder]
    PROVE  /\ recorders' \in [Arms -> Recorder]
           /\ \A b \in Arms : recorders[b].errors => recorders'[b].errors
           /\ \A b \in Arms : b = Head(plan).arm /\ outcome = "error" => recorders'[b].errors
<1>1. PICK a : a = Head(plan).arm
  OBVIOUS
<1>2. recorders' = [recorders EXCEPT ![a].calls = TRUE,
                                     ![a].errors = @ \/ outcome = "error",
                                     ![a].truncated = @ \/ outcome = "truncated"]
  BY <1>1 DEF Execute
<1>3. recorders' = [b \in Arms |-> IF b = a
                                  THEN [recorders[b] EXCEPT !.calls = TRUE,
                                           !.errors = @ \/ outcome = "error",
                                           !.truncated = @ \/ outcome = "truncated"]
                                  ELSE recorders[b]]
  BY <1>2, Zenon
<1>4. \A r \in Recorder :
          LET q == [r EXCEPT !.calls = TRUE, !.errors = @ \/ outcome = "error",
                             !.truncated = @ \/ outcome = "truncated"]
          IN  q \in Recorder /\ (q.errors <=> r.errors \/ outcome = "error")
  BY DEF Recorder
<1>5. ASSUME NEW b \in Arms
      PROVE  /\ recorders'[b] \in Recorder
             /\ recorders[b].errors => recorders'[b].errors
             /\ b = a /\ outcome = "error" => recorders'[b].errors
  <2>1. PICK r \in Recorder : r = recorders[b]
    OBVIOUS
  <2>2. CASE b = a
    <3>1. recorders'[b] = [recorders[b] EXCEPT !.calls = TRUE, !.errors = @ \/ outcome = "error",
                                               !.truncated = @ \/ outcome = "truncated"]
      BY <1>3, <2>2, Zenon
    <3>2. PICK q : q = recorders'[b]
      OBVIOUS
    <3>3. q = [r EXCEPT !.calls = TRUE, !.errors = @ \/ outcome = "error",
                        !.truncated = @ \/ outcome = "truncated"]
      BY <2>1, <3>1, <3>2, Zenon
    <3>4. q \in Recorder /\ (q.errors <=> r.errors \/ outcome = "error")
      BY <1>4, <3>3, Zenon
    <3> QED BY <2>1, <3>2, <3>4, Zenon
  <2>3. CASE b # a
    BY <1>3, <2>1, <2>3, Zenon
  <2> QED BY <2>2, <2>3
<1>6. recorders' = [b \in Arms |-> recorders'[b]]
  BY <1>3, Zenon
<1> QED BY <1>1, <1>5, <1>6

LEMMA StepReport == ReportInv /\ [Next]_vars => ReportInv'
<1> SUFFICES ASSUME ReportInv, [Next]_vars PROVE ReportInv'
  OBVIOUS
<1>1. ASSUME UNCHANGED <<cfg, preflight, plan, results, recorders>>,
             report' # NoReport \/ edited' => plan = <<>> /\ preflight # None,
             report' # NoReport /\ ~edited' => report' = ReportOf,
             edited' => report' \in Flips(ReportOf) \cup {ReportOf}
      PROVE  ReportInv'
  <2>1. ReportOf' = ReportOf
    BY <1>1, RestingReport DEF AtRest
  <2>2. Flips(ReportOf)' = Flips(ReportOf)
    BY <2>1 DEF Flips
  <2> QED BY <1>1, <2>1, <2>2 DEF ReportInv
<1>2. CASE Preflight
  <2>1. preflight = None /\ preflight' \in BOOLEAN
        /\ UNCHANGED <<cfg, plan, results, recorders, report, edited>>
    BY <1>2 DEF Preflight
  <2> QED BY <2>1 DEF ReportInv
<1>3. ASSUME NEW outcome, Execute(outcome) PROVE ReportInv'
  <2>1. plan # <<>> /\ UNCHANGED <<cfg, preflight, report, edited>>
    BY <1>3 DEF Execute
  <2>2. report = NoReport /\ ~edited
    BY <2>1 DEF ReportInv
  <2>3. recorders' \in [Arms -> Recorder]
    BY <1>3, RecordersSee DEF ReportInv
  <2> QED BY <2>1, <2>2, <2>3 DEF ReportInv
<1>4. CASE WriteReport
  BY <1>1, <1>4 DEF WriteReport, ReportInv
<1>5. CASE Edit
  BY <1>1, <1>5 DEF Edit, ReportInv
<1>6. CASE UNCHANGED vars
  BY <1>1, <1>6 DEF vars, ReportInv
<1> QED BY <1>2, <1>3, <1>4, <1>5, <1>6 DEF Next

\* The Templates are counted by their cards.
LEMMA TemplatesCounted ==
    /\ IsFiniteSet(Range(Templates)) /\ Cardinality(Range(Templates)) = Len(Templates)
    /\ Len(Templates) \in Nat /\ Len(Templates) > 0
<1> DEFINE n == Len(Templates)
<1>1. n \in Nat /\ n > 0 /\ Templates \in [1..n -> Range(Templates)] /\ DOMAIN Templates = 1..n
  BY CalibrationAssumption
<1>2. Templates \in Surjection(1..n, Range(Templates))
  BY <1>1 DEF Surjection, Range
<1>3. Templates \in Injection(1..n, Range(Templates))
  BY <1>1, CalibrationAssumption DEF Injection, IsInjective
<1>4. IsFiniteSet(1..n) /\ Cardinality(1..n) = n
  BY <1>1, FS_Interval
<1> QED BY <1>1, <1>2, <1>3, <1>4, FS_Surjection

\* What the verifier rebuilds from the report is what the harness made.
LEMMA ReportVerifies ==
    ASSUME ReportInv, preflight # None
    PROVE  Verify(ReportOf) /\ ReportOf.gate.eligible \in BOOLEAN
<1> DEFINE R == ReportOf
<1>1. /\ R.bounded = cfg.bounded /\ R.purpose = cfg.purpose
      /\ R.digest = <<cfg.bounded, cfg.purpose>> /\ R.stub = cfg.stub
      /\ R.preflight = preflight /\ R.balanced = Balanced /\ R.paired = Paired
      /\ R.telemetry = Telemetry /\ R.reference = Reference /\ R.audit = TheAudit
      /\ R.cards = Cards /\ R.templates = Len(Templates) /\ R.admitted = Passed
      /\ R.calibration = Eligible
      /\ R.gate = [eligible |-> Eligible, non_stub |-> ~cfg.stub,
                   fairness |-> TheAudit.valid, total |-> Len(Templates),
                   passed |-> Passed, all |-> Passed = Len(Templates)]
  BY ReportParts DEF TheReport
<1>2. cfg.bounded \in BOOLEAN /\ cfg.reference \in BOOLEAN /\ cfg.stub \in BOOLEAN
      /\ preflight \in BOOLEAN
  BY CalibrationAssumption DEF ReportInv
<1>3. recorders["reference"] # None
  BY CalibrationAssumption DEF ReportInv, Arms
<1>4. Range(Telemetry) \cup (IF cfg.bounded /\ Reference # None THEN {Reference} ELSE {}) = Audited
  <2>1. Range(Telemetry) = {recorders[b] : b \in Range(Conditions)}
    BY DEF Telemetry, Range
  <2>2. CASE cfg.bounded /\ cfg.reference
    <3>1. Reference = recorders["reference"] /\ Reference # None
      BY <1>3, <2>2 DEF Reference
    <3>2. AuditedRecorders = Range(Conditions) \cup {"reference"}
      BY <2>2 DEF AuditedRecorders
    <3>3. Audited = {recorders[b] : b \in Range(Conditions)} \cup {recorders["reference"]}
      <4> DEFINE A == Range(Conditions)
      <4>1. Audited = {recorders[b] : b \in A \cup {"reference"}}
        BY <3>2 DEF Audited
      <4> HIDE DEF A
      <4>2. Audited = {recorders[b] : b \in A} \cup {recorders["reference"]}
        BY <4>1
      <4> QED BY <4>2 DEF A
    <3>4. Audited = Range(Telemetry) \cup {Reference}
      BY <2>1, <3>1, <3>3
    <3>5. (IF cfg.bounded /\ Reference # None THEN {Reference} ELSE {}) = {Reference}
      BY <2>2, <3>1
    <3> QED BY <3>4, <3>5
  <2>3. CASE ~(cfg.bounded /\ cfg.reference)
    <3>1. cfg.bounded => Reference = None
      BY <1>2, <2>3 DEF Reference
    <3>2. AuditedRecorders = Range(Conditions)
      BY <2>3 DEF AuditedRecorders
    <3>3. Audited = Range(Telemetry)
      BY <2>1, <3>2 DEF Audited
    <3>4. (IF cfg.bounded /\ Reference # None THEN {Reference} ELSE {}) = {}
      BY <3>1
    <3> QED BY <3>3, <3>4
  <2> QED BY <2>2, <2>3
<1>5. /\ TheAudit.checks.lifecycle = Closed
      /\ TheAudit.valid = \A c \in DOMAIN TheAudit.checks : TheAudit.checks[c]
      /\ TheAudit.valid \in BOOLEAN
  <2>1. Closed \in BOOLEAN
    BY DEF Closed
  <2> QED BY <2>1 DEF TheAudit, Audit
<1>6. DOMAIN Cards = Range(Templates)
  BY DEF Cards
<1> HIDE DEF R
<1>7. Audit(Range(R.telemetry) \cup
              (IF R.bounded /\ R.reference # None THEN {R.reference} ELSE {}),
            R.preflight, R.balanced, R.paired,
            Untruncated(R.bounded, R.reference, R.telemetry), R.audit.checks.lifecycle)
      = TheAudit
  BY <1>1, <1>4, <1>5, ZenonT(60) DEF TheAudit, Complete
<1> DEFINE rebuilt == Audit(Range(R.telemetry) \cup
                            (IF R.bounded /\ R.reference # None THEN {R.reference} ELSE {}),
                          R.preflight, R.balanced, R.paired,
                          Untruncated(R.bounded, R.reference, R.telemetry),
                          R.audit.checks.lifecycle)
           passed == Cardinality({t \in DOMAIN R.cards : Admitted(R.cards[t])})
           total == Cardinality(DOMAIN R.cards)
           eligible == /\ ~R.stub /\ rebuilt.valid /\ R.purpose = "full"
                       /\ total > 0 /\ passed = total
<1>8. Cardinality({t \in DOMAIN R.cards : Admitted(R.cards[t])}) = Passed
      /\ Cardinality(DOMAIN R.cards) = Len(Templates)
  BY <1>1, <1>6, TemplatesCounted DEF Passed
<1>9. Eligible = (~R.stub /\ TheAudit.valid /\ R.purpose = "full"
                    /\ Len(Templates) > 0 /\ Passed = Len(Templates))
  BY <1>1, TemplatesCounted DEF Eligible
<1>10. Eligible \in BOOLEAN
  BY DEF Eligible
<1>11. rebuilt = TheAudit /\ passed = Passed /\ total = Len(Templates)
  BY <1>7, <1>8
<1>12. eligible = Eligible /\ total > 0
  BY <1>9, <1>11, TemplatesCounted
<1>13. /\ R.gate.eligible = Eligible /\ R.gate.non_stub = ~R.stub
       /\ R.gate.fairness = R.audit.valid /\ R.gate.total = total
       /\ R.gate.passed = passed /\ R.gate.all = (passed = total)
  BY <1>1, <1>11
<1>14. /\ R.digest = <<R.bounded, R.purpose>> /\ R.audit = rebuilt
       /\ R.templates = total /\ R.admitted = passed /\ R.calibration = Eligible
       /\ R.audit.valid = \A c \in DOMAIN R.audit.checks : R.audit.checks[c]
  BY <1>1, <1>5, <1>11
<1>15. Verify(R) <=>
        /\ R.digest = <<R.bounded, R.purpose>>
        /\ R.audit.valid = \A c \in DOMAIN R.audit.checks : R.audit.checks[c]
        /\ R.audit = rebuilt
        /\ total > 0
        /\ R.templates = total /\ R.admitted = passed
        /\ R.gate.total = total /\ R.gate.passed = passed /\ R.gate.all = (passed = total)
        /\ R.gate.fairness = R.audit.valid
        /\ R.gate.non_stub = ~R.stub
        /\ R.gate.eligible = eligible /\ R.calibration = eligible
  BY DEF Verify
<1> HIDE DEF rebuilt, passed, total, eligible
<1>16. Verify(R) /\ R.gate.eligible \in BOOLEAN
  BY <1>10, <1>12, <1>13, <1>14, <1>15
<1> QED BY <1>16 DEF R

\* The verdict that the verifier recomputes, from everything but the verdict.
Recomputed(r) ==
    LET needed == r.bounded /\ r.reference # None
        audited == Range(r.telemetry) \cup (IF needed THEN {r.reference} ELSE {})
        rebuilt == Audit(audited, r.preflight, r.balanced, r.paired,
                         Untruncated(r.bounded, r.reference, r.telemetry),
                         r.audit.checks.lifecycle)
        passed == Cardinality({t \in DOMAIN r.cards : Admitted(r.cards[t])})
        total == Cardinality(DOMAIN r.cards)
    IN  /\ ~r.stub /\ rebuilt.valid /\ r.purpose = "full"
        /\ total > 0 /\ passed = total

LEMMA VerdictIsRecomputed ==
    ASSUME NEW r, Verify(r)
    PROVE  r.gate.eligible = Recomputed(r)
BY Zenon DEF Verify, Recomputed

\* One field is changed at a time: the verdict, or something else.
LEMMA OneFieldChanges ==
    ASSUME NEW r, "gate" \in DOMAIN r, "eligible" \in DOMAIN r.gate, NEW f \in Flips(r)
    PROVE  f.gate.eligible = r.gate.eligible \/ f = [r EXCEPT !.gate["eligible"] = ~@]
<1>1. ASSUME NEW k, k # "gate", NEW x, f = [r EXCEPT ![k] = x]
      PROVE  f.gate.eligible = r.gate.eligible
  BY <1>1
<1>2. ASSUME NEW g, g # "eligible", NEW x, f = [r EXCEPT !.gate[g] = x]
      PROVE  f.gate.eligible = r.gate.eligible
  BY <1>2
<1>3. CASE \E k \in {"bounded", "stub", "preflight", "balanced", "paired", "calibration"} :
              f = [r EXCEPT ![k] = ~@]
  BY <1>1, <1>3
<1>4. CASE f = [r EXCEPT !.audit.valid = ~@]
  BY <1>1, <1>4
<1>5. CASE \E c \in DOMAIN r.audit.checks : f = [r EXCEPT !.audit.checks[c] = ~@]
  BY <1>1, <1>5
<1>6. CASE \E g \in {"eligible", "non_stub", "fairness", "all"} : f = [r EXCEPT !.gate[g] = ~@]
  BY <1>2, <1>6
<1>7. CASE \E b \in DOMAIN r.telemetry : f = [r EXCEPT !.telemetry[b].errors = ~@]
  BY <1>1, <1>7
<1>8. CASE \E t \in DOMAIN r.cards, g \in AdmissionGates : f = [r EXCEPT !.cards[t][g] = TRUE]
  BY <1>1, <1>8
<1>9. CASE f \in {[r EXCEPT !.purpose = "full"], [r EXCEPT !.reference = None],
                  [r EXCEPT !.admitted = r.templates]}
  BY <1>1, <1>9
<1>10. CASE f = [r EXCEPT !.gate.passed = r.templates]
  BY <1>2, <1>10
<1> QED BY <1>3, <1>4, <1>5, <1>6, <1>7, <1>8, <1>9, <1>10 DEF Flips

LEMMA VerdictAlone ==
    ASSUME NEW r, NEW f, f = [r EXCEPT !.gate["eligible"] = ~@]
    PROVE  Recomputed(f) <=> Recomputed(r)
<1>1. /\ f.bounded = r.bounded /\ f.reference = r.reference /\ f.telemetry = r.telemetry
      /\ f.preflight = r.preflight /\ f.balanced = r.balanced /\ f.paired = r.paired
      /\ f.audit = r.audit /\ f.cards = r.cards /\ f.stub = r.stub /\ f.purpose = r.purpose
  OBVIOUS
<1> QED BY <1>1, SMTT(60) DEF Recomputed

LEMMA VerifierFollows == ReportInv => VerifierIsExact
<1> SUFFICES ASSUME ReportInv PROVE VerifierIsExact
  OBVIOUS
<1>1. ASSUME Reported PROVE Verify(report)
  <2>1. report = ReportOf /\ preflight # None
    BY <1>1 DEF Reported, ReportInv
  <2> QED BY <2>1, ReportVerifies
<1>2. ASSUME edited, report.gate.eligible, Verify(report) PROVE ReportOf.gate.eligible
  <2>1. report \in Flips(ReportOf) \cup {ReportOf} /\ preflight # None
    BY <1>2 DEF ReportInv
  <2>2. Verify(ReportOf) /\ ReportOf.gate.eligible \in BOOLEAN
    BY <2>1, ReportVerifies
  <2>3. "gate" \in DOMAIN ReportOf /\ "eligible" \in DOMAIN ReportOf.gate
    BY ReportParts DEF TheReport
  <2>4. PICK r : r = ReportOf
    OBVIOUS
  <2>5. PICK f : f = report
    OBVIOUS
  <2>6. SUFFICES ASSUME r.gate.eligible = FALSE PROVE FALSE
    BY <2>2, <2>4
  <2>7. f \in Flips(r) /\ "gate" \in DOMAIN r /\ "eligible" \in DOMAIN r.gate
    BY <1>2, <2>1, <2>3, <2>4, <2>5, <2>6
  <2>8. f = [r EXCEPT !.gate["eligible"] = ~@]
    BY <1>2, <2>5, <2>6, <2>7, OneFieldChanges
  <2>9. Verify(f) /\ Verify(r)
    BY <1>2, <2>2, <2>4, <2>5
  <2>10. Recomputed(f) <=> Recomputed(r)
    BY <2>8, VerdictAlone
  <2>11. f.gate.eligible = Recomputed(f) /\ r.gate.eligible = Recomputed(r)
    BY <2>9, VerdictIsRecomputed
  <2> QED BY <1>2, <2>5, <2>6, <2>10, <2>11
<1> QED BY <1>1, <1>2 DEF VerifierIsExact, VerifierAcceptsReports, VerifierCatchesEdits

\* The verifier accepts every report the harness writes, and passes none as releasable
\* that was changed in a field and is not.
THEOREM VerifierTheorem == Spec => []VerifierIsExact
<1>1. Spec => []ReportInv
  BY ReportInit, StepReport, PTL DEF Spec
<1> QED BY <1>1, VerifierFollows, PTL

----------------------------------------------------------------------------
(* The runs of an experiment, and what eligibility says of them *)

\* The runs of each stage.
FullJobs == {Job("full", u, b, "full") : u \in Range(Units), b \in Range(Conditions)}
OwnFullJobs(stage) == {Job(stage, u, "B3", "full") : u \in Range(CausalUnits) \ Range(Units)}
AblationJobs == {Job("causal", u, "B3", a) : u \in Range(CausalUnits), a \in Range(Ablations)}
CellJobs == {Job("transfer", u, "B3", "cells") : u \in Range(CausalUnits)}
ReferenceJobs == {Job("reference", u, "reference", "full") : u \in Range(Units)}
Jobs == FullJobs \cup OwnFullJobs("causal") \cup AblationJobs
          \cup OwnFullJobs("transfer") \cup CellJobs \cup ReferenceJobs

\* A function on the domain of a sequence is a sequence.
LEMMA LikeASequence ==
    ASSUME NEW S, NEW T, NEW s \in Seq(T), NEW f \in [DOMAIN s -> S]
    PROVE  f \in Seq(S) /\ DOMAIN f = DOMAIN s
OBVIOUS

LEMMA UnitsTyped ==
    /\ Units \in Seq([template : Range(Templates), seed : Range(Seeds)])
    /\ CausalUnits \in Seq([template : Range(Templates), seed : Range(CausalSeeds)])
<1> DEFINE U(seeds) == [template : Range(Templates), seed : Range(seeds)]
<1>1. ASSUME NEW seeds, seeds \in Seq(Range(seeds))
      PROVE  FlattenSeq([i \in DOMAIN Templates |->
               [j \in DOMAIN seeds |-> [template |-> Templates[i], seed |-> seeds[j]]]])
             \in Seq(U(seeds))
  <2> DEFINE f == [i \in DOMAIN Templates |->
               [j \in DOMAIN seeds |-> [template |-> Templates[i], seed |-> seeds[j]]]]
  <2>1. ASSUME NEW i \in DOMAIN Templates PROVE f[i] \in Seq(U(seeds))
    <3>1. Templates[i] \in Range(Templates) /\ \A j \in DOMAIN seeds : seeds[j] \in Range(seeds)
      BY DEF Range
    <3>2. PICK g : g = [j \in DOMAIN seeds |-> [template |-> Templates[i], seed |-> seeds[j]]]
      OBVIOUS
    <3>3. g \in [DOMAIN seeds -> U(seeds)]
      BY <3>1, <3>2
    <3>4. g \in Seq(U(seeds))
      BY <1>1, <3>3, LikeASequence
    <3> QED BY <3>2, <3>4
  <2>2. f \in [DOMAIN Templates -> Seq(U(seeds))]
    BY <2>1
  <2> HIDE DEF f, U
  <2>3. f \in Seq(Seq(U(seeds)))
    BY <2>2, LikeASequence, CalibrationAssumption
  <2>4. FlattenSeq(f) \in Seq(U(seeds))
    BY <2>3, FlattenRange
  <2> QED BY <2>4 DEF f
<1> QED BY <1>1, CalibrationAssumption DEF Units, CausalUnits

\* A plan is flattened from the pieces of its units.
LEMMA PiecesFlatten ==
    ASSUME NEW S, NEW T, NEW s \in Seq(T), NEW f \in [DOMAIN s -> Seq(S)]
    PROVE  FlattenSeq(f) \in Seq(S)
BY LikeASequence, FlattenRange

LEMMA FullPlanTyped == FullPlan \in Seq(FullJobs)
<1> DEFINE f == [k \in DOMAIN Units |-> [p \in 1..4 |-> Job("full", Units[k], Order(k)[p], "full")]]
<1>1. ASSUME NEW k \in DOMAIN Units PROVE f[k] \in Seq(FullJobs)
  <2>1. k \in Nat /\ Units[k] \in Range(Units)
    BY UnitsTyped DEF Range
  <2>2. ASSUME NEW p \in 1..4 PROVE Order(k)[p] \in Range(Conditions)
    <3>1. ((k + p - 2) % 4) + 1 \in 1..4
      BY <2>1
    <3>2. DOMAIN Conditions = 1..4
      BY DEF Conditions
    <3>3. Order(k)[p] = Conditions[((k + p - 2) % 4) + 1]
      BY DEF Order
    <3> QED BY <3>1, <3>2, <3>3 DEF Range
  <2>3. f[k] \in [1..4 -> FullJobs]
    BY <2>1, <2>2 DEF FullJobs
  <2> QED BY <2>3
<1>2. f \in [DOMAIN Units -> Seq(FullJobs)]
  BY <1>1
<1> HIDE DEF f
<1>3. FlattenSeq(f) \in Seq(FullJobs)
  BY <1>2, UnitsTyped, PiecesFlatten
<1> QED BY <1>3 DEF FullPlan, f

LEMMA OwnFullTyped ==
    ASSUME NEW stage, NEW u \in Range(CausalUnits)
    PROVE  OwnFull(stage, u) \in Seq(OwnFullJobs(stage))
<1>1. u \notin Range(Units) => Job(stage, u, "B3", "full") \in OwnFullJobs(stage)
  BY DEF OwnFullJobs
<1> QED BY <1>1 DEF OwnFull

LEMMA CausalPlanTyped == CausalPlan \in Seq(OwnFullJobs("causal") \cup AblationJobs)
<1> DEFINE S == OwnFullJobs("causal") \cup AblationJobs
           f == [k \in DOMAIN CausalUnits |->
                   OwnFull("causal", CausalUnits[k]) \o
                   [a \in DOMAIN Ablations |-> Job("causal", CausalUnits[k], "B3", Ablations[a])]]
<1>1. ASSUME NEW k \in DOMAIN CausalUnits PROVE f[k] \in Seq(S)
  <2> DEFINE g == [a \in DOMAIN Ablations |-> Job("causal", CausalUnits[k], "B3", Ablations[a])]
  <2>1. CausalUnits[k] \in Range(CausalUnits)
    BY DEF Range
  <2>2. Ablations \in Seq(Range(Ablations))
    BY DEF Ablations, Range
  <2>3. g \in [DOMAIN Ablations -> AblationJobs]
    BY <2>1 DEF AblationJobs, Range
  <2>4. g \in Seq(AblationJobs)
    BY <2>2, <2>3, LikeASequence
  <2> HIDE DEF g
  <2>5. OwnFull("causal", CausalUnits[k]) \in Seq(OwnFullJobs("causal"))
    BY <2>1, OwnFullTyped
  <2>6. OwnFull("causal", CausalUnits[k]) \in Seq(S) /\ g \in Seq(S)
    BY <2>4, <2>5
  <2>7. OwnFull("causal", CausalUnits[k]) \o g \in Seq(S)
    BY <2>6
  <2> QED BY <2>7 DEF g
<1>2. f \in [DOMAIN CausalUnits -> Seq(S)]
  BY <1>1
<1> HIDE DEF f, S
<1>3. FlattenSeq(f) \in Seq(S)
  BY <1>2, UnitsTyped, PiecesFlatten
<1> QED BY <1>3 DEF CausalPlan, f, S

LEMMA TransferPlanTyped == TransferPlan \in Seq(OwnFullJobs("transfer") \cup CellJobs)
<1> DEFINE S == OwnFullJobs("transfer") \cup CellJobs
           f == [k \in DOMAIN CausalUnits |->
                   OwnFull("transfer", CausalUnits[k])
                     \o <<Job("transfer", CausalUnits[k], "B3", "cells")>>]
<1>1. ASSUME NEW k \in DOMAIN CausalUnits PROVE f[k] \in Seq(S)
  <2>1. CausalUnits[k] \in Range(CausalUnits)
    BY DEF Range
  <2>2. OwnFull("transfer", CausalUnits[k]) \in Seq(S)
    BY <2>1, OwnFullTyped
  <2>3. <<Job("transfer", CausalUnits[k], "B3", "cells")>> \in Seq(S)
    BY <2>1 DEF CellJobs
  <2>4. OwnFull("transfer", CausalUnits[k]) \o <<Job("transfer", CausalUnits[k], "B3", "cells")>>
          \in Seq(S)
    BY <2>2, <2>3
  <2> QED BY <2>4
<1>2. f \in [DOMAIN CausalUnits -> Seq(S)]
  BY <1>1
<1> HIDE DEF f, S
<1>3. FlattenSeq(f) \in Seq(S)
  BY <1>2, UnitsTyped, PiecesFlatten
<1> QED BY <1>3 DEF TransferPlan, f, S

\* Whatever is planned is a run of one of the stages.
LEMMA PlanTyped == ASSUME NEW c PROVE Plan(c) \in Seq(Jobs)
<1>1. FullPlan \in Seq(Jobs)
  BY FullPlanTyped DEF Jobs
<1>2. CausalPlan \in Seq(Jobs)
  BY CausalPlanTyped DEF Jobs
<1>3. TransferPlan \in Seq(Jobs)
  BY TransferPlanTyped DEF Jobs
<1>4. ReferencePlan \in Seq(Jobs)
  <2>1. ReferencePlan \in [DOMAIN Units -> ReferenceJobs]
    BY DEF ReferencePlan, ReferenceJobs, Range
  <2>2. ReferencePlan \in Seq(ReferenceJobs)
    BY <2>1, UnitsTyped, LikeASequence
  <2> QED BY <2>2 DEF Jobs
<1> HIDE DEF Jobs
<1>5. (IF c.transfer THEN TransferPlan ELSE <<>>) \in Seq(Jobs)
  BY <1>3
<1>6. (IF c.reference THEN ReferencePlan ELSE <<>>) \in Seq(Jobs)
  BY <1>4
<1>7. FullPlan \o CausalPlan \in Seq(Jobs)
  BY <1>1, <1>2
<1>8. FullPlan \o CausalPlan \o (IF c.transfer THEN TransferPlan ELSE <<>>) \in Seq(Jobs)
  BY <1>5, <1>7
<1> QED BY <1>6, <1>8 DEF Plan

\* The runs made and to be made are runs of the plan, and an error of the model is
\* seen by the recorder of its arm.
JobsInv ==
    /\ plan \in Seq(Jobs)
    /\ DOMAIN results \subseteq Jobs
    /\ recorders \in [Arms -> Recorder]
    /\ \A j \in DOMAIN results : results[j].outcome = "error" => recorders[j.arm].errors

LEMMA JobsInit == Init => JobsInv
<1> SUFFICES ASSUME Init PROVE JobsInv
  OBVIOUS
<1>1. plan \in Seq(Jobs)
  BY PlanTyped DEF Init
<1> QED BY <1>1 DEF Init, JobsInv, Recorder

LEMMA ArmsOfJobs == \A j \in Jobs : j.arm \in Arms
BY DEF Jobs, FullJobs, OwnFullJobs, AblationJobs, CellJobs, ReferenceJobs, Job, Arms,
       Conditions, Range

LEMMA StepJobs == JobsInv /\ [Next]_vars => JobsInv'
<1> SUFFICES ASSUME JobsInv, [Next]_vars PROVE JobsInv'
  OBVIOUS
<1>1. ASSUME UNCHANGED <<plan, results, recorders>> PROVE JobsInv'
  BY <1>1 DEF JobsInv
<1>2. ASSUME NEW outcome, Execute(outcome) PROVE JobsInv'
  <2>1. PICK job : job = Head(plan)
    OBVIOUS
  <2>2. /\ plan # <<>> /\ plan' = Tail(plan)
        /\ results' = [j \in DOMAIN results \cup {job} |->
                         IF j = job THEN [outcome |-> outcome, score |-> ScoreOf(job, outcome)]
                         ELSE results[j]]
    BY <1>2, <2>1 DEF Execute
  <2>3. plan \in Seq(Jobs) /\ job \in Jobs /\ plan' \in Seq(Jobs)
    BY <2>1, <2>2 DEF JobsInv
  <2>4. DOMAIN results' \subseteq Jobs
    BY <2>2, <2>3 DEF JobsInv
  <2>5. /\ recorders' \in [Arms -> Recorder]
        /\ \A b \in Arms : recorders[b].errors => recorders'[b].errors
        /\ \A b \in Arms : b = Head(plan).arm /\ outcome = "error" => recorders'[b].errors
    BY <1>2, RecordersSee DEF JobsInv
  <2>6. ASSUME NEW j \in DOMAIN results', results'[j].outcome = "error"
        PROVE  recorders'[j.arm].errors
    <3>1. CASE j = job
      <4>1. outcome = "error"
        BY <2>2, <2>6, <3>1
      <4>2. job.arm \in Arms /\ job.arm = Head(plan).arm
        BY <2>1, <2>3, ArmsOfJobs
      <4> QED BY <2>5, <3>1, <4>1, <4>2, Zenon
    <3>2. CASE j # job
      <4>1. j \in DOMAIN results /\ results[j].outcome = "error"
        BY <2>2, <2>6, <3>2
      <4>2. j.arm \in Arms
        BY <2>4, ArmsOfJobs
      <4> QED BY <2>5, <4>1, <4>2 DEF JobsInv
    <3> QED BY <3>1, <3>2
  <2> QED BY <2>3, <2>4, <2>5, <2>6 DEF JobsInv
<1>3. CASE Preflight
  BY <1>1, <1>3 DEF Preflight
<1>4. CASE WriteReport
  BY <1>1, <1>4 DEF WriteReport
<1>5. CASE Edit
  BY <1>1, <1>5 DEF Edit
<1>6. CASE UNCHANGED vars
  BY <1>1, <1>6 DEF vars
<1> QED BY <1>2, <1>3, <1>4, <1>5, <1>6 DEF Next

\* What makes a report eligible.
LEMMA EligibleSays ==
    ASSUME ReportInv, preflight # None, Eligible
    PROVE  /\ ~cfg.stub /\ cfg.purpose = "full" /\ preflight
           /\ cfg.bounded => cfg.reference
           /\ \A a \in AuditedRecorders : ~recorders[a].errors
           /\ \A j \in AuditedRuns : Valid(j)
           /\ \A t \in Range(Templates) : Admitted(Card(t))
<1>1. ~cfg.stub /\ cfg.purpose = "full" /\ TheAudit.valid /\ Passed = Len(Templates)
  BY DEF Eligible
<1>2. /\ preflight = TRUE /\ Complete /\ Closed
      /\ ~\E x \in Audited : x.errors
  <2>1. TheAudit.checks = [fingerprints |-> \E x \in Audited : x.calls, preflight |-> preflight,
                           order |-> Balanced, pairing |-> Paired, history |-> Complete,
                           errors |-> ~\E x \in Audited : x.errors, lifecycle |-> Closed]
    BY DEF TheAudit, Audit
  <2>2. \A c \in DOMAIN TheAudit.checks : TheAudit.checks[c]
    BY <1>1 DEF TheAudit, Audit
  <2>3. /\ TheAudit.checks.preflight /\ TheAudit.checks.history
        /\ TheAudit.checks.errors /\ TheAudit.checks.lifecycle
    <3>1. {"preflight", "history", "errors", "lifecycle"} \subseteq DOMAIN TheAudit.checks
      BY <2>1
    <3> QED BY <2>2, <3>1
  <2>4. preflight \in BOOLEAN
    BY DEF ReportInv
  <2>5. /\ TheAudit.checks.preflight = preflight /\ TheAudit.checks.history = Complete
        /\ TheAudit.checks.errors = (~\E x \in Audited : x.errors)
        /\ TheAudit.checks.lifecycle = Closed
    BY <2>1
  <2> QED BY <2>3, <2>4, <2>5
<1>3. cfg.bounded => cfg.reference
  BY <1>2 DEF Complete, Untruncated, Reference
<1>4. \A a \in AuditedRecorders : ~recorders[a].errors
  BY <1>2 DEF Audited
<1>5. \A j \in AuditedRuns : Valid(j)
  BY <1>2 DEF Closed
<1>6. \A t \in Range(Templates) : Admitted(Card(t))
  <2> DEFINE T == Range(Templates)
             A == {t \in T : Admitted(Cards[t])}
  <2>1. IsFiniteSet(T) /\ Cardinality(T) = Len(Templates)
    BY TemplatesCounted
  <2>2. Cardinality(A) = Cardinality(T) /\ A \subseteq T
    BY <1>1, <2>1 DEF Passed
  <2>3. \A t \in T : Cards[t] = Card(t)
    BY DEF Cards
  <2> HIDE DEF T, A
  <2>4. A = T
    BY <2>1, <2>2, FS_Subset
  <2> QED BY <2>3, <2>4 DEF T, A
<1> QED BY <1>1, <1>2, <1>3, <1>4, <1>5, <1>6

\* An admitted Template was measured completely: every pair is valid.
LEMMA AdmittedMeasured ==
    ASSUME \A t \in Range(Templates) : Admitted(Card(t)),
           NEW u \in Range(CausalUnits), NEW a \in Range(Ablations)
    PROVE  PairValid(u, a)
<1>1. u.template \in Range(Templates)
  <2>1. PICK k \in DOMAIN CausalUnits : u = CausalUnits[k]
    BY DEF Range
  <2> DEFINE U == [template : Range(Templates), seed : Range(CausalSeeds)]
  <2>2. CausalUnits \in Seq(U)
    BY UnitsTyped
  <2>3. u \in U
    <3> HIDE DEF U
    <3> QED BY <2>1, <2>2
  <2> QED BY <2>3
<1>2. CausalGate(u.template, "relevant", Thresholds.benefit) = TRUE
  <2>1. Card(u.template).causal_sensitivity = TRUE
    BY <1>1 DEF Admitted, AdmissionGates
  <2> QED BY <2>1 DEF Card
<1>3. None # TRUE
  BY CalibrationAssumption
<1>4. \A v \in {w \in Range(CausalUnits) : w.template = u.template} :
          \A b \in Range(Ablations) : PairValid(v, b)
  BY <1>2, <1>3 DEF CausalGate
<1> QED BY <1>4

\* Every run of the causal stage is one of a valid pair.
LEMMA CausalRunsValid ==
    ASSUME JobsInv, \A t \in Range(Templates) : Admitted(Card(t)),
           NEW j \in DOMAIN results, j.stage = "causal"
    PROVE  Valid(j)
<1>1. j \in OwnFullJobs("causal") \cup AblationJobs
  <2>1. j \in Jobs
    BY DEF JobsInv
  <2> QED BY <2>1 DEF Jobs, FullJobs, OwnFullJobs, CellJobs, ReferenceJobs, Job
<1>2. CASE j \in AblationJobs
  <2>1. PICK u \in Range(CausalUnits), a \in Range(Ablations) : j = Job("causal", u, "B3", a)
    BY <1>2 DEF AblationJobs
  <2> QED BY <2>1, AdmittedMeasured DEF PairValid
<1>3. CASE j \in OwnFullJobs("causal")
  <2>1. PICK u \in Range(CausalUnits) \ Range(Units) : j = Job("causal", u, "B3", "full")
    BY <1>3 DEF OwnFullJobs
  <2>2. "relevant" \in Range(Ablations)
    BY DEF Ablations, Range
  <2>3. Valid(FullOf(u))
    BY <2>1, <2>2, AdmittedMeasured DEF PairValid
  <2>4. j.unit = u /\ j.arm = "B3" /\ j.what = "full" /\ j.stage = "causal"
    BY <2>1 DEF Job
  <2>5. ASSUME NEW k \in DOMAIN results, k.unit = u, k.arm = "B3", k.what = "full",
               k.stage \in {"full", "causal"}
        PROVE  k = j
    <3>1. k \in Jobs
      BY DEF JobsInv
    <3>2. k \notin FullJobs
      BY <2>1, <2>5 DEF FullJobs, Job
    <3>3. k \in OwnFullJobs("causal") \cup AblationJobs
      BY <2>5, <3>1, <3>2 DEF Jobs, OwnFullJobs, CellJobs, ReferenceJobs, Job
    <3>4. k \notin AblationJobs
      BY <2>5 DEF AblationJobs, Ablations, Range, Job
    <3>5. k \in OwnFullJobs("causal")
      BY <3>3, <3>4
    <3>6. PICK v : k = Job("causal", v, "B3", "full")
      BY <3>5 DEF OwnFullJobs
    <3> QED BY <2>1, <2>5, <3>6 DEF Job
  <2>6. FullOf(u) = j
    BY <2>4, <2>5 DEF FullOf
  <2> QED BY <2>3, <2>6
<1> QED BY <1>1, <1>2, <1>3

LEMMA CleanFollows == ReportInv /\ JobsInv => EligibleMeansClean
<1> SUFFICES ASSUME ReportInv, JobsInv, Reported, report.gate.eligible
             PROVE  /\ FaultsOf({"full", "causal"}, {"error", "broken", "unclosed"}) = {}
                    /\ cfg.bounded => cfg.reference
                          /\ FaultsOf({"reference"}, {"error", "broken", "unclosed"}) = {}
                    /\ preflight /\ ~cfg.stub /\ cfg.purpose = "full"
  BY DEF EligibleMeansClean
<1>1. Eligible /\ preflight # None
  <2>1. report = TheReport /\ preflight # None
    BY ReportParts DEF Reported, ReportInv
  <2> QED BY <2>1 DEF TheReport
<1>2. /\ ~cfg.stub /\ cfg.purpose = "full" /\ preflight
      /\ cfg.bounded => cfg.reference
      /\ \A a \in AuditedRecorders : ~recorders[a].errors
      /\ \A j \in AuditedRuns : Valid(j)
      /\ \A t \in Range(Templates) : Admitted(Card(t))
  BY <1>1, EligibleSays
<1>3. ASSUME NEW j \in DOMAIN results, j.stage \in {"full", "causal"}
      PROVE  results[j].outcome \notin {"error", "broken", "unclosed"}
  <2>1. Valid(j)
    <3>1. CASE j.stage = "full"
      BY <1>2, <3>1 DEF AuditedRuns
    <3>2. CASE j.stage = "causal"
      BY <1>2, <3>2, CausalRunsValid
    <3> QED BY <1>3, <3>1, <3>2
  <2>2. j.arm \in Range(Conditions)
    BY <1>3 DEF JobsInv, Jobs, FullJobs, OwnFullJobs, AblationJobs, CellJobs, ReferenceJobs,
                Job, Conditions, Range
  <2>3. ~recorders[j.arm].errors
    BY <1>2, <2>2 DEF AuditedRecorders
  <2> QED BY <2>1, <2>3 DEF JobsInv, Valid
<1>4. ASSUME cfg.bounded, NEW j \in DOMAIN results, j.stage = "reference"
      PROVE  results[j].outcome \notin {"error", "broken", "unclosed"}
  <2>1. Valid(j)
    BY <1>2, <1>4 DEF AuditedRuns
  <2>2. j.arm = "reference"
    BY <1>4 DEF JobsInv, Jobs, FullJobs, OwnFullJobs, AblationJobs, CellJobs, ReferenceJobs, Job
  <2>3. ~recorders[j.arm].errors
    BY <1>2, <1>4, <2>2 DEF AuditedRecorders
  <2> QED BY <2>1, <2>3 DEF JobsInv, Valid
<1> QED BY <1>2, <1>3, <1>4 DEF FaultsOf, Faults

\* Only a clean experiment is released: no model error and no broken run in anything
\* admission rests on, a complete history, a model that keeps no state.
THEOREM CleanTheorem == Spec => []EligibleMeansClean
<1>1. Spec => [](ReportInv /\ JobsInv)
  BY ReportInit, StepReport, JobsInit, StepJobs, PTL DEF Spec
<1> QED BY <1>1, CleanFollows, PTL

============================================================================
