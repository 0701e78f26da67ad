----------------------------- MODULE PackReport -----------------------------
(***************************************************************************)
(* From the runs of a pack to its report: paired causal metrics, Instance, *)
(* Template and Dimension aggregates, the dependence gate, the bootstrap,  *)
(* the redacted public copy, and the verifier that recomputes all of it    *)
(* from what the report carries (scoring.py, aggregation.py, dependence.py,*)
(* benchmark.py, report.py, hidden.py).                                    *)
(***************************************************************************)
EXTENDS Integers, FiniteSets, Functions, Rationals

CONSTANTS
    Templates,    \* id -> its dims, weights, probes, ablations and what it needs
    Seeds, Rungs, Reps,
    Profile,      \* weights of the Dimensions, canonical rung, gate and thresholds
    Configs,      \* what varies: the Agent, the options of the evaluation
    MaxOff,       \* bound: runs that do not go as they usually do
    NoReport, None

\* What validating and loading a Template ensures of it: harm alone is measured
\* against another control, the tolerance leaves something to lose, and no weight is
\* negative.  Ids and aliases are sorted; numbers stand for them.
ASSUME PackAssumption ==
    /\ None \notin Rational \cup {"report", "public"}
    /\ IsFiniteSet(DOMAIN Templates) /\ IsFiniteSet(DOMAIN Profile.dims)
    /\ \A d \in DOMAIN Profile.dims : Profile.dims[d] \in Nat
    /\ \A t \in DOMAIN Templates, d \in DOMAIN Profile.dims \cup {"causal"} :
         Templates[t].weights[d] \in Nat
    /\ DOMAIN Templates \subseteq Int
    /\ \A c \in Configs : \A t \in DOMAIN Templates : c.aliases[t] \in Int
    /\ \A t \in DOMAIN Templates :
         LET T == Templates[t]
         IN  /\ IsFiniteSet(DOMAIN T.probes) /\ IsFiniteSet(DOMAIN T.ablations)
             /\ \A p \in DOMAIN T.probes : T.probes[p].weight \in Nat
             /\ \A a \in DOMAIN T.reference : T.ablations[a] = "harmful"
             /\ T.tolerance \in Rational /\ QLess(T.tolerance, One)

VARIABLES
    cfg,          \* agent, capable, bootstrap, official, aliases, schedule
    plan,         \* the runs that are still to be made
    runs,         \* the Run Artifacts
    report,       \* the internal report
    public,       \* the redacted copy
    edited        \* the one of them that was changed afterwards

vars == <<cfg, plan, runs, report, public, edited>>

\* f itself: to compare it, TLC computes it in full, and only once.
Table(f) == CHOOSE g \in {f} : g = f
\* f with v at x.
Put(f, x, v) == [y \in DOMAIN f \cup {x} |-> IF y = x THEN v ELSE f[y]]

Causal == "causal"
ScoredOutcomes == {"scored", "execution_failure"}

----------------------------------------------------------------------------
(* The schedule of a pack *)

Supported(t) == Templates[t].needs \subseteq cfg.capable
Executed == {t \in DOMAIN Templates : Supported(t)}

\* _intervention_schedule: only the canonical rung is intervened on, and a control
\* for maintenance is pointless where the Agent declares none.
Interventions(c, t, rung) ==
    IF rung # Profile.canonical \/ ~c.ablate THEN {}
    ELSE {a \in DOMAIN Templates[t].ablations :
            Templates[t].ablations[a] = "no_maintenance" => "maintenance" \in c.capable}

Key(t, seed, rung, rep, condition) ==
    [template |-> t, seed |-> seed, rung |-> rung, rep |-> rep, condition |-> condition]
Plan(c) ==
    UNION {{Key(t, s, g, r, a) : a \in {"full"} \cup Interventions(c, t, g)} :
             t \in {u \in DOMAIN Templates : Templates[u].needs \subseteq c.capable},
             s \in Seeds, g \in Rungs, r \in Reps}

Instance(k) == [template |-> k.template, seed |-> k.seed, rung |-> k.rung]
In(k, condition) == [k EXCEPT !.condition = condition]
Kind(k) == IF k.condition = "full" THEN "full" ELSE Templates[k.template].ablations[k.condition]

----------------------------------------------------------------------------
(* Scores of a run, and its pairing with its control *)

ProbesOf(k) == Templates[k.template].probes
ProbeWeight(k, p) == ProbesOf(k)[p].weight

\* Mutant: a Probe that failed to execute is left out.
WithoutFailures(R, k) == {p \in DOMAIN R[k].probes : R[k].probes[p].outcome = "scored"}

\* The Probes of a run that stay in the denominator.
Scored(R, k) ==
    {p \in DOMAIN R[k].probes :
        R[k].probes[p].outcome \in ScoredOutcomes /\ ProbeWeight(k, p) > 0}

\* scenario_score_from_probes, weighted_probe_score: over the Probes P of the run.
ProbeScore(R, k, P) ==
    LET rows == Scored(R, k) \cap P
    IN  IF rows = {} THEN None
        ELSE WeightedMean([p \in rows |-> R[k].probes[p].score],
                          [p \in rows |-> ProbeWeight(k, p)])
OrZero(x) == IF x = None THEN Zero ELSE x
RunScore(R, k) == OrZero(ProbeScore(R, k, DOMAIN ProbesOf(k)))

\* validate_causal_pairs: the same repetition has a full control, and neither run
\* was broken off.  (Seeds, digests, plans and Probes of one schedule agree.)
PairValid(R, k) == In(k, "full") \in DOMAIN R /\ R[k].valid /\ R[In(k, "full")].valid

\* The run a variant is compared with: harm is measured against an irrelevant
\* injection, where the Template declares that reference.
Control(k) ==
    IF k.condition \in DOMAIN Templates[k.template].reference
    THEN In(k, Templates[k.template].reference[k.condition]) ELSE In(k, "full")
Pairs(R, K) ==
    {k \in K \cap DOMAIN R : /\ k.condition # "full" /\ PairValid(R, k)
                             /\ Control(k) \in DOMAIN R /\ PairValid(R, Control(k))}

\* No-memory is the reference only for Probes without a relevant ablation.
PairedProbes(R, k) ==
    LET relevant == {j \in DOMAIN R : /\ Instance(j) = Instance(k) /\ j.rep = k.rep
                                      /\ Kind(j) = "relevant" /\ PairValid(R, j)}
    IN  Scored(R, k) \ (IF Kind(k) = "no_memory" THEN UNION {Scored(R, j) : j \in relevant} ELSE {})

----------------------------------------------------------------------------
(* Paired causal metrics: the observations behind each, and their mean *)

\* The pairs that can be compared, with the scores of their two runs.
Comparable(R, K) ==
    {k \in Pairs(R, K) : /\ PairedProbes(R, k) # {}
                         /\ ProbeScore(R, Control(k), PairedProbes(R, k)) # None}
Comparisons(R, K) ==
    Table([k \in Comparable(R, K) |->
              [with |-> ProbeScore(R, Control(k), PairedProbes(R, k)),
               without |-> ProbeScore(R, k, PairedProbes(R, k))]])
Of(C, kinds) == {k \in DOMAIN C : Kind(k) \in kinds}
Delta(c) == QSub(c.with, c.without)

\* tolerant_stability and tolerant_harm_resistance, with the tolerance tau.
Tolerant(loss, tau) ==
    Clamped(QSub(One, QDiv(QMax(Zero, QSub(loss, tau)), QSub(One, tau))))

Headroom(c) == QSub(One, c.without)

\* The changed-probe opportunities of the twins whose full Probe was right.
Tracked(R, C) ==
    {kp \in Of(C, {"twin"}) \X UNION {DOMAIN ProbesOf(j) : j \in DOMAIN C} :
        /\ kp[2] \in PairedProbes(R, kp[1])
        /\ QLeq(One, R[In(kp[1], "full")].probes[kp[2]].score)}

Observations(R, C, name) ==
    LET benefits == Of(C, {"relevant", "no_memory"})
        tau(k) == Templates[k.template].tolerance
    IN  CASE name = "memory_benefit" -> [k \in benefits |-> Delta(C[k])]
          [] name = "hmb" ->
               [k \in {b \in benefits : QLess(Q(2, 100), Headroom(C[b]))} |->
                   QDiv(QMax(Zero, Delta(C[k])), Headroom(C[k]))]
          [] name = "ims" ->
               [k \in Of(C, {"irrelevant"}) |-> Tolerant(QAbs(Delta(C[k])), tau(k))]
          [] name = "memory_harm" ->
               [k \in Of(C, {"harmful"}) |-> QMax(Zero, Delta(C[k]))]
          [] name = "hrs" ->
               [k \in Of(C, {"harmful"}) |-> Tolerant(QMax(Zero, Delta(C[k])), tau(k))]
          [] name = "tracking" ->
               [kp \in Tracked(R, C) |->
                   IF QLeq(One, R[kp[1]].probes[kp[2]].score) THEN One ELSE Zero]
          [] name = "consolidation" -> [k \in Of(C, {"no_maintenance"}) |-> Delta(C[k])]
MetricNames ==
    {"memory_benefit", "hmb", "ims", "memory_harm", "hrs", "tracking", "consolidation"}

\* A metric nobody observed is absent, never zero.
MeansOf(observed) ==
    Table([name \in {m \in MetricNames : DOMAIN observed[m] # {}} |->
              [value |-> Mean(observed[name]),
               n |-> Cardinality(DOMAIN observed[name])]])
MetricsOf(R, C) ==
    MeansOf(Table([name \in MetricNames |-> Table(Observations(R, C, name))]))
Metrics(R, K) == MetricsOf(R, Comparisons(R, K))

\* Mutant: stability and harm resistance are credited whatever the benefit is.
UngatedCausalScore(M) ==
    IF "hmb" \notin DOMAIN M THEN None
    ELSE LET weight == [hmb |-> 5, ims |-> 2, hrs |-> 3]
             present == DOMAIN weight \cap DOMAIN M
         IN  WeightedMean([m \in present |-> M[m].value], Restrict(weight, present))

\* causal_score01: what the memory is worth, scaled down by what it disturbs.
CausalScore(M) ==
    IF "hmb" \notin DOMAIN M THEN None
    ELSE LET weight == [hmb |-> 5, ims |-> 2, hrs |-> 3]
             present == DOMAIN weight \cap DOMAIN M
         IN  QMul(M["hmb"].value,
                  WeightedMean([m \in present |-> IF m = "hmb" THEN One ELSE M[m].value],
                               Restrict(weight, present)))

----------------------------------------------------------------------------
(* Aggregates of an Instance *)

Keys(R, i) == {k \in DOMAIN R : Instance(k) = i}
Fulls(R, i) == {k \in Keys(R, i) : k.condition = "full"}
Instances(R) == {Instance(k) : k \in DOMAIN R}

\* The causal Dimension of a Template that has it, where its score is defined.
WithCausal(t, M, plain) ==
    Table(IF Causal \in Templates[t].dims /\ CausalScore(M) # None
          THEN Put(plain, Causal, CausalScore(M)) ELSE plain)

\* instance_dimension_scores: Probes without a tag count for every Dimension.
DimensionScores(R, t, fulls, M) ==
    LET tagged(k, d) == {p \in DOMAIN ProbesOf(k) : ProbesOf(k)[p].dims \in {{}, {d}}}
        score(k, d) == LET x == ProbeScore(R, k, tagged(k, d))
                       IN  IF x = None THEN RunScore(R, k) ELSE x
    IN  WithCausal(t, M, [d \in Templates[t].dims \ {Causal} |->
                             Mean([k \in fulls |-> score(k, d)])])

\* Mutant: an opportunity whose twin was broken off is not counted.
OpportunitiesLeft(R, i) ==
    LET t == Templates[i.template]
    IN  {kp \in Fulls(R, i) \X (DOMAIN t.probes) \X (DOMAIN t.ablations) :
            /\ t.ablations[kp[3]] = "twin" /\ t.probes[kp[2]].weight > 0
            /\ In(kp[1], kp[3]) \in DOMAIN R /\ R[In(kp[1], kp[3])].valid}

\* joint_evidence: every weighted opportunity of the plan counts, valid or not.  The answer
\* "follows" the twin, or carried the twin's value under the original history.
Opportunities(R, i) ==
    LET t == Templates[i.template]
    IN  {kp \in Fulls(R, i) \X (DOMAIN t.probes) \X (DOMAIN t.ablations) :
            t.ablations[kp[3]] = "twin" /\ t.probes[kp[2]].weight > 0}
OpportunitiesOf(R, i, d) ==
    {kp \in Opportunities(R, i) : d \in Templates[i.template].probes[kp[2]].dims}
ValidOpportunity(R, kp) ==
    LET twin == In(kp[1], kp[3])
    IN  /\ twin \in DOMAIN R /\ PairValid(R, twin)
        /\ R[kp[1]].probes[kp[2]].outcome = "scored"
        /\ R[twin].probes[kp[2]].outcome = "scored"
\* The content-following effect of one opportunity.
Following(R, kp) ==
    IF ~ValidOpportunity(R, kp) THEN 0
    ELSE (IF R[In(kp[1], kp[3])].probes[kp[2]].twin THEN 1 ELSE 0)
       - (IF R[kp[1]].probes[kp[2]].twin THEN 1 ELSE 0)
JointRow(R, all) ==
    [total |-> Cardinality(all),
     valid |-> Cardinality({kp \in all : ValidOpportunity(R, kp)}),
     effect |-> Mean([kp \in all |-> Q(Following(R, kp), 1)])]
JointEvidence(R, i) ==
    Table([d \in {e \in Templates[i.template].dims : OpportunitiesOf(R, i, e) # {}} |->
              JointRow(R, OpportunitiesOf(R, i, d))])

InstanceScore(R, i) == Mean([k \in Fulls(R, i) |-> RunScore(R, k)])

\* build_instance_aggregate.
InstanceRow(R, i, M) ==
    [template |-> i.template, rung |-> i.rung, full |-> InstanceScore(R, i),
     dims |-> DimensionScores(R, i.template, Fulls(R, i), M),
     metrics |-> M, joint |-> JointEvidence(R, i)]
InstanceRows(R) ==
    Table([i \in Instances(R) |-> InstanceRow(R, i, Metrics(R, Keys(R, i)))])

----------------------------------------------------------------------------
(* Aggregates of Templates and Dimensions, from the Instance rows alone.   *)
(* "policy" is the pack as the report carries it: template id -> weights.  *)

Canonical(rows) == {i \in DOMAIN rows : rows[i].rung = Profile.canonical}
OfTemplate(rows, t) == {i \in Canonical(rows) : rows[i].template = t}

TemplateRow(rows, t) ==
    LET dims == UNION {DOMAIN rows[i].dims : i \in OfTemplate(rows, t)}
        with(d) == {i \in OfTemplate(rows, t) : d \in DOMAIN rows[i].dims}
    IN  [full |-> Mean([i \in OfTemplate(rows, t) |-> rows[i].full]),
         dims |-> Table([d \in dims |-> Mean([i \in with(d) |-> rows[i].dims[d]])])]
TemplateRows(rows, policy) ==
    Table([t \in {u \in DOMAIN policy : OfTemplate(rows, u) # {}} |-> TemplateRow(rows, t)])

\* The Templates whose evidence a Dimension requires, executed or not.
Required(templates, policy, d) == {t \in DOMAIN policy : policy[t][d] > 0}

\* dimension_aggregates.
DimensionRow(templates, policy, d) ==
    LET weights(ts) == [t \in ts |-> policy[t][d]]
        rated == {t \in DOMAIN templates : policy[t][d] > 0 /\ d \in DOMAIN templates[t].dims}
        required == Weight(weights(Required(templates, policy, d)))
    IN  [score |-> IF rated = {} THEN Zero
                   ELSE WeightedMean([t \in rated |-> templates[t].dims[d]], weights(rated)),
         coverage |-> IF required = 0 THEN Zero ELSE Q(Weight(weights(rated)), required)]

DimensionRows(templates, policy) ==
    Table([d \in DOMAIN Profile.dims |-> DimensionRow(templates, policy, d)])
ProfileScore(dims) ==
    WeightedMean([d \in DOMAIN Profile.dims |-> dims[d].score], Profile.dims)

\* aggregate_benchmark_causal_metrics.
CausalRows(rows, policy) ==
    LET names == UNION {DOMAIN rows[i].metrics : i \in Canonical(rows)}
        with(t, m) == {i \in OfTemplate(rows, t) : m \in DOMAIN rows[i].metrics}
        measured(m) == {t \in DOMAIN policy : with(t, m) # {}}
    IN  [m \in names |->
            WeightedMean([t \in measured(m) |->
                             Mean([i \in with(t, m) |-> rows[i].metrics[m].value])],
                         [t \in measured(m) |->
                             IF policy[t][Causal] > 0 THEN policy[t][Causal] ELSE 1])]

\* A set of ids in their order.
Position(S, x) == Cardinality({y \in S : y < x})
Ascending(S) == [n \in 1..Cardinality(S) |-> CHOOSE x \in S : Position(S, x) = n - 1]

\* retention_block: a curve over the rungs per Template, in the order of their ids.
Retention(rows) ==
    LET ids == {rows[i].template : i \in DOMAIN rows}
        at(t, g) == {i \in DOMAIN rows : rows[i].template = t /\ rows[i].rung = g}
        curve(t) == [g \in {h \in Rungs : at(t, h) # {}} |->
                        Mean([i \in at(t, g) |-> rows[i].full])]
        order == Ascending(ids)
    IN  [n \in DOMAIN order |-> [template |-> order[n], curve |-> curve(order[n])]]

\* joint_dependence: the gate of a Dimension.  The bootstrap draws from the strata in
\* the order of their ids; its interval is what these draws are taken from, and its
\* lower end no better than the worst of every stratum.
Dependence(rows) ==
    LET with(d) == {i \in Canonical(rows) : d \in DOMAIN rows[i].joint}
        row(d, i) == rows[i].joint[d]
        total(d) == Weight([i \in with(d) |-> row(d, i).total])
        valid(d) == Weight([i \in with(d) |-> row(d, i).valid])
        complete(d) == {i \in with(d) : row(d, i).valid = row(d, i).total}
        strata(d) == {rows[i].template : i \in with(d)}
        in(d, t) == {i \in with(d) : rows[i].template = t}
        worst(d, t) == CHOOSE x \in {row(d, i).effect : i \in in(d, t)} :
                          \A i \in in(d, t) : QLeq(x, row(d, i).effect)
        order(d) == Ascending(strata(d))
        lower(d) == Mean([t \in strata(d) |-> worst(d, t)])
        one(d) ==
            [eligible |-> IF valid(d) = 0 THEN None
                          ELSE /\ Cardinality(complete(d)) >= Profile.minInstances
                               /\ valid(d) = total(d)
                               /\ QLeq(Profile.floor, lower(d)),
             valid |-> valid(d), total |-> total(d),
             draws |-> [n \in DOMAIN order(d) |->
                          {<<i.seed, row(d, i).effect>> : i \in in(d, order(d)[n])}]]
    IN  [d \in {e \in DOMAIN Profile.dims : Profile.dims[e] > 0} |-> one(d)]
DependenceEligible(dep) ==
    IF \A d \in DOMAIN dep : dep[d].eligible = None THEN None
    ELSE \A d \in DOMAIN dep : dep[d].eligible = TRUE

\* Everything a report derives from its Instance rows and its policy.
Derived(rows, policy, official, failures) ==
    LET templates == TemplateRows(rows, policy)
        dims == DimensionRows(templates, policy)
        coverage == WeightedMean([d \in DOMAIN Profile.dims |-> dims[d].coverage], Profile.dims)
        dependence == Table(Dependence(rows))
        complete == coverage = One
    IN  [templates |-> templates,
         dims |-> dims, score |-> ProfileScore(dims), causal |-> CausalRows(rows, policy),
         retention |-> Retention(rows), dependence |-> dependence, coverage |-> coverage,
         partial |-> ~complete,
         official |-> /\ official /\ complete
                      /\ DependenceEligible(dependence) = TRUE
                      /\ QLeq(failures, Profile.maxFailures)]

FailureRate(R) ==
    LET attempts == {kp \in (DOMAIN R) \X UNION {DOMAIN ProbesOf(k) : k \in DOMAIN R} :
                        kp[2] \in DOMAIN R[kp[1]].probes}
    IN  Q(Cardinality({kp \in attempts : R[kp[1]].probes[kp[2]].outcome = "execution_failure"}),
          Cardinality(attempts))

----------------------------------------------------------------------------
(* The bootstrap, and its point estimate *)

\* Mutant: the metrics of the repetitions are averaged without their counts.
PlainRepetitions(per, m) ==
    Mean([r \in {s \in DOMAIN per : m \in DOMAIN per[s]} |-> per[r][m].value])

\* sample_instance: a metric of an Instance out of those of its repetitions.
FromRepetitions(per, m) ==
    LET measured == {r \in DOMAIN per : m \in DOMAIN per[r]}
    IN  WeightedMean([r \in measured |-> per[r][m].value], [r \in measured |-> per[r][m].n])

Pooled(per) ==
    Table([m \in UNION {DOMAIN per[r] : r \in Reps} |->
              [value |-> FromRepetitions(per, m), n |-> 1]])

\* template_stats without resampling: the Instance as the bootstrap sees it, out of
\* the metrics per[r] of each repetition r.
Sampled(R, i, per) ==
    LET at(r, d) == DimensionScores(R, i.template, {k \in Fulls(R, i) : k.rep = r}, per[r])[d]
    IN  [template |-> i.template, rung |-> i.rung, full |-> InstanceScore(R, i),
         dims |-> WithCausal(i.template, Pooled(per),
                             [d \in Templates[i.template].dims \ {Causal} |->
                                 Mean([r \in Reps |-> at(r, d)])])]
SampledInstance(R, i) ==
    Sampled(R, i, Table([r \in Reps |-> Metrics(R, {k \in Keys(R, i) : k.rep = r})]))

\* hierarchical_bootstrap: a pack that lost a Dimension has no point estimate, and a
\* Dimension of too few units no interval, nor has then the score.
Estimate(rows, policy) ==
    LET templates == TemplateRows(rows, policy)
        dims == DimensionRows(templates, policy)
        with(d) == {t \in DOMAIN templates : policy[t][d] > 0 /\ d \in DOMAIN templates[t].dims}
        has(d) == with(d) # {}
        enough(d) == Cardinality({i \in DOMAIN rows : i.template \in with(d)}) >= Profile.minUnits
        weighted == {d \in DOMAIN Profile.dims : Profile.dims[d] > 0}
    IN  [score |-> IF \A d \in weighted : has(d) THEN ProfileScore(dims) ELSE Zero,
         dims |-> [d \in {e \in DOMAIN Profile.dims : has(e)} |-> dims[d].score],
         intervals |-> {d \in DOMAIN Profile.dims : enough(d)},
         interval |-> \A d \in weighted : enough(d)]
Statistics(R, policy) ==
    Estimate(Table([i \in {j \in Instances(R) : j.rung = Profile.canonical} |->
                       SampledInstance(R, i)]), policy)

----------------------------------------------------------------------------
(* The report and its public copy *)

Policy == [t \in DOMAIN Templates |-> Templates[t].weights]

\* The statistics carry the score of the report as their value.
Assembled(R, rows, derived) ==
    [runs |-> [k \in DOMAIN R |-> [run |-> R[k], score |-> RunScore(R, k)]],
     rows |-> rows, policy |-> Policy, official |-> cfg.official,
     failures |-> FailureRate(R), derived |-> derived,
     stats |-> IF cfg.bootstrap THEN [Statistics(R, Policy) EXCEPT !.score = derived.score]
               ELSE None]
ReportOn(R, rows) ==
    Assembled(R, rows, Derived(rows, Policy, cfg.official, FailureRate(R)))
ReportOf(R) == ReportOn(R, InstanceRows(R))

Alias(t) == cfg.aliases[t]
Named(row) == [row EXCEPT !.template = Alias(@)]
Renamed(f) ==
    [a \in {Alias(t) : t \in DOMAIN f} |-> f[CHOOSE t \in DOMAIN f : Alias(t) = a]]

\* Mutant: the curves keep the private names.
RedactNoCurves(r) ==
    [r EXCEPT !.runs = <<>>, !.rows = [i \in DOMAIN @ |-> Named(@[i])],
              !.policy = Renamed(@), !.derived.templates = Renamed(@)]

\* redact_report_for_public: no runs, and the public name of every Template, row by
\* row, where the report has its private one.
Redact(r) ==
    [r EXCEPT !.runs = <<>>, !.rows = [i \in DOMAIN @ |-> Named(@[i])],
              !.policy = Renamed(@), !.derived.templates = Renamed(@),
              !.derived.retention = [n \in DOMAIN @ |-> Named(@[n])]]

\* verify_score: from the runs, when the report has them, or from the Instance rows.
Verify(r) ==
    /\ r.runs # <<>> =>
        LET R == [k \in DOMAIN r.runs |-> r.runs[k].run]
        IN  /\ \A k \in DOMAIN R : r.runs[k].score = RunScore(R, k)
            /\ r.rows = InstanceRows(R)
            /\ r.failures = FailureRate(R)
            /\ r.stats # None => r.stats = Statistics(R, r.policy)
    /\ r.derived = Derived(r.rows, r.policy, r.official, r.failures)

----------------------------------------------------------------------------
(* Running the pack *)

\* How a run usually goes: the Agent uses its memory, or it is blind to it and does
\* as well without.  "twin" says that the answer is the twin's.
Answer(score, twin) == [outcome |-> "scored", score |-> score, twin |-> twin]
Failure == [outcome |-> "execution_failure", score |-> Zero, twin |-> FALSE]
Usual(k) ==
    LET useless == cfg.agent = "useless" \/ (cfg.agent = "uneven" /\ k.rep = 0)
        right == /\ ~useless
                 /\ IF cfg.agent = "blind" THEN Kind(k) # "twin"
                    ELSE Kind(k) \notin {"relevant", "no_memory"}
    IN  Answer(IF right THEN One ELSE Zero, right /\ Kind(k) = "twin")
Opposite(k) ==
    LET a == Usual(k)
    IN  CASE Kind(k) = "twin" -> Answer(QSub(One, a.score), ~a.twin)
          [] Kind(k) = "full" /\ a.score = One -> Answer(Zero, TRUE)
          [] OTHER -> Answer(QSub(One, a.score), FALSE)

\* One Probe of the run may be answered otherwise, or fail; or the run is broken off.
Artifacts(k) ==
    LET all(a) == [p \in DOMAIN ProbesOf(k) |-> a]
        one(p, a) == [all(Usual(k)) EXCEPT ![p] = a]
    IN  {[valid |-> TRUE, probes |-> all(Usual(k))], [valid |-> FALSE, probes |-> all(Failure)]}
        \cup {[valid |-> TRUE, probes |-> one(p, a)] :
                p \in DOMAIN ProbesOf(k), a \in {Opposite(k), Failure}}
        \cup {[valid |-> FALSE, probes |-> all(Usual(k))]}
AsUsual(k) == runs[k] = [valid |-> TRUE, probes |-> [p \in DOMAIN ProbesOf(k) |-> Usual(k)]]
Off == {k \in DOMAIN runs : ~AsUsual(k)}

\* run_generated_pack, run_materialized_pack: one run after the other, in an order
\* that nothing depends on.
Run ==
    /\ plan # {}
    /\ LET k == CHOOSE key \in plan : TRUE
       IN  /\ \E artifact \in Artifacts(k) : runs' = Put(runs, k, artifact)
           /\ plan' = plan \ {k}
    /\ UNCHANGED <<cfg, report, public, edited>>
    /\ Cardinality(Off') <= MaxOff

\* build_pack_report: without a run there is nothing to report.
Report ==
    /\ plan = {} /\ runs # <<>> /\ report = NoReport
    /\ report' = ReportOf(runs)
    /\ UNCHANGED <<cfg, plan, runs, public, edited>>

Publish ==
    /\ report # NoReport /\ public = NoReport /\ edited = None
    /\ public' = Redact(report)
    /\ UNCHANGED <<cfg, plan, runs, report, edited>>

\* One figure of a report is raised, or one flag flipped.
Edits(r) ==
    {[r EXCEPT !.derived.score = One], [r EXCEPT !.derived.official = TRUE],
     [r EXCEPT !.derived.partial = FALSE], [r EXCEPT !.failures = Zero],
     [r EXCEPT !.official = TRUE]}
    \cup {[r EXCEPT !.derived.dims[d].score = One] : d \in DOMAIN r.derived.dims}
    \cup {[r EXCEPT !.derived.dims[d].coverage = One] : d \in DOMAIN r.derived.dims}
    \cup {[r EXCEPT !.derived.dependence[d].eligible = TRUE] : d \in DOMAIN r.derived.dependence}
    \cup {[r EXCEPT !.rows[i].full = One] : i \in DOMAIN r.rows}
    \cup {[r EXCEPT !.runs[k].score = One] : k \in {j \in DOMAIN r.runs : Kind(j) = "full"}}
    \cup {[r EXCEPT !.runs[k].run.valid = ~@] : k \in {j \in DOMAIN r.runs : Kind(j) = "twin"}}
Edit ==
    /\ public # NoReport /\ edited = None
    /\ \/ report' \in Edits(report) \ {report} /\ edited' = "report" /\ UNCHANGED public
       \/ public' \in Edits(public) \ {public} /\ edited' = "public" /\ UNCHANGED report
    /\ UNCHANGED <<cfg, plan, runs>>

Init ==
    /\ cfg \in Configs
    /\ plan = Plan(cfg)
    /\ runs = <<>>
    /\ report = NoReport /\ public = NoReport /\ edited = None

Next == Run \/ Report \/ Publish \/ Edit

Spec == Init /\ [][Next]_vars

----------------------------------------------------------------------------
(* Properties *)

Written == report # NoReport /\ edited = None

\* An Agent that fails to answer a Probe never scores more than one that answers it
\* wrong, in the run and in the Instance: failures stay in the denominator.
FailingNeverHelps ==
    Written => \A k \in {j \in DOMAIN runs : Kind(j) = "full"} :
        \A p \in DOMAIN runs[k].probes :
            LET failed == [runs EXCEPT ![k].probes[p] = Failure]
            IN  /\ QLeq(RunScore(failed, k), RunScore(runs, k))
                /\ QLeq(InstanceScore(failed, Instance(k)), InstanceScore(runs, Instance(k)))

\* Memory that makes no difference earns nothing: when every variant of an Instance
\* scores as its control does, the causal Dimension is undefined or zero, however
\* stable the Agent is; and answers that do not change with the history show no
\* dependence.
BlindEarnsNothing ==
    Written => \A i \in DOMAIN report.rows :
        /\ (\A k \in Keys(runs, i) : Kind(k) \in {"relevant", "no_memory"} =>
               \A p \in DOMAIN runs[k].probes :
                   runs[k].probes[p].score = runs[In(k, "full")].probes[p].score)
           /\ Causal \in DOMAIN report.rows[i].dims
             => report.rows[i].dims[Causal] = Zero
        /\ (\A k \in Keys(runs, i) : Kind(k) = "twin" =>
               \A p \in DOMAIN runs[k].probes :
                   runs[k].probes[p].twin = runs[In(k, "full")].probes[p].twin)
             => \A d \in DOMAIN report.rows[i].joint : report.rows[i].joint[d].effect = Zero

\* A run that was broken off takes its pairs with it: whatever it would have scored,
\* no causal metric and no evidence of dependence changes.
BrokenPairsCountNowhere ==
    Written => \A k \in {j \in DOMAIN runs : ~runs[j].valid} :
        LET i == Instance(k)
            other == [runs EXCEPT ![k].probes = [p \in DOMAIN @ |-> Opposite(k)]]
        IN  /\ Metrics(other, Keys(other, i)) = Metrics(runs, Keys(runs, i))
            /\ JointEvidence(other, i) = JointEvidence(runs, i)

\* Causal metrics and dependence are earned from whole pairs in which memory made a
\* difference (causal_metrics_by_dimension, validate_causal_pairs, joint_evidence).
CausalCreditIsEarned == BlindEarnsNothing /\ BrokenPairsCountNowhere

\* An official score rests on every required Template: all were executed, every
\* opportunity of the dependence gate was valid in every weighted Dimension, and
\* the runs failed no more often than the Profile tolerates.
OfficialIsComplete ==
    Written /\ report.derived.official =>
        /\ Executed = DOMAIN Templates
        /\ QLeq(FailureRate(runs), Profile.maxFailures)
        /\ \A k \in DOMAIN runs :
             (k.rung = Profile.canonical /\ Kind(k) \in {"full", "twin"}) => runs[k].valid

\* The report and the bootstrap compute the same score along different ways - over
\* all pairs of an Instance, and out of its repetitions - wherever the bootstrap has
\* a point estimate at all.
PathsAgree ==
    Written /\ report.derived.coverage = One =>
        LET stats == Statistics(runs, Policy)
        IN  /\ stats.score = report.derived.score
            /\ \A d \in DOMAIN stats.dims : stats.dims[d] = report.derived.dims[d].score

\* The verifier accepts a report as the harness writes it, and its public copy.
\* Where it does not - Templates that were not executed, together with a bootstrap;
\* aliases that sort otherwise than the ids - see VerifierAcceptsPartial and
\* VerifierAcceptsPublic.
AliasesKeepOrder ==
    /\ \A s, t \in DOMAIN Templates : cfg.aliases[s] = cfg.aliases[t] => s = t
    /\ \A s, t \in Executed : s < t <=> cfg.aliases[s] < cfg.aliases[t]
VerifierAcceptsWritten ==
    Written /\ (~cfg.bootstrap \/ report.derived.coverage = One) => Verify(report)
VerifierAcceptsRenamed ==
    Written /\ public # NoReport /\ AliasesKeepOrder => Verify(public)

Headline(derived) == <<derived.score, derived.official, derived.partial>>

\* No change of a single figure or flag passes the verifier and leaves a report with
\* another headline than the runs have.
VerifierKeepsHeadline ==
    LET r == IF edited = "report" THEN report ELSE public
        right == Derived(InstanceRows(runs), Policy, cfg.official, FailureRate(runs))
    IN  (/\ edited # None
         /\ r.official = cfg.official
         /\ Headline(r.derived) # Headline(right)) => ~Verify(r)

\* What verify_score accepts is the headline the runs have.
VerifierIsExact ==
    VerifierAcceptsWritten /\ VerifierAcceptsRenamed /\ VerifierKeepsHeadline

\* What the documents say of the verifier without these exceptions.
VerifierAcceptsPartial == Written => Verify(report)
VerifierAcceptsPublic == Written /\ public # NoReport => Verify(public)

============================================================================
