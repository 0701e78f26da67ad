----------------------------- MODULE Calibration ----------------------------
(***************************************************************************)
(* The same-model calibration (same_model_calibration.py): four memory     *)
(* conditions of one model run interleaved over all units, the causal      *)
(* ablations of B3, the optional transfer cells and the unbounded          *)
(* reference, and out of them one report that says whether the pack may be *)
(* released - and the verifier that recomputes this from the report alone. *)
(* Scores are percentages.  What a run costs the experiment besides its    *)
(* score is what its recorder and its receipts keep.                       *)
(***************************************************************************)
EXTENDS Integers, FiniteSets, SequencesExt, FiniteSetsExt

CONSTANTS
    Templates, Seeds, CausalSeeds,   \* sequences
    MinInstances,                    \* causal_min_instances
    Configs,                         \* the experiment configurations
    MaxFaults,                       \* bound: runs that do not go as well as they can
    NoReport, None

\* What an InvocationRecorder has seen.
Recorder == [calls : BOOLEAN, errors : BOOLEAN, truncated : BOOLEAN]

\* A pack has Templates, each with an identifier of its own.
ASSUME CalibrationAssumption ==
    /\ Templates \in Seq(Range(Templates)) /\ Templates # <<>> /\ IsInjective(Templates)
    /\ Seeds \in Seq(Range(Seeds)) /\ CausalSeeds \in Seq(Range(CausalSeeds))
    /\ \A c \in Configs : {c.stub, c.bounded, c.reference, c.transfer} \subseteq BOOLEAN
    /\ None \notin Recorder \cup BOOLEAN

VARIABLES
    cfg,         \* stub, purpose, bounded (B1), reference, transfer
    preflight,   \* _preflight_statelessness passed
    plan,        \* the runs that are still to be made, in order
    results,     \* how each run that was made came out
    recorders,   \* per arm, what its InvocationRecorder has seen
    report,      \* the report, once it is written
    edited       \* it was changed afterwards

vars == <<cfg, preflight, plan, results, recorders, report, edited>>

Conditions == <<"B0", "B1", "B2", "B3">>
Arms == {"B0", "B1", "B2", "B3", "reference"}
Ablations == <<"relevant", "irrelevant">>
Thresholds == [full_context |-> 80, no_memory |-> 60, mdi |-> 25, span |-> 20,
               benefit |-> 20, stability |-> 90]

----------------------------------------------------------------------------
(* The plan of an experiment *)

Units == FlattenSeq([i \in DOMAIN Templates |->
            [j \in DOMAIN Seeds |-> [template |-> Templates[i], seed |-> Seeds[j]]]])

\* _condition_schedule: the order of the conditions is rotated from unit to unit.
Order(k) == [p \in 1..4 |-> Conditions[((k + p - 2) % 4) + 1]]

Job(stage, unit, arm, what) == [stage |-> stage, unit |-> unit, arm |-> arm, what |-> what]

FullPlan == FlattenSeq([k \in DOMAIN Units |->
                [p \in 1..4 |-> Job("full", Units[k], Order(k)[p], "full")]])

\* Every causal unit has its ablations, and a Full run of its own unless the
\* interleaved runs hold one (_run_causal_from_paired_b3, _run_transfer_cells).
OwnFull(stage, unit) ==
    IF unit \in Range(Units) THEN <<>> ELSE <<Job(stage, unit, "B3", "full")>>
CausalUnits == FlattenSeq([i \in DOMAIN Templates |->
    [j \in DOMAIN CausalSeeds |-> [template |-> Templates[i], seed |-> CausalSeeds[j]]]])
CausalPlan == FlattenSeq([k \in DOMAIN CausalUnits |->
    OwnFull("causal", CausalUnits[k]) \o
    [a \in DOMAIN Ablations |-> Job("causal", CausalUnits[k], "B3", Ablations[a])]])
TransferPlan == FlattenSeq([k \in DOMAIN CausalUnits |->
    OwnFull("transfer", CausalUnits[k]) \o <<Job("transfer", CausalUnits[k], "B3", "cells")>>])
ReferencePlan == [k \in DOMAIN Units |-> Job("reference", Units[k], "reference", "full")]

Plan(c) == FullPlan \o CausalPlan
             \o (IF c.transfer THEN TransferPlan ELSE <<>>)
             \o (IF c.reference THEN ReferencePlan ELSE <<>>)

----------------------------------------------------------------------------
(* Making the runs *)

\* The score of a run that goes as the Templates intend, and of one that does not.
Intended(job) ==
    CASE job.arm = "B0" \/ job.what = "relevant" -> 0
      [] job.arm = "B2" /\ job.what # "relevant" -> 50
      [] OTHER -> 100

\* "error": an attempt of the model failed and its repetition did not;
\* "broken" and "unclosed": a lifecycle operation failed, at the start or after the
\* last Probe; "truncated": the budget left out a record, where the arm has one.
Outcomes(job) ==
    {"good", "off", "error", "broken", "unclosed"}
        \cup (IF cfg.bounded /\ job.arm = "B1" THEN {"truncated"} ELSE {})

ScoreOf(job, outcome) ==
    CASE outcome = "off" -> 100 - Intended(job)
      [] outcome = "broken" -> 0
      [] OTHER -> Intended(job)

Faults == {j \in DOMAIN results : results[j].outcome # "good"}

Execute(outcome) ==
    /\ preflight # None /\ plan # <<>>
    /\ outcome \in Outcomes(Head(plan))
    /\ outcome # "good" => Cardinality(Faults) < MaxFaults
    /\ LET job == Head(plan)
       IN  /\ results' = [j \in DOMAIN results \cup {job} |->
                            IF j = job THEN [outcome |-> outcome, score |-> ScoreOf(job, outcome)]
                            ELSE results[j]]
           /\ recorders' = [recorders EXCEPT
                 ![job.arm].calls = TRUE,
                 ![job.arm].errors = @ \/ outcome = "error",
                 ![job.arm].truncated = @ \/ outcome = "truncated"]
    /\ plan' = Tail(plan)
    /\ UNCHANGED <<cfg, preflight, report, edited>>

\* A client of its own answers A, B and A again.
Preflight ==
    /\ preflight = None
    /\ preflight' \in BOOLEAN
    /\ UNCHANGED <<cfg, plan, results, recorders, report, edited>>

----------------------------------------------------------------------------
(* The cards: means, metrics and gates of a Template *)

SumOf(jobs) == MapThenSumSet(LAMBDA j : results[j].score, jobs)
MeanOf(jobs) == SumOf(jobs) \div Cardinality(jobs)
RunsOf(stage, t, arm) ==
    {j \in DOMAIN results : j.stage = stage /\ j.unit.template = t /\ j.arm = arm}

Abs(x) == IF x < 0 THEN -x ELSE x

\* The Full run a causal unit is compared with.
FullOf(unit) ==
    CHOOSE j \in DOMAIN results : j.unit = unit /\ j.arm = "B3" /\ j.what = "full"
                                  /\ j.stage \in {"full", "causal"}
Valid(j) == results[j].outcome \notin {"broken", "unclosed"}

\* The metric of a causal unit, if its pair is valid (paired_causal_metrics).
PairValid(unit, a) == Valid(FullOf(unit)) /\ Valid(Job("causal", unit, "B3", a))
Effect(unit, a) ==
    LET delta == results[FullOf(unit)].score - results[Job("causal", unit, "B3", a)].score
    IN  IF a = "relevant" THEN delta ELSE 100 - Abs(delta)

SumOfEffects(units, a) == MapThenSumSet(LAMBDA u : Effect(u, a), units)

\* A causal gate is decided only when every instance was measured completely.
CausalGate(t, a, threshold) ==
    LET units == {u \in Range(CausalUnits) : u.template = t}
        measured == {u \in units : PairValid(u, a)}
        complete == \A u \in units : \A b \in Range(Ablations) : PairValid(u, b)
        instances == Cardinality({u.seed : u \in measured})
    IN  IF /\ complete /\ measured = units /\ CausalSeeds # <<>>
           /\ instances >= Len(CausalSeeds) /\ instances >= MinInstances
        THEN SumOfEffects(measured, a) >= threshold * Cardinality(measured)
        ELSE None

\* The complete-history score: of B1 when it is unbounded, else of the reference.
FullReference(t) ==
    IF ~cfg.bounded THEN MeanOf(RunsOf("full", t, "B1"))
    ELSE IF cfg.reference THEN MeanOf(RunsOf("reference", t, "reference")) ELSE None

Card(t) ==
    LET mean(arm) == MeanOf(RunsOf("full", t, arm))
        full == FullReference(t)
        b == {mean(Conditions[i]) : i \in 1..4}
    IN  [full_context |-> IF full = None THEN None ELSE full >= Thresholds.full_context,
         no_memory |-> mean("B0") <= Thresholds.no_memory,
         mdi |-> IF full = None THEN None ELSE full - mean("B0") >= Thresholds.mdi,
         baseline_span |-> Max(b) - Min(b) >= Thresholds.span,
         causal_sensitivity |-> CausalGate(t, "relevant", Thresholds.benefit),
         irrelevant_stability |-> CausalGate(t, "irrelevant", Thresholds.stability)]

\* Admission needs these gates, each decided and passed.
AdmissionGates ==
    {"full_context", "no_memory", "mdi", "causal_sensitivity", "irrelevant_stability"}
Admitted(card) == \A g \in AdmissionGates : card[g] = TRUE

----------------------------------------------------------------------------
(* The audits *)

\* _schedule_audit: how often each condition is run at each position.
PositionCounts == [b \in Range(Conditions) |-> [p \in 1..4 |->
                     Cardinality({k \in DOMAIN Units : Order(k)[p] = b})]]
Balanced ==
    LET counts == UNION {Range(PositionCounts[b]) : b \in Range(Conditions)}
    IN  Max(counts) - Min(counts) <= 1

\* Mutant: the runs of the reference arm are not looked at.
AuditedFullRunsOnly == {j \in DOMAIN results : j.stage = "full"}

\* The runs that admission rests on.
AuditedRuns ==
    {j \in DOMAIN results :
        j.stage = "full" \/ (j.stage = "reference" /\ cfg.bounded)}

\* Whether a run put its Probes, whose variants are on record: all of them, also if it
\* could not be closed, or none.
PutProbes(j) == results[j].outcome # "broken"

\* _probe_pairing_audit: the runs of a unit put the same Probes, in the same variants.
Paired ==
    \A j, k \in AuditedRuns : j.unit = k.unit => (PutProbes(j) <=> PutProbes(k))

\* Mutant: the recorder of the reference arm is not looked at.
AuditedConditionsOnly == Range(Conditions)

\* The recorders that are audited with a report.
AuditedRecorders ==
    Range(Conditions) \cup (IF cfg.bounded /\ cfg.reference THEN {"reference"} ELSE {})

\* The history the gates are measured on was complete.
Untruncated(bounded, reference, telemetry) ==
    IF bounded THEN reference # None /\ ~reference.truncated ELSE ~telemetry["B1"].truncated

\* _fairness_audit, over the retained evidence.  "fingerprints" stands for the
\* checks that need one identity, one prompt, one policy and one decoding: with a
\* single client and configuration they hold as soon as there is a call.
Audit(audited, passed, balanced, paired, untruncated, clean) ==
    LET checks == [fingerprints |-> \E x \in audited : x.calls,
                   preflight |-> passed,
                   order |-> balanced,
                   pairing |-> paired,
                   history |-> untruncated,
                   errors |-> ~\E x \in audited : x.errors,
                   lifecycle |-> clean]
    IN  [checks |-> checks, valid |-> \A c \in DOMAIN checks : checks[c]]

----------------------------------------------------------------------------
(* The report *)

ReportOf ==
    LET telemetry == [b \in Range(Conditions) |-> recorders[b]]
        reference == IF cfg.reference THEN recorders["reference"] ELSE None
        audit == Audit({recorders[a] : a \in AuditedRecorders}, preflight, Balanced, Paired,
                       Untruncated(cfg.bounded, reference, telemetry),
                       AuditedRuns # {} /\ \A j \in AuditedRuns : Valid(j))
        cards == [t \in Range(Templates) |-> Card(t)]
        total == Len(Templates)
        passed == Cardinality({t \in Range(Templates) : Admitted(cards[t])})
        eligible == ~cfg.stub /\ audit.valid /\ passed = total /\ cfg.purpose = "full"
    IN  [bounded |-> cfg.bounded, purpose |-> cfg.purpose, digest |-> <<cfg.bounded, cfg.purpose>>,
         stub |-> cfg.stub, preflight |-> preflight, balanced |-> Balanced, paired |-> Paired,
         telemetry |-> telemetry, reference |-> reference, audit |-> audit,
         cards |-> cards, templates |-> total, admitted |-> passed,
         gate |-> [eligible |-> eligible, non_stub |-> ~cfg.stub, fairness |-> audit.valid,
                   total |-> total, passed |-> passed, all |-> passed = total],
         calibration |-> eligible]

WriteReport ==
    /\ preflight # None /\ plan = <<>> /\ report = NoReport
    /\ report' = ReportOf
    /\ UNCHANGED <<cfg, preflight, plan, results, recorders, edited>>

\* Someone changes one field of the report.
Flips(r) ==
    {[r EXCEPT ![f] = ~@] : f \in {"bounded", "stub", "preflight", "balanced", "paired", "calibration"}}
    \cup {[r EXCEPT !.audit.valid = ~@]}
    \cup {[r EXCEPT !.audit.checks[c] = ~@] : c \in DOMAIN r.audit.checks}
    \cup {[r EXCEPT !.gate[g] = ~@] : g \in {"eligible", "non_stub", "fairness", "all"}}
    \cup {[r EXCEPT !.telemetry[b].errors = ~@] : b \in DOMAIN r.telemetry}
    \cup {[r EXCEPT !.cards[t][g] = TRUE] : t \in DOMAIN r.cards, g \in AdmissionGates}
    \cup {[r EXCEPT !.purpose = "full"], [r EXCEPT !.reference = None],
          [r EXCEPT !.admitted = r.templates], [r EXCEPT !.gate.passed = r.templates]}

Edit ==
    /\ report # NoReport /\ ~edited
    /\ report' \in Flips(report) \ {report}
    /\ edited' = TRUE
    /\ UNCHANGED <<cfg, preflight, plan, results, recorders>>

\* _verify_same_model_report: everything that can be recomputed is, and compared.
Verify(r) ==
    LET needed == r.bounded /\ r.reference # None
        audited == Range(r.telemetry) \cup (IF needed THEN {r.reference} ELSE {})
        rebuilt == Audit(audited, r.preflight, r.balanced, r.paired,
                         Untruncated(r.bounded, r.reference, r.telemetry),
                         r.audit.checks.lifecycle)
        passed == Cardinality({t \in DOMAIN r.cards : Admitted(r.cards[t])})
        total == Cardinality(DOMAIN r.cards)
        eligible == /\ ~r.stub /\ rebuilt.valid /\ r.purpose = "full"
                    /\ total > 0 /\ passed = total
    IN  /\ r.digest = <<r.bounded, r.purpose>>
        /\ r.audit.valid = \A c \in DOMAIN r.audit.checks : r.audit.checks[c]
        /\ r.audit = rebuilt
        /\ total > 0
        /\ r.templates = total /\ r.admitted = passed
        /\ r.gate.total = total /\ r.gate.passed = passed /\ r.gate.all = (passed = total)
        /\ r.gate.fairness = r.audit.valid
        /\ r.gate.non_stub = ~r.stub
        /\ r.gate.eligible = eligible /\ r.calibration = eligible

----------------------------------------------------------------------------

Init ==
    /\ cfg \in Configs
    /\ preflight = None
    /\ plan = Plan(cfg)
    /\ results = [j \in {} |-> None]
    /\ recorders = [a \in Arms |-> [calls |-> FALSE, errors |-> FALSE, truncated |-> FALSE]]
    /\ report = NoReport /\ edited = FALSE

Next ==
    \/ Preflight
    \/ \E outcome \in {"good", "off", "error", "broken", "unclosed", "truncated"} : Execute(outcome)
    \/ WriteReport
    \/ Edit

Spec == Init /\ [][Next]_vars

----------------------------------------------------------------------------
(* Properties *)

Reported == report # NoReport /\ ~edited
FaultsOf(stages, kinds) ==
    {j \in Faults : j.stage \in stages /\ results[j].outcome \in kinds}

\* A pack is released on evidence without a blemish: no model error in any run of
\* the four conditions, their ablations and the reference admission rests on, no
\* broken run among them, a complete history, and a model that keeps no state.
EligibleMeansClean ==
    Reported /\ report.gate.eligible =>
        /\ FaultsOf({"full", "causal"}, {"error", "broken", "unclosed"}) = {}
        /\ cfg.bounded => cfg.reference
                          /\ FaultsOf({"reference"}, {"error", "broken", "unclosed"}) = {}
        /\ preflight /\ ~cfg.stub /\ cfg.purpose = "full"

\* An experiment in which nothing went wrong can be released: no audit and no gate
\* stands in its way, the order of the conditions included.
CleanExperimentIsEligible ==
    Reported /\ Faults = {} /\ preflight /\ ~cfg.stub /\ cfg.purpose = "full"
    /\ (cfg.bounded => cfg.reference) => report.gate.eligible

\* A release asks for a clean experiment, and for nothing a clean experiment lacks:
\* the audits of _fairness and the gates let the right ones through, and only them.
EligibleIffClean == EligibleMeansClean /\ CleanExperimentIsEligible

\* The verifier accepts what the harness reports: the two compute every audit,
\* count and verdict alike, each from what it has.
VerifierAcceptsReports == Reported => Verify(report)

\* No change of a single field makes the verifier pass as releasable what is not.
VerifierCatchesEdits ==
    edited /\ report.gate.eligible /\ Verify(report) => ReportOf.gate.eligible

\* What verify_same_model_report accepts is what the harness decided.
VerifierIsExact == VerifierAcceptsReports /\ VerifierCatchesEdits

\* The claim of the report's comment: transfer diagnostics never enter the
\* decision.  What happens in their runs alone leaves it as it would be.
TransferNeverDecides ==
    Reported /\ Faults = FaultsOf({"transfer"}, {"off", "error", "broken", "unclosed"})
    /\ preflight /\ ~cfg.stub /\ cfg.purpose = "full"
    /\ (cfg.bounded => cfg.reference) => report.gate.eligible

============================================================================
