------------------------------ MODULE Evaluator -----------------------------
(***************************************************************************)
(* How an output is scored (evaluator.py).  An answer is a value, a status *)
(* and whatever else the output shows; an Oracle is the status it expects, *)
(* the values it accepts, those it forbids and those that were withdrawn.  *)
(* Scores are in tenths, so that the rubric's weights are 8 and 2.         *)
(***************************************************************************)
EXTENDS Absent, Integers, Sequences, FiniteSets

Full == 10

Answer(value, status) == [form |-> "structured", value |-> value, status |-> status, also |-> {}]
Abstention == [form |-> "abstention", value |-> None, status |-> "unknown", also |-> {"unknown"}]

\* _STATUS_CLASS: the statuses that satisfy an expected one.
StatusClass(expected) == IF expected = "historical" THEN {"historical", "known"} ELSE {expected}

Abstains(out) == out.form = "abstention" \/ out.status = "unknown" \/ out.value = "unknown"

\* _scoped_disclosure: a withdrawn value shown anywhere, or a forbidden one as the answer.
Discloses(out, oracle) ==
    \/ ({out.value} \cup out.also) \cap oracle.withdrawn # {}
    \/ out.value \in oracle.forbidden

\* _score_value: forbidden first, then what an abstention is worth.
ValueRight(out, oracle) ==
    /\ ~Discloses(out, oracle)
    /\ IF oracle.status = "unknown" THEN Abstains(out) \/ out.value \in oracle.accepted
       ELSE ~Abstains(out) /\ out.value \in oracle.accepted

\* An answer that claims not to know and names a value.
Inconsistent(out) == out.status = "unknown" /\ out.value \notin {None, "unknown"}

\* evaluate_structured, as generated Scenarios configure it: the value must be right,
\* and then the status is worth two tenths.
Structured(out, oracle) ==
    LET right == ValueRight(out, oracle) /\ ~Inconsistent(out)
    IN  [score |-> IF ~right THEN 0
                   ELSE 8 + (IF out.status \in StatusClass(oracle.status) THEN 2 ELSE 0),
         match |-> right]

Complete(b) == [score |-> IF b THEN Full ELSE 0, match |-> b]

\* evaluate_emission of a commitment's lifecycle: every reminder that is due comes in its
\* window, and nothing else was emitted since the commitment.
Emission(log, oracle) ==
    LET since == {n \in DOMAIN log : log[n].at >= oracle.start}
        due(n, item) == log[n].topic = item.topic /\ log[n].at \in item.at..(item.at + oracle.window)
        met == {item \in oracle.expected : \E n \in since : due(n, item)}
    IN  Complete(met = oracle.expected /\ Cardinality(since) = Cardinality(met))

\* evaluate_world_state with require_all.
WorldState(world, assertions) ==
    \A n \in DOMAIN assertions : world[assertions[n].part][assertions[n].field] = assertions[n].value

\* evaluate_trajectory: nothing done earns nothing for what was not done.
Trajectory(tools, oracle) ==
    LET done == {tools[n] : n \in DOMAIN tools}
    IN  oracle.required \subseteq done /\ done # {} /\ oracle.banned \cap done = {}

\* evaluate_probe, for an act Probe: eval-world-strict and eval-action-strict.
Acted(world, tools, oracle) ==
    Complete(/\ WorldState(world, oracle.assertions)
             /\ oracle.trajectory => Trajectory(tools, oracle))

\* Mutant: every Probe stands by itself.
Uncredited(results, probe) == results[probe.id].score

\* apply_conditional_probes: credit only with the Probes it depends on.
Credited(results, probe) ==
    IF \A id \in probe.gate : id \in DOMAIN results /\ results[id].match
    THEN results[probe.id].score ELSE 0

=============================================================================
