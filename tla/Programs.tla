------------------------------ MODULE Programs ------------------------------
(***************************************************************************)
(* The generated Scenarios: what each Program puts on the timeline and     *)
(* asks (generate/programs.py, extended.py, procedural.py), and what the   *)
(* builder derives from the record: Oracles, evidence to withhold and      *)
(* twins (generate/base.py).  A scenario is a Program and a branch of it;  *)
(* the values a seed would draw are fixed, the noise and the alternative   *)
(* values are not.                                                         *)
(***************************************************************************)
EXTENDS WorldModel, Evaluator, Simulator, SequencesExt

CONSTANTS Values,     \* the pool of every attribute but those of the multi-hop chain
          Mentioned   \* the values that interference mentions

Pool(attr) == CASE attr = "project" -> {"orion", "vega", "lyra"}
                [] attr = "zone" -> {"atlantic", "pacific", "alpine"}
                [] OTHER -> Values

----------------------------------------------------------------------------
(* The builder's primitives *)

Blank == [id |-> None, form |-> "note", who |-> None, subject |-> None, attribute |-> None,
          value |-> None, kind |-> None, truth |-> FALSE, sup |-> None, at |-> None,
          from |-> None, task |-> None, update |-> None, topic |-> None]

Event(id, form) == [Blank EXCEPT !.id = id, !.form = form]
Note(id) == Event(id, "note")

\* say: a first-person statement bears truth, another's does not unless it is given.
Say(id, who, subject, attr, value, kind) ==
    [Event(id, "said") EXCEPT !.who = who, !.subject = subject, !.attribute = attr, !.value = value,
        !.kind = kind, !.truth = (who = subject /\ kind \in {"state", "update", "correction"})]
Truly(e) == [e EXCEPT !.truth = TRUE]
Of(e, id) == [e EXCEPT !.sup = id]
Retract(id, who, subject, attr, of) == Of(Say(id, who, subject, attr, None, "retraction"), of)
ObserveTool(id, tool, subject, attr, value) ==
    Truly([Say(id, tool, subject, attr, value, "observation") EXCEPT !.form = "lookup"])

Task(id, goal) == [Event(id, "task") EXCEPT !.task = goal]
Reset(id, workflow) == [Event(id, "reset") EXCEPT !.update = workflow]
Goal(family, series, reverse) ==
    [tool |-> "workflow", family |-> family, series |-> series, reverse |-> reverse]
Maintenance == [tool |-> "deployment", family |-> None, series |-> None, reverse |-> FALSE]

\* What an event adds to the record, as the n-th event of the builder.
Asserting(e) == e.form \in {"said", "lookup", "record", "authority"}
Assertion(e, n) ==
    [id |-> e.id, seq |-> IF e.at = None THEN n ELSE e.at, source |-> e.who, subject |-> e.subject,
     attribute |-> IF e.form = "authority" THEN Authority(e.attribute) ELSE e.attribute,
     value |-> e.value, kind |-> e.kind, truth |-> e.truth, supersedes |-> e.sup, from |-> e.from,
     to |-> None, derived |-> {}]
RecordOf(events) ==
    {Assertion(events[n], n) : n \in {m \in DOMAIN events : Asserting(events[m])}}

----------------------------------------------------------------------------
(* What a Program asks *)

Query(op, subject, attr) ==
    [op |-> op, subject |-> subject, attribute |-> attr, before |-> None, source |-> None,
     valid |-> 0, recorded |-> 0]

\* probe: which names the question's wording, from which an Agent tells what is asked.
Probe(id, which, query) ==
    [id |-> id, delivery |-> "respond", which |-> which, query |-> query, historical |-> FALSE,
     swap |-> TRUE, gate |-> {}, goal |-> None, update |-> None, oracle |-> None]
Historical(p) == [p EXCEPT !.historical = TRUE]
NoSwap(p) == [p EXCEPT !.swap = FALSE]
After(p, id) == [p EXCEPT !.gate = {id}]
ActProbe(id, goal, update, oracle) ==
    [Probe(id, None, None) EXCEPT !.delivery = "act", !.goal = goal, !.update = update, !.oracle = oracle]
TriggerProbe(id, oracle) ==
    [Probe(id, None, None) EXCEPT !.delivery = "observe_only", !.oracle = oracle]

WorkflowOracle(recipe) ==
    [assertions |-> <<[part |-> "workflow", field |-> "first", value |-> recipe],
                      [part |-> "workflow", field |-> "completed", value |-> TRUE]>>,
     trajectory |-> FALSE, required |-> {}, banned |-> {}]
\* The standing rule forbids one half of the maintenance task and permits the other.
SelfOracle(noRestart) ==
    [assertions |-> <<[part |-> "deployment", field |-> "running", value |-> ~noRestart]>>,
     trajectory |-> TRUE, required |-> {IF noRestart THEN "migrate" ELSE "restart"},
     banned |-> {IF noRestart THEN "restart" ELSE "migrate"}]
CommitmentOracle(topics) == [after |-> "e-commit", topics |-> topics, window |-> 0]

----------------------------------------------------------------------------
(* The Programs *)

RecallScript ==
    << Say("e-fact", "p", "p", "city", "v1", "state"),
       Say("e-project", "p", "p", "project", "orion", "state"),
       Truly(Say("e-zone", "c", "orion", "zone", "atlantic", "state")),
       Truly(Say("e-zone-decoy", "c", "vega", "zone", "pacific", "state")),
       Truly(Say("e-utc", "c", "atlantic", "utc", "v1", "state")),
       Truly(Say("e-utc-decoy", "c", "pacific", "utc", "v2", "state")) >>
RecallProbes ==
    << Probe("p-recall", "current", Query("current", "p", "city")),
       Probe("p-hop", "hop", Query("hop", "p", <<"project", "zone", "utc">>)) >>

\* One update, or two.
TemporalScript(two) ==
    << Say("e-state", "p", "p", "city", "v1", "state"),
       Note("n-1"),
       Say("e-update-1", "p", "p", "city", "v2", "update") >>
    \o (IF two THEN << Note("n-2"), Say("e-update-2", "p", "p", "city", "v3", "update") >> ELSE <<>>)
TemporalProbes(two) ==
    << Probe("p-current", "current", Query("current", "p", "city")),
       Historical(Probe("p-before", "before", [Query("as_of", "p", "city") EXCEPT
                            !.before = IF two THEN "e-update-2" ELSE "e-update-1"])),
       Historical(Probe("p-first", "first", Query("first_stated", "p", "city"))) >>

\* Resolved by the calendar, or left contested.
EpistemicScript(resolved) ==
    << Say("e-bday", "p", "p", "birthday", "v1", "state"),
       Note("n-1"),
       Of(Say("e-bday-fix", "p", "p", "birthday", "v2", "correction"), "e-bday"),
       Note("e-authority"),
       Truly(Say("e-org", "o", "review", "start", "v1", "state")),
       Say("e-col", "c", "review", "start", "v2", "contradiction") >>
    \o (IF resolved THEN << ObserveTool("e-cal", "calendar", "review", "start", "v1") >> ELSE <<>>)
EpistemicProbes ==
    << Probe("p-bday", "current", Query("current", "p", "birthday")),
       Historical(Probe("p-bday-first", "first", Query("first_stated", "p", "birthday"))),
       Probe("p-use", "current", Query("current", "review", "start")),
       Probe("p-said", "said_by", [Query("said_by", "review", "start") EXCEPT !.source = "c"]),
       After(Probe("p-status", "status", Query("status", "review", "start")), "p-use"),
       After(NoSwap(Probe("p-unknown", "known", Query("known", "p", "office"))), "p-bday") >>

ForgettingScript ==
    << Say("e-forget", "p", "p", "office", "v1", "state"), Note("n-1"),
       Say("e-keep", "p", "p", "city", "v2", "state"), Note("n-2"),
       Retract("e-retract", "p", "p", "office", "e-forget") >>
ForgettingProbes ==
    << After(NoSwap(Probe("p-forgotten", "known", Query("current", "p", "office"))), "p-kept"),
       After(NoSwap(Probe("p-forgotten-history", "first", Query("first_stated", "p", "office"))), "p-kept"),
       Probe("p-kept", "current", Query("current", "p", "city")) >>

\* The subject authorizes a new value after the withdrawal.
RelearningScript ==
    ForgettingScript \o << Note("renew"), Say("relearn", "p", "p", "office", "v3", "state") >>
RelearningProbes ==
    << [ForgettingProbes[1] EXCEPT !.swap = TRUE],
       [ForgettingProbes[2] EXCEPT !.swap = TRUE, !.historical = TRUE],
       ForgettingProbes[3] >>

TemporalRecord(id, at, from, value, kind, sup) ==
    [Of(Truly(Say(id, "registry", "p", "office", value, kind)), sup) EXCEPT
        !.form = "record", !.at = at, !.from = from]
BitemporalScript ==
    << TemporalRecord("record-0", 10, 10, "v1", "state", None),
       TemporalRecord("record-1", 30, 10, "v2", "correction", "record-0"),
       TemporalRecord("record-2", 40, 35, "v3", "update", None) >>
At(id, valid, recorded) ==
    Historical(Probe(id, "bitemporal", [Query("bitemporal", "p", "office") EXCEPT
                                            !.valid = valid, !.recorded = recorded]))
BitemporalProbes == << At("p-time-0", 15, 20), At("p-time-1", 15, 35), At("p-time-2", 36, 45) >>

\* The owner of the decision speaks first, or second.
AuthorityScript(ownerFirst) ==
    LET owner == Truly(Say("claim-owner", "o", "p", "office", "v1", "state"))
        other == Say("claim-other", "c", "p", "office", "v2", "state")
        authority == [Truly(Say("authority", "p", "p", "office", "o", "state")) EXCEPT !.form = "authority"]
    IN  << authority >> \o (IF ownerFirst THEN << owner, other >> ELSE << other, owner >>)
AuthorityProbes == << Probe("p-owner", "authority", Query("authority", "p", "office")) >>

Commit(id, topic) == [Event(id, "commit") EXCEPT !.topic = topic]
Rule(noRestart) == [Event("e-limit", "rule") EXCEPT !.value = noRestart]
\* A commitment that stands, or one that is cancelled while another stands.
ProspectiveScript(cancelled, noRestart) ==
    << Commit("e-commit", "t1") >>
    \o (IF cancelled THEN << Commit("e-commit-2", "t2") >> ELSE <<>>)
    \o << Rule(noRestart),
          IF cancelled THEN [Event("e-near-1", "cancel") EXCEPT !.topic = "t1"] ELSE Note("e-near-1") >>
\* Without p-near, of weight 0: an occasion that is not the one asked for.
ProspectiveProbes(cancelled, noRestart) ==
    << TriggerProbe("p-trigger", CommitmentOracle({IF cancelled THEN "t2" ELSE "t1"})),
       ActProbe("p-self", Maintenance, None, SelfOracle(noRestart)) >>

\* build_workflow.
Recipe == <<"op1", "op2">>
Alternate == <<"op3", "op4">>
Revised == <<"op7", "op8">>
OtherRecipe == <<"op5">>
OtherAlternate == <<"op6">>
SeriesOf(transfer, n) == IF ~transfer THEN None ELSE IF n = 1 THEN "S1" ELSE "S2"
FutureFamily(transfer, n) ==
    IF transfer THEN (IF n = 1 THEN "F3" ELSE "F4") ELSE (IF n = 1 THEN "F1" ELSE "F2")
WorkflowScript(transfer, revision) ==
    << Note("brief"),
       Reset("w-acquire", Workflow("F1", SeriesOf(transfer, 1), Recipe)),
       Task("t-past", Goal("F1", SeriesOf(transfer, 1), FALSE)),
       Reset("w-repeat", Workflow("F1", SeriesOf(transfer, 1), Recipe)),
       Task("t-past-2", Goal("F1", SeriesOf(transfer, 1), FALSE)) >>
    \o (IF revision THEN << Note("revision"), Reset("w-revision", Workflow("F1", None, Revised)),
                            Task("t-revision", Goal("F1", None, FALSE)) >> ELSE <<>>)
    \o (IF transfer THEN << Reset("w-boundary", Workflow("F2", "S2", OtherRecipe)),
                            Task("t-boundary", Goal("F2", "S2", FALSE)) >> ELSE <<>>)
Expected(recipe, composition) == IF composition THEN Reverse(recipe) ELSE recipe
WorkflowProbes(transfer, revision, composition) ==
    LET recipe == Expected(IF revision THEN Revised ELSE Recipe, composition)
        reset(id, n, r) == Reset(id, Workflow(FutureFamily(transfer, n), SeriesOf(transfer, n), r))
    IN  (IF transfer
         THEN << ActProbe("p-nonmatch", Goal("F4", "S2", FALSE), reset("w-nonmatch", 2, OtherRecipe),
                          WorkflowOracle(OtherRecipe)) >> ELSE <<>>)
        \o << ActProbe("p-match", Goal(FutureFamily(transfer, 1), SeriesOf(transfer, 1), composition),
                       reset("w-future", 1, recipe), WorkflowOracle(recipe)) >>

----------------------------------------------------------------------------
(* A scenario: a Program and a branch of it *)

Script(s) ==
    CASE s.program = "recall" -> RecallScript
      [] s.program = "temporal" -> TemporalScript(s.branch)
      [] s.program = "epistemic" -> EpistemicScript(s.branch)
      [] s.program = "forgetting" -> ForgettingScript
      [] s.program = "relearning" -> RelearningScript
      [] s.program = "bitemporal" -> BitemporalScript
      [] s.program = "authority" -> AuthorityScript(s.branch)
      [] s.program = "prospective" -> ProspectiveScript(FALSE, s.branch)
      [] s.program = "cancelled" -> ProspectiveScript(TRUE, s.branch)
      [] s.program = "experience" -> WorkflowScript(FALSE, s.branch)
      [] s.program = "skill" -> WorkflowScript(TRUE, FALSE)

Probes(s) ==
    CASE s.program = "recall" -> RecallProbes
      [] s.program = "temporal" -> TemporalProbes(s.branch)
      [] s.program = "epistemic" -> EpistemicProbes
      [] s.program = "forgetting" -> ForgettingProbes
      [] s.program = "relearning" -> RelearningProbes
      [] s.program = "bitemporal" -> BitemporalProbes
      [] s.program = "authority" -> AuthorityProbes
      [] s.program = "prospective" -> ProspectiveProbes(FALSE, s.branch)
      [] s.program = "cancelled" -> ProspectiveProbes(TRUE, s.branch)
      [] s.program = "experience" -> WorkflowProbes(FALSE, s.branch, FALSE)
      [] s.program = "skill" -> WorkflowProbes(TRUE, FALSE, s.branch)

ProbeOf(s, id) == CHOOSE p \in Range(Probes(s)) : p.id = id
ProbeIds(s) == {Probes(s)[n].id : n \in DOMAIN Probes(s)}
Responds(s) == {p \in Range(Probes(s)) : p.delivery = "respond"}

\* interfere: a note, another person's own value, or a mention of the target that asserts
\* nothing; the value may be the answer itself.
NoiseAttribute(s) == CASE s.program = "epistemic" -> "birthday"
                       [] s.program \in {"experience", "skill"} -> "office"
                       [] OTHER -> "city"
Interference(s, id) ==
    {Note(id)} \cup {Say(id, "x", "x", NoiseAttribute(s), v, "state") : v \in Mentioned}
               \cup {Say(id, "p", "p", NoiseAttribute(s), v, "question") : v \in Mentioned}

\* The builder registers a relearned value after the noise, and shows it before.
BuildOrder(s, noise) ==
    IF s.program = "relearning"
    THEN ForgettingScript \o noise \o SubSeq(RelearningScript, 6, 7)
    ELSE Script(s) \o noise
\* _interleave_history leaves this Program's own order alone.
Interleaves(s) == s.program # "relearning"

----------------------------------------------------------------------------
(* finalize: what the builder derives from the record *)

\* oracle_from_result, with every other value of the attribute forbidden.
OracleFrom(r, others, withdrawn, historical) ==
    CASE r.kind = "value" ->
           [status |-> IF historical THEN "historical" ELSE IF r.status = None THEN "known" ELSE r.status,
            accepted |-> {r.value}, forbidden |-> others \ {r.value}, withdrawn |-> withdrawn \ {r.value}]
      [] r.kind = "unknown" ->
           [status |-> "unknown", accepted |-> {"unknown"}, forbidden |-> others, withdrawn |-> withdrawn]
      [] r.kind = "status" ->
           [status |-> IF r.status = "contested" THEN "contested" ELSE "known",
            accepted |-> {r.status}, withdrawn |-> withdrawn,
            forbidden |-> {"contested", "resolved", "unknown"} \ {r.status}]

\* _oracle.
Oracle(H, p) ==
    LET q == p.query
        others == IF q.op = "hop" THEN {a.value : a \in {b \in H : b.attribute = Last(q.attribute)}}
                  ELSE ValuesSeen(H, q.subject, q.attribute)
                       \cup RetractedValues(H, q.subject, q.attribute, {})
        withdrawn == IF q.op = "hop" THEN {} ELSE RetractedValues(H, q.subject, q.attribute, {})
    IN  OracleFrom(Evaluate(H, q, {}), others, withdrawn, p.historical)

\* A condition: what is withheld, replaced or added, and the Oracles that change.
Plain(kind) == [kind |-> kind, probes |-> {}, drop |-> {}, put |-> <<>>, updates |-> <<>>,
                oracle |-> <<>>, inject |-> None]

\* The relevant-memory ablations, each with its leak proof.
Relevant(s, H) ==
    {[Plain("relevant") EXCEPT !.probes = {p.id}, !.drop = Support(H, p.query)] :
        p \in {x \in Responds(s) : Support(H, x.query) # {}}}
\* The proof the builder demands before it withholds anything.
Provable(H, q, X) == X = {} \/ LeakFree(H, q, X)
LeakProof(s, H) == \A p \in Responds(s) : Provable(H, p.query, Support(H, p.query))

\* The values a twin may take: unmentioned, else outside the subject's lineage, else any.
PreferredOf(pool, mentioned, lineage) ==
    IF pool \ mentioned # {} THEN pool \ mentioned
    ELSE IF pool \ lineage # {} THEN pool \ lineage ELSE pool
TwinPool(s, H, p, pivot) ==
    LET base == ById(H, pivot)
        ordinary == {a \in H : /\ a.id \in {Script(s)[n].id : n \in DOMAIN Script(s)}
                               /\ a.attribute = base.attribute /\ a.value # None /\ a.id # pivot}
        mentioned == {a.value : a \in ordinary}
        lineage == {a.value : a \in {b \in ordinary : b.subject = base.subject}}
    IN  PreferredOf(Pool(base.attribute) \ {base.value, Evaluate(H, p.query, {}).value},
                    mentioned, lineage)

\* Under the twin the original answer is stale.
Stale(r, o) ==
    IF r.kind # "value" THEN o ELSE [o EXCEPT !.forbidden = @ \cup ({r.value} \ o.accepted)]
TwinOracle(H, twin, p) == Stale(Evaluate(H, p.query, {}), Oracle(twin, p))

\* The counterfactual twins: the last piece of evidence takes another value, and the
\* Probes whose answer that changes are asked again.
Affects(s, H, twin) ==
    {p.id : p \in {x \in Responds(s) :
                     Evaluate(twin, x.query, {}) # Evaluate(H, x.query, {})}}
TwinOf(s, H, pivot, alt, twin, changed) ==
    LET told == CHOOSE e \in Range(Script(s)) : e.id = pivot
    IN  [Plain("twin") EXCEPT !.probes = changed, !.put = (pivot :> [told EXCEPT !.value = alt]),
            !.oracle = [id \in changed |-> TwinOracle(H, twin, ProbeOf(s, id))]]
Twin(s, H, pivot, alt) ==
    LET twin == WithValue(H, pivot, alt)
    IN  TwinOf(s, H, pivot, alt, twin, Affects(s, H, twin))
TwinsFrom(s, H, p, pivot) ==
    {c \in {Twin(s, H, pivot, alt) : alt \in TwinPool(s, H, p, pivot)} : p.id \in c.probes}
Pivot(H, p) == Latest({a \in H : a.id \in Support(H, p.query)}).id
Swappable(s, H) ==
    {p \in Responds(s) : p.swap /\ Evaluate(H, p.query, {}).kind = "value" /\ Support(H, p.query) # {}}
Twins(s, H) == UNION {TwinsFrom(s, H, p, Pivot(H, p)) : p \in Swappable(s, H)}

\* The interventions a Program declares itself.
Withhold(ids, probes) == [Plain("relevant") EXCEPT !.drop = ids, !.probes = probes]
Instead(id, e, probe, oracle) ==
    [Plain("twin") EXCEPT !.put = (id :> e), !.probes = {probe}, !.oracle = (probe :> oracle)]
PolicyTwin(updates, probe, oracle) ==
    [Plain("twin") EXCEPT !.updates = updates, !.probes = {probe}, !.oracle = (probe :> oracle)]

Declared(s) ==
    CASE s.program = "forgetting" ->
           LET restored(status) == [status |-> status, accepted |-> {"v1"}, forbidden |-> {"unknown"},
                                    withdrawn |-> {}]
           IN  {[Plain("twin") EXCEPT !.put = ("e-retract" :> Note("e-retract")),
                     !.probes = {"p-forgotten", "p-forgotten-history"},
                     !.oracle = ("p-forgotten" :> restored("known")) @@
                                ("p-forgotten-history" :> restored("historical"))]}
      [] s.program \in {"prospective", "cancelled"} ->
           {Withhold({IF s.program = "cancelled" THEN "e-near-1" ELSE "e-commit"}, {"p-trigger"}),
            Withhold({"e-limit"}, {"p-self"}),
            Instead("e-limit", Rule(~s.branch), "p-self", SelfOracle(~s.branch)),
            IF s.program = "cancelled"
            THEN Instead("e-near-1", Note("e-near-1"), "p-trigger", CommitmentOracle({"t1", "t2"}))
            ELSE Instead("e-commit", Commit("e-commit", "t3"), "p-trigger", CommitmentOracle({"t3"}))}
      [] s.program = "experience" ->
           {Withhold(IF s.branch THEN {"t-revision"} ELSE {"t-past", "t-past-2"}, {"p-match"}),
            PolicyTwin((IF s.branch THEN "w-revision" :> Workflow("F1", None, Alternate)
                        ELSE ("w-acquire" :> Workflow("F1", None, Alternate)) @@
                             ("w-repeat" :> Workflow("F1", None, Alternate)))
                       @@ ("w-future" :> Workflow("F1", None, Alternate)),
                       "p-match", WorkflowOracle(Alternate))}
      [] s.program = "skill" ->
           {Withhold({"t-past", "t-past-2"}, {"p-match"}),
            [Plain("negative_transfer") EXCEPT !.drop = {"t-past", "t-past-2"}, !.probes = {"p-nonmatch"}],
            PolicyTwin(("w-boundary" :> Workflow("F2", "S2", OtherAlternate)) @@
                       ("w-nonmatch" :> Workflow("F4", "S2", OtherAlternate)),
                       "p-nonmatch", WorkflowOracle(OtherAlternate)),
            PolicyTwin(("w-acquire" :> Workflow("F1", "S1", Alternate)) @@
                       ("w-repeat" :> Workflow("F1", "S1", Alternate)) @@
                       ("w-future" :> Workflow("F3", "S1", Expected(Alternate, s.branch))),
                       "p-match", WorkflowOracle(Expected(Alternate, s.branch)))}
      [] OTHER -> {}

\* Matched added observations: a plain note, and a question about another value of what
\* the first Probe with a known answer asks.
FirstAnswered(s) ==
    CASE s.program = "recall" -> "p-recall"     [] s.program = "temporal" -> "p-before"
      [] s.program = "epistemic" -> "p-bday"    [] s.program = "forgetting" -> "p-kept"
      [] s.program = "relearning" -> "p-forgotten"
      [] s.program = "bitemporal" -> "p-time-0" [] s.program = "authority" -> "p-owner"
Questions(s, H) ==
    IF Responds(s) = {} THEN {}
    ELSE LET q == ProbeOf(s, FirstAnswered(s)).query
         IN  {Say("extra-observation", q.subject, q.subject, q.attribute, v, "question") :
                 v \in Pool(q.attribute) \ {Evaluate(H, q, {}).value}}
Injected(s, H) == {[Plain("injected") EXCEPT !.inject = e] : e \in {Note("extra-observation")} \cup Questions(s, H)}

Conditions(s, H) ==
    {Plain("full"), [Plain("full") EXCEPT !.kind = "no_maintenance", !.drop = {"mw-1"}]}
    \cup Relevant(s, H) \cup Twins(s, H) \cup Declared(s) \cup Injected(s, H)

=============================================================================
