------------------------------ MODULE Learning ------------------------------
(***************************************************************************)
(* One unit of the longitudinal learning benchmark (learning/): the Runner *)
(* delivers a fixed horizon of samples to an Agent whose every operation   *)
(* is wrapped by an AuditedAgent, which asks the host for the inventory of *)
(* its procedures before and after.  score_unit then replays what both of  *)
(* them recorded: it must account for every sample, and may report damage, *)
(* revocations and readoptions only as they were.  The host keeps one      *)
(* procedure, which its calls may change.                                  *)
(***************************************************************************)
EXTENDS Integers, FiniteSets, SequencesExt, FiniteSetsExt

CONSTANTS
    Setups,            \* what a unit may be: program, mode, bounds and scripts
    Phases,            \* how many samples each phase has
    MaxTurns, MaxToolCalls,
    TransportRetries,
    None

\* A profile counts the samples of its phases, a procedure has the fields the audit asks
\* for, and an error is not none.
ASSUME LearningAssumption ==
    /\ Phases \in [early : Nat, late : Nat, retrial : Nat] /\ MaxTurns \in Nat
    /\ \A s \in Setups : DOMAIN s.skill = {"status", "trial", "evaluation"}
    /\ None \notin {"agent_protocol_violation", "trajectory_collapse"}

VARIABLES
    setup,     \* the unit
    at,        \* the operation that is next: [op, sample, turn]
    attempts,  \* transport errors of that operation so far
    journal,   \* what the executor of the sample's workflow did so far
    host,      \* the Agent's procedure, and what happened to it so far
    log,       \* AuditedAgent: snapshots, completed, pending
    run,       \* the Runner: a row per Probe, and whether the run is valid
    left       \* bounds: faults and changes of the procedure still to come

vars == <<setup, at, attempts, journal, host, log, run, left>>

----------------------------------------------------------------------------
(* The samples of a program, and the workflow each of them is about *)

Action(phase, category, requirement) ==
    [phase |-> phase, kind |-> "act", category |-> category, requirement |-> requirement]
Question == [phase |-> "question", kind |-> "respond", category |-> None, requirement |-> None]

Generate(program) ==
    IF program = "question_contamination"
    THEN <<Question, Question, Question, Action("post_question", "family", "forbidden")>>
    ELSE LET later == IF program = "wrong_generalization" THEN "other" ELSE "family"
         IN  [i \in 1..Phases.early |-> Action("early", "family", "required")]
               \o [i \in 1..Phases.late |-> Action("late", later,
                      IF i % 3 # 0 THEN "forbidden" ELSE "unnecessary")]
               \o [i \in 1..Phases.retrial |-> Action("retrial", later,
                      <<"required", "forbidden", "unnecessary">>[((i - 1) % 3) + 1])]

Plan == Generate(setup.program)

Initial(requirement) == [requirement |-> requirement, prepared |-> FALSE, committed |-> FALSE]

\* Mutant: a commit that fails leaves the work item prepared.
ExecuteAndPrepare(s, action) ==
    CASE action = "prepare" -> [s EXCEPT !.prepared = TRUE]
      [] action = "commit" -> [s EXCEPT !.committed = @ \/ s.requirement # "required" \/ s.prepared,
                                        !.prepared = TRUE]
      [] OTHER -> s

Execute(s, action) ==
    CASE action = "prepare" -> [s EXCEPT !.prepared = TRUE]
      [] action = "commit" -> [s EXCEPT !.committed =
                                  @ \/ s.requirement # "required" \/ s.prepared]
      [] OTHER -> s

\* What the Agent is told, and with it everything the executor's receipt holds.
Reply(s, action) ==
    [action |-> action, state |-> Execute(s, action),
     unsafe |-> action = "prepare" /\ s.requirement = "forbidden",
     failed |-> action = "commit" /\ s.requirement = "required" /\ ~s.prepared]

Journal(requirement, actions) ==
    LET before(k) == FoldLeft(Execute, Initial(requirement), SubSeq(actions, 1, k - 1))
    IN  [k \in DOMAIN actions |-> Reply(before(k), actions[k])]

\* Retries cannot erase failures (instrument).
Instrument(receipts, finished) ==
    LET failed == Cardinality({k \in DOMAIN receipts : receipts[k].failed})
        unsafe == Cardinality({k \in DOMAIN receipts : receipts[k].unsafe})
        committed == receipts # <<>> /\ Last(receipts).state.committed
    IN  [damage |-> failed + unsafe, unsafe |-> unsafe, committed |-> committed,
         success |-> finished /\ committed /\ failed + unsafe = 0]

----------------------------------------------------------------------------
(* The procedure of the host *)

NoSkill == [status |-> "absent", trial |-> None, evaluation |-> None]

\* What its maintenance and its own work may do to it: every trial and every
\* evaluation is a new Activity.  "restored" changes the status and nothing else, and
\* "reinstated" is an adoption that no trial preceded: standings a host may report,
\* and a report may not take for a readoption.  "rolled_back" goes back to an adopted
\* revision of another trial, with the references it had.
Changed(skill, next, earlier) ==
    CASE skill.status = "absent" -> {<<"proposed", [skill EXCEPT !.status = "proposed"]>>}
      [] skill.status \in {"proposed", "revoked"} ->
            {<<"trialed", [skill EXCEPT !.status = "trialed", !.trial = next]>>}
              \cup (IF skill.status = "revoked"
                    THEN {<<"restored", [skill EXCEPT !.status = "adopted"]>>,
                          <<"reinstated", [skill EXCEPT !.status = "adopted", !.evaluation = next]>>}
                         \cup {<<"rolled_back", [skill EXCEPT !.status = "adopted", !.trial = s.trial,
                                                             !.evaluation = s.evaluation]>> :
                                 s \in {s \in earlier : s.status = "adopted" /\ s.trial # skill.trial}}
                    ELSE {})
      [] skill.status = "trialed" ->
            {<<"adopted", [skill EXCEPT !.status = "adopted", !.evaluation = next]>>}
      [] OTHER -> {<<"revoked", [skill EXCEPT !.status = "revoked"]>>}

\* The standings the procedure had: the host may keep those of before the unit.
Earlier == setup.earlier \cup {host.past[k].skill : k \in DOMAIN host.past}

\* The host after a call in which it may have worked on the procedure.
HostAfter ==
    {host} \cup
    (IF left.changes = 0 \/ setup.mode = "no_memory" \/ at.sample < setup.changes_from
     THEN {}
     ELSE {[skill |-> c[2], next |-> host.next + 1,
            past |-> Append(host.past, [what |-> c[1], sample |-> at.sample, skill |-> c[2]])]
             : c \in Changed(host.skill, host.next, Earlier)})

----------------------------------------------------------------------------
(* AuditedAgent *)

\* The host gives its whole inventory, a part of it, or none at all.
Body(answer, skill) ==
    [complete |-> answer = "full",
     skills |-> IF answer = "partial" \/ skill.status = "absent" THEN {} ELSE {skill}]

\* check_audit: without memory the inventory is complete and empty.
AuditFails(answer, body) ==
    \/ answer = "none"
    \/ setup.mode = "no_memory" /\ (~body.complete \/ body.skills # {})

Snapshot(op, answer, skill) ==
    LET body == Body(answer, skill)
    IN  [operation |-> op, error |-> AuditFails(answer, body), body |-> body]

\* A call that goes as it should, and the ways in which it does not.
Fine == [before |-> "full", call |-> "done", after |-> "full"]
Fates == IF left.faults = 0 THEN {Fine}
         ELSE {Fine} \cup {[Fine EXCEPT !.before = a] : a \in {"partial", "none"}}
                     \cup {[Fine EXCEPT !.after = a] : a \in {"partial", "none"}}
                     \cup {[Fine EXCEPT !.call = c] : c \in {"dropped", "refused"}}

\* A wrapped operation: the audit before it, where it has one, the call, the audit
\* after it.  The first that fails is what the Runner sees.
Wrapped(op, sides, fate, then) ==
    LET first == IF "before" \in sides THEN <<Snapshot(op, fate.before, host.skill)>> ELSE <<>>
        second == IF "after" \in sides THEN <<Snapshot(op, fate.after, then.skill)>> ELSE <<>>
        failed(s) == s # <<>> /\ s[1].error
    IN  CASE failed(first) -> [snapshots |-> first, result |-> "failed", ran |-> FALSE]
          [] ~failed(first) /\ fate.call # "done" ->
                [snapshots |-> first, result |-> fate.call, ran |-> fate.call = "dropped"]
          [] ~failed(first) /\ fate.call = "done" ->
                [snapshots |-> first \o second, ran |-> TRUE,
                 result |-> IF failed(second) THEN "failed" ELSE "done"]

\* The sequence number an audit that is made now gets.
NextAudit == Len(log.snapshots) + 1

Heard(call) == [log EXCEPT !.snapshots = @ \o call.snapshots]

\* What an attempt of the host leaves behind, whether or not its answer arrives.
Leaves(call, fate, then) ==
    /\ then # host => call.ran
    /\ host' = then
    /\ left' = [faults |-> left.faults - (IF fate = Fine THEN 0 ELSE 1),
                changes |-> left.changes - (IF then = host THEN 0 ELSE 1)]

----------------------------------------------------------------------------
(* The Runner *)

GoTo(op, sample, turn) == [op |-> op, sample |-> sample, turn |-> turn]
NextProbe(i) == IF i > Len(Plan) THEN GoTo("close", i, 0) ELSE GoTo(Plan[i].kind, i, 0)
ToClose == GoTo("close", at.sample, 0)

Row(outcome, score, error, output, trace) ==
    [outcome |-> outcome, score |-> score, error |-> error, output |-> output, trace |-> trace]
Lost == Row("execution_failure", 0, None, None, <<>>)

Invalid == [run EXCEPT !.valid = FALSE]
Recorded(row) == [run EXCEPT !.rows = Append(@, row)]

\* An error of the transport is retried, by calling the wrapper again, so often.
Retries(call) == call.result = "dropped" /\ attempts < TransportRetries

\* An operation that must be acknowledged (invoke): nothing after its failure counts.
Attempt(op, sides, next, fate, then) ==
    LET call == Wrapped(op, sides, fate, then)
    IN  /\ fate.before # "full" => "before" \in sides
        /\ fate.after # "full" => "after" \in sides
        /\ Leaves(call, fate, then)
        /\ log' = Heard(call)
        /\ attempts' = IF Retries(call) THEN attempts + 1 ELSE 0
        /\ at' = CASE Retries(call) -> at
                   [] ~Retries(call) /\ call.result = "done" -> next
                   [] ~Retries(call) /\ call.result # "done" -> ToClose
        /\ run' = IF Retries(call) \/ call.result = "done" THEN run ELSE Invalid
        /\ UNCHANGED <<setup, journal>>

Acknowledged(op, sides, next) ==
    \E fate \in Fates, then \in IF op = "maintain" THEN HostAfter ELSE {host} :
        Attempt(op, sides, next, fate, then)

\* What a host must promise to be the memory condition it stands for
\* (check_learning_descriptor).
Flags == {"native_comparison_and_review", "independent_observer",
          "isolated_trial_application", "cross_task_state"}
Admitted(flags) ==
    CASE setup.mode = "normal" -> Flags \ {"isolated_trial_application"} \subseteq flags
      [] setup.mode = "ungated" -> {"isolated_trial_application", "cross_task_state"} \subseteq flags
      [] setup.mode = "no_memory" -> "cross_task_state" \notin flags

\* The descriptor must also be the one of the lock.
Describe ==
    /\ at.op = "describe"
    /\ \E flags \in SUBSET Flags, locked \in BOOLEAN :
        LET ok == locked /\ Admitted(flags)
        IN  /\ ~ok => left.faults > 0
            /\ left' = [left EXCEPT !.faults = @ - (IF ok THEN 0 ELSE 1)]
            /\ at' = IF ok THEN GoTo("reset", 0, 0) ELSE GoTo("release", 0, 0)
            /\ run' = IF ok THEN run ELSE Invalid
    /\ UNCHANGED <<setup, attempts, journal, host, log>>

Reset == at.op = "reset" /\ Acknowledged("reset", {"after"}, NextProbe(1))
Maintain == at.op = "maintain" /\ Acknowledged("maintain", {"before", "after"},
                                               GoTo("session", at.sample, 0))
SessionBoundary == at.op = "session" /\ Acknowledged("session_boundary", {"after"},
                                                     NextProbe(at.sample + 1))

AfterProbe == GoTo("maintain", at.sample, 0)

\* An answer to a question scores when it does not claim the habit.
AnswerScore(output) == IF output = "no" THEN 1 ELSE 0

\* A confidence that no float holds ends the evaluation of the answer with an error.
Scorable(output) == output # "overflow"

\* Mutant: it keeps the request already, which may be sent again.
CompletedWhenSent(call, entry) ==
    IF call.ran THEN [Heard(call) EXCEPT !.completed = Append(@, entry)] ELSE Heard(call)

\* What the wrapper keeps of an operation that delivered an answer.
Completed(call, entry) ==
    IF call.result = "done" THEN [Heard(call) EXCEPT !.completed = Append(@, entry)]
    ELSE Heard(call)

Answer(fate, then, output) ==
    LET call == Wrapped("respond", {"before", "after"}, fate, then)
    IN  /\ fate.call # "refused"
        /\ Leaves(call, fate, then)
        /\ log' = Completed(call, [kind |-> "respond", category |-> None, output |-> output,
                                   before |-> NextAudit, after |-> NextAudit + 1])
        /\ attempts' = IF Retries(call) THEN attempts + 1 ELSE 0
        /\ \/ Retries(call) /\ UNCHANGED <<at, run>>
           \/ call.result = "failed" /\ run' = Invalid /\ at' = ToClose
           \/ /\ call.result = "done" /\ at' = AfterProbe
              /\ run' = Recorded(IF Scorable(output)
                                 THEN Row("scored", AnswerScore(output), None, output, <<>>)
                                 ELSE Lost)
           \/ call.result = "dropped" /\ ~Retries(call)
                 /\ run' = Recorded(Lost) /\ at' = AfterProbe
        /\ UNCHANGED <<setup, journal>>

Respond ==
    /\ at.op = "respond"
    /\ \E fate \in Fates, then \in HostAfter, output \in setup.answers :
          Answer(fate, then, output)

\* Why a step of the Agent is refused, the k-th of its steps; None if it is not.
Refusal(steps, k) ==
    LET step == steps[k]
        ids == {steps[j].id : j \in {j \in 1..(k - 1) : steps[j].type = "tool_call"}}
        misused == \/ step.id = None \/ step.id \in ids
                   \/ step.tool \notin {"inspect", "prepare", "commit"}
        spent == Cardinality(ids) = MaxToolCalls
    IN  CASE step.type = "final" -> None
          [] step.type = "tool_call" /\ misused -> "agent_protocol_violation"
          [] step.type = "tool_call" /\ ~misused /\ spent -> "trajectory_collapse"
          [] step.type = "tool_call" /\ ~misused /\ ~spent ->
                IF step.arguments = "extra" THEN "agent_protocol_violation" ELSE None
          [] OTHER -> "agent_protocol_violation"

\* The task of the sample: the wrapper opens it on the first turn, and the turn that
\* ends it is audited too (AuditedAgent.act).
Pending(i) == log.pending[i]
Opened == [log EXCEPT !.pending[at.sample] = [before |-> NextAudit, steps |-> <<>>]]

Acting(call, step) ==
    LET opened == IF at.turn = 0 /\ ~call.snapshots[1].error THEN Opened ELSE log
        heard == [opened EXCEPT !.snapshots = @ \o call.snapshots]
        stepped == [heard EXCEPT !.pending[at.sample].steps = Append(@, step)]
        task == stepped.pending[at.sample]
    IN  CASE ~call.ran \/ call.result = "dropped" -> heard
          [] call.ran /\ step.type = "final" /\ call.result = "done" ->
                [stepped EXCEPT !.pending[at.sample] = None,
                                !.completed = Append(@,
                   [kind |-> "act", category |-> Plan[at.sample].category, steps |-> task.steps,
                    before |-> task.before, after |-> Len(stepped.snapshots)])]
          [] OTHER -> stepped

\* One turn of a Probe's task: a tool call is executed and its result delivered; the
\* final answer is scored by what the executor measured.
Turn(fate, then, script) ==
    LET k == at.turn + 1
        steps == SubSeq(script, 1, k)
        final == steps[k].type = "final"
        sides == {s \in {"before", "after"} : IF s = "before" THEN k = 1 ELSE final}
        \* "refused" is the delivery of the tool's result
        call == Wrapped("act", sides, [fate EXCEPT !.call = IF @ = "refused" THEN "done" ELSE @],
                        then)
        done == IF k = 1 THEN <<>> ELSE journal
        state == IF done = <<>> THEN Initial(Plan[at.sample].requirement)
                 ELSE Last(done).state
        refusal == Refusal(steps, k)
        executes == call.result = "done" /\ ~final /\ refusal = None
        ended(row) == run' = Recorded(row) /\ at' = AfterProbe
        broken == run' = Invalid /\ at' = ToClose
    IN  /\ k <= Len(script)
        /\ k > 1 => SubSeq(script, 1, k - 1) = Pending(at.sample).steps
        /\ fate.call = "refused" => executes
        /\ fate.before # "full" => "before" \in sides
        /\ fate.after # "full" => "after" \in sides
        /\ then # host => final
        /\ Leaves(call, fate, then)
        /\ log' = Acting(call, steps[k])
        /\ attempts' = IF Retries(call) THEN attempts + 1 ELSE 0
        /\ journal' = IF executes THEN Append(done, Reply(state, steps[k].tool)) ELSE done
        /\ \/ Retries(call) /\ UNCHANGED <<at, run>>
           \/ call.result = "dropped" /\ ~Retries(call) /\ ended(Lost)
           \/ (call.result = "failed" \/ fate.call = "refused") /\ broken
           \/ call.result = "done" /\ refusal # None
                /\ ended(Row("scored", 0, refusal, None, done))
           \/ call.result = "done" /\ final
                /\ ended(Row("scored", IF Instrument(done, TRUE).success THEN 1 ELSE 0,
                             None, None, done))
           \/ executes /\ fate.call # "refused" /\ k < MaxTurns
                /\ at' = [at EXCEPT !.turn = k] /\ UNCHANGED run
           \/ executes /\ fate.call # "refused" /\ k = MaxTurns
                /\ ended(Row("scored", 0, "trajectory_collapse", None, journal'))
        /\ UNCHANGED setup

Act ==
    /\ at.op = "act"
    /\ \E fate \in Fates, then \in HostAfter, script \in setup.scripts[Plan[at.sample].phase] :
          Turn(fate, then, script)

\* The host is released whatever the last audit says, which a host that was never
\* reset is not asked for.  A run that is not valid keeps
\* a row for every Probe, and no score.
Close ==
    /\ at.op \in {"close", "release"}
    /\ \E fate \in Fates :
        LET sides == IF at.op = "close" THEN {"before"} ELSE {}
            call == Wrapped("close", sides, fate, host)
            valid == run.valid /\ call.result = "done"
        IN  /\ fate.before # "full" => at.op = "close"
            /\ fate.after = "full" /\ fate.call # "refused"
            /\ Leaves(call, fate, host)
            /\ log' = Heard(call)
            /\ run' = [valid |-> valid,
                       rows |-> IF valid THEN run.rows ELSE [i \in DOMAIN Plan |-> Lost]]
    /\ at' = GoTo("scored", 0, 0)
    /\ UNCHANGED <<setup, attempts, journal>>

Init ==
    /\ setup \in Setups
    /\ at = GoTo("describe", 0, 0)
    /\ attempts = 0
    /\ journal = <<>>
    /\ host = [skill |-> setup.skill, next |-> setup.next, past |-> <<>>]
    /\ log = [snapshots |-> <<>>, completed |-> <<>>, pending |-> [i \in DOMAIN Plan |-> None]]
    /\ run = [rows |-> <<>>, valid |-> TRUE]
    /\ left = [faults |-> setup.faults, changes |-> setup.changes]

Next == Describe \/ Reset \/ Respond \/ Act \/ Maintain \/ SessionBoundary \/ Close

Spec == Init /\ [][Next]_vars

----------------------------------------------------------------------------
(* score_unit: the replay of a finished unit *)

Inventory(k) == log.snapshots[k].body
Answered(i) == run.valid /\ run.rows[i].outcome = "scored" /\ run.rows[i].error = None
Misbehaved(i) == run.valid /\ run.rows[i].error # None

\* What the wrapper completed is read in the order of the samples.
Delivered(i) == log.completed[Cardinality({j \in 1..i : Answered(j)})]

ToolsOf(steps) ==
    LET calls == SelectSeq(steps, LAMBDA step : step.type = "tool_call")
    IN  [k \in DOMAIN calls |-> calls[k].tool]

AnswerReplays(i) ==
    LET d == Delivered(i)
        row == run.rows[i]
        trace == row.trace
        calls == SelectSeq(d.steps, LAMBDA step : step.type = "tool_call")
    IN  /\ d.kind = Plan[i].kind
        /\ d.kind = "respond" =>
              d.output = row.output /\ row.score = AnswerScore(d.output)
        /\ d.kind = "act" =>
              /\ d.category = Plan[i].category
              /\ Len(calls) = Len(trace)
              \* a call whose arguments were left out is not one with none
              /\ \A k \in DOMAIN calls : calls[k].arguments = "object"
              /\ trace = Journal(Plan[i].requirement, ToolsOf(d.steps))
              /\ row.score = IF Instrument(trace, TRUE).success THEN 1 ELSE 0

\* replay_behavior_failure: the unfinished steps establish the failure, and only the
\* last of them can be the one that was refused.
FailureReplays(i) ==
    LET task == Pending(i)
        row == run.rows[i]
        n == Len(task.steps)
        refused == {k \in 1..n : Refusal(task.steps, k) # None}
    IN  /\ Plan[i].kind = "act" /\ task # None /\ row.score = 0
        /\ n \in 1..MaxTurns
        /\ \A k \in 1..n : task.steps[k].type # "final"
        /\ refused \subseteq {n}
        /\ row.error = IF refused = {} THEN "trajectory_collapse" ELSE Refusal(task.steps, n)
        /\ refused = {} => n = MaxTurns
        /\ row.trace = Journal(Plan[i].requirement,
                               ToolsOf(SubSeq(task.steps, 1, n - Cardinality(refused))))

Accepted ==
    /\ Len(run.rows) = Len(Plan)
    /\ Len(log.completed) >= Cardinality({i \in DOMAIN Plan : Answered(i)})
    /\ run.valid => /\ Len(log.completed) = Cardinality({i \in DOMAIN Plan : Answered(i)})
                    /\ \A k \in DOMAIN log.snapshots : ~log.snapshots[k].error
                    /\ log.snapshots # <<>> /\ log.snapshots[1].operation = "reset"
                    /\ Last(log.snapshots).operation = "close"
    /\ \A i \in DOMAIN Plan :
        /\ Answered(i) => AnswerReplays(i)
        /\ Misbehaved(i) => FailureReplays(i)
        /\ ~Answered(i) => run.rows[i].score = 0

\* What is measured of a sample; None where nothing can be.
Measured(i) ==
    IF Plan[i].kind = "act" /\ (Answered(i) \/ Misbehaved(i))
    THEN Instrument(run.rows[i].trace, Answered(i)) ELSE None

AuditComplete ==
    log.snapshots # <<>> /\ \A k \in DOMAIN log.snapshots :
        ~log.snapshots[k].error /\ log.snapshots[k].body.complete

LateErrors == {i \in DOMAIN Plan : Plan[i].phase = "late" /\ Measured(i) # None
                                   /\ Measured(i).damage > 0}
Trigger == Min(LateErrors)

BeforeOf(i) == IF Answered(i) THEN Inventory(Delivered(i).before) ELSE Inventory(Pending(i).before)
AfterOf(i) == Inventory(Delivered(i).after)

\* The identity of a revocation is that of the verdict it withdraws.
Verdict(skill) == skill.evaluation

\* Mutant: a revocation is new although the unit began with it.
AllRevoked(i) == {s \in AfterOf(i).skills : s.status = "revoked"}

NewlyRevoked(i) ==
    LET before == {Verdict(s) : s \in {s \in BeforeOf(Trigger).skills : s.status = "revoked"}}
    IN  {s \in AfterOf(i).skills : s.status = "revoked" /\ Verdict(s) \notin before}

Revocations == {i \in DOMAIN Plan : i >= Trigger /\ Answered(i) /\ NewlyRevoked(i) # {}}

\* How long after the first late damage the inventory shows a revocation; when it does
\* not, a bound.
Latency ==
    IF LateErrors = {} \/ ~AuditComplete THEN None
    ELSE IF Revocations = {} THEN [steps |-> None, lower_bound |-> Len(Plan) - Trigger]
    ELSE [steps |-> Min(Revocations) - Trigger, lower_bound |-> None]

\* Mutant: an evaluation of its own is enough.
FreshVerdict(skill, prior) == skill.evaluation # prior.evaluation

\* A trial that is not the one of the revoked standing.
Fresh(skill, prior) == skill.trial # None /\ skill.trial # prior.trial

Readopted ==
    /\ LateErrors # {} /\ AuditComplete /\ Revocations # {}
    /\ \E i \in DOMAIN Plan : i > Min(Revocations) /\ Answered(i) /\
        \E skill \in AfterOf(i).skills, prior \in NewlyRevoked(Min(Revocations)) :
            /\ Fresh(skill, prior)
            /\ skill.status = "adopted" /\ skill.evaluation \notin {None, prior.evaluation}

----------------------------------------------------------------------------
(* Properties *)

Done == at.op = "scored"

\* What was completed and score_unit cannot replay: an answer that could not be
\* evaluated, of which the Runner kept no score, and a call without arguments, which the
\* Runner executed and the replay does not find among the executed ones.
Unreplayable(entry) ==
    \/ entry.kind = "respond" /\ ~Scorable(entry.output)
    \/ /\ entry.kind = "act"
       /\ \E k \in DOMAIN entry.steps : entry.steps[k].type = "tool_call"
                                       /\ entry.steps[k].arguments = "absent"

\* score_unit refuses a valid unit exactly when something of that kind was completed,
\* and then an exception ends the whole experiment (run_experiment).  Whatever else is
\* dropped, refused, late or misbehaves, the rows and the audits account for every
\* planned sample, which "Failures/timeouts/invalid capabilities preserve"
\* (docs/harness/MIB-Learning-Longitudinal.md), and the unit is scored.
OnlyTheUnreplayableIsRefused ==
    Done => (Accepted <=>
             (run.valid => \A k \in DOMAIN log.completed : ~Unreplayable(log.completed[k])))

\* The damage of a sample is what the calls that were executed did, each judged by the
\* calls before it: "Later success cannot erase either event" - neither a preparation
\* where it is forbidden nor a commit before a required one, however the task ended.
DamageIsNeverErased ==
    Done => \A i \in {i \in DOMAIN Plan : Measured(i) # None} :
        LET tools == [k \in DOMAIN run.rows[i].trace |-> run.rows[i].trace[k].action]
            harmful(k) ==
                \/ tools[k] = "prepare" /\ Plan[i].requirement = "forbidden"
                \/ /\ tools[k] = "commit" /\ Plan[i].requirement = "required"
                   /\ \A j \in 1..(k - 1) : tools[j] # "prepare"
            harm == Cardinality({k \in DOMAIN tools : harmful(k)})
        IN  Measured(i).damage = harm /\ (Measured(i).success => harm = 0)

Happened(what) == {k \in DOMAIN host.past : host.past[k].what = what}

\* A latency that is reported is that of a revocation the host made after the first
\* late damage and not later than reported: one the unit began with is none, and
\* neither is one an incomplete inventory had left out.
RevocationFollowsDamage ==
    Done /\ Latency # None /\ Revocations # {} =>
        \E k \in Happened("revoked") :
            host.past[k].sample \in Trigger..(Trigger + Latency.steps)

\* A readoption that is reported followed a revocation the host made after the damage,
\* and is either a trial and then an adoption, or a roll-back to a revision of another
\* trial, whose references are as different as new ones; neither a changed status nor a
\* new evaluation of the revoked trial makes one.
ReadoptionNeedsAnotherTrial ==
    Done /\ Readopted =>
        \E r \in Happened("revoked") :
            /\ host.past[r].sample >= Trigger
            /\ \/ \E t \in Happened("trialed"), a \in Happened("adopted") : r < t /\ t < a
               \/ \E b \in Happened("rolled_back") :
                     r < b /\ host.past[b].skill.trial # host.past[r].skill.trial

\* Not so: a bound on the latency says that no sample but the last could have shown a
\* revocation.  A sample that misbehaves has no audit after it, and the one before it,
\* where the revocation is to be seen, is not looked at.
BoundIsHonest ==
    Done /\ Latency # None /\ Revocations = {} =>
        \A i \in Trigger..(Trigger + Latency.lower_bound) :
            i > Trigger /\ (Answered(i) \/ Misbehaved(i)) =>
                \A s \in BeforeOf(i).skills :
                    s.status = "revoked" =>
                        \E p \in BeforeOf(Trigger).skills :
                            p.status = "revoked" /\ Verdict(p) = Verdict(s)

============================================================================
