------------------------------ MODULE Scenario ------------------------------
(***************************************************************************)
(* A generated Scenario from its record to its scores.  The builder writes *)
(* a Program and its noise (generate/base.py); one condition of it is then *)
(* replayed to one reference Agent (agents/v2.py), noise and maintenance   *)
(* falling anywhere the schedule can put them, through session boundaries  *)
(* and lived tasks; and its Probes are put and scored (evaluator.py).      *)
(* Apart from that, in the phase "record", any sequence of the builder's   *)
(* calls is written, so that the record is checked beyond the Programs.    *)
(***************************************************************************)
EXTENDS ReferenceAgents

CONSTANTS Scenarios,  \* [program, branch, session, isolation, agent]
          MaxNoise,   \* interference events of a rung
          MaxSaid     \* statements of a free record

ASSUME BoundsAssumption == MaxNoise \in Nat /\ MaxSaid \in Nat /\ Window \in Nat \ {0}

VARIABLES
    phase,      \* "record", "build", "replay", "probe" or "done"
    scenario,   \* which Program, for which Agent
    record,     \* the free record, as the builder's calls
    noise,      \* the interference block, in the order it was planned
    condition,  \* the condition being run
    script,     \* what is left of the Program's own events
    loose,      \* what is left of the interference
    upkeep,     \* what is left of the maintenance window and its session boundary
    mem,        \* the Agent's memory
    world,      \* the simulated world
    task,       \* the lived task or act Probe under way
    shown,      \* how many observations were delivered
    emitted,    \* the emission log
    results,    \* Probe -> how it was scored
    archived    \* history: what had been observed at the last maintenance

vars == <<phase, scenario, record, noise, condition, script, loose, upkeep, mem, world, task,
          shown, emitted, results, archived>>
building == <<record, noise, condition>>
queues == <<script, loose, upkeep>>

Agent == scenario.agent
H == RecordOf(BuildOrder(scenario, noise))
Upkeep == <<Event("mw-1", "maintenance")>>
          \o (IF scenario.session THEN <<Event("mw-1-session", "session")>> ELSE <<>>)
MaxTurns == 2  \* no reference Agent comes near max_agent_turns, which would end the run
NoTask == [id |-> None, goal |-> None, turn |-> 0, tools |-> <<>>, probe |-> None]

Init ==
    /\ phase \in {"record", "build"}
    /\ scenario \in IF phase = "record" THEN {None} ELSE Scenarios
    /\ record = <<>> /\ noise = <<>> /\ condition = None
    /\ script = <<>> /\ loose = {} /\ upkeep = <<>>
    /\ mem = Fresh /\ world = Idle /\ task = NoTask
    /\ shown = 0 /\ emitted = <<>> /\ results = <<>> /\ archived = {}

----------------------------------------------------------------------------
(* The record by itself: any legal sequence of the builder's calls *)

Written == RecordOf(record)
Put(e) ==
    /\ phase = "record" /\ Len(record) < MaxSaid
    /\ MayAdd(Written, Assertion(e, Len(record) + 1))
    /\ record' = Append(record, e)
    /\ UNCHANGED <<phase, scenario, noise, condition, queues, mem, world, task, shown, emitted,
                   results, archived>>
NewId == "a" \o ToString(Len(record) + 1)
Speakers == {"p", "o"}

SaySomething ==
    \E who \in Speakers, v \in {"v1", "v2"}, kind \in {"state", "contradiction", "question"}, truly \in BOOLEAN :
        LET e == Say(NewId, who, "p", "city", v, kind)
        IN  IF truly THEN kind = "state" /\ ~e.truth /\ Put(Truly(e)) ELSE Put(e)
CorrectSomething ==
    \E who \in Speakers, v \in {"v1", "v2"}, id \in Ids(Written) :
        Put(Of(Say(NewId, who, "p", "city", v, "correction"), id))
RetractSomething ==
    \E who \in Speakers, id \in Ids(Written) : Put(Retract(NewId, who, "p", "city", id))
ObserveSomething ==
    \E v \in {"v1", "v2"} : Put(ObserveTool(NewId, "calendar", "p", "city", v))

----------------------------------------------------------------------------
(* Generation *)

Interfere ==
    /\ phase = "build" /\ Len(noise) < MaxNoise
    /\ \E e \in Interference(scenario, "d-" \o ToString(Len(noise) + 1)) : noise' = Append(noise, e)
    /\ UNCHANGED <<phase, scenario, record, condition, queues, mem, world, task, shown, emitted,
                   results, archived>>

\* finalize, which demands a proof that no withheld answer leaks, and the choice of the
\* condition to run.
Finalize ==
    /\ phase = "build" /\ LeakProof(scenario, H)
    /\ \E c \in Conditions(scenario, H) :
        /\ Agent = "structured" \/ c.kind = "full"
        /\ condition' = c
    /\ phase' = "replay"
    /\ script' = Script(scenario) /\ loose' = Range(noise) /\ upkeep' = Upkeep
    /\ UNCHANGED <<scenario, record, noise, mem, world, task, shown, emitted, results, archived>>

----------------------------------------------------------------------------
(* Replay *)

Changed(e) == IF e.id \in DOMAIN condition.put THEN condition.put[e.id] ELSE e
Updated(e) == IF e.id \in DOMAIN condition.updates THEN condition.updates[e.id] ELSE e.update

\* deliver_observation: the Agent observes.  It reminds of something only where a trigger
\* is put to it, which is where its emissions are logged (Trigger).
Deliver(m, e) ==
    /\ mem' = Observe(m, Agent, e) /\ shown' = shown + 1

\* What comes next: the maintenance block falls whole between two of the Program's own
\* events, noise anywhere after the first; or, where nothing is interleaved, in order.
Started == Len(script) < Len(Script(scenario))
Due == Len(upkeep) = Len(Upkeep)
Between == Started /\ script # <<>>
MayOccur(e) ==
    \/ /\ script # <<>> /\ e = Head(script)
       /\ Interleaves(scenario) => (upkeep = <<>> \/ (Due /\ Len(script) > 1))
    \/ /\ upkeep # <<>> /\ e = Head(upkeep)
       /\ IF Interleaves(scenario) THEN Between ELSE script = <<>>
    \/ /\ e \in loose
       /\ IF Interleaves(scenario) THEN Started ELSE upkeep = <<>>
Occurs(e) ==
    /\ phase = "replay" /\ task = NoTask /\ MayOccur(e)
    /\ script' = IF script # <<>> /\ e = Head(script) THEN Tail(script) ELSE script
    /\ upkeep' = IF upkeep # <<>> /\ e = Head(upkeep) THEN Tail(upkeep) ELSE upkeep
    /\ loose' = loose \ {e}
    /\ UNCHANGED <<phase, scenario, building, results>>
Pending == Range(script) \cup loose \cup Range(upkeep)

\* A withheld event is not shown; a change of the world happens all the same.
Withheld(e) ==
    /\ e.id \in condition.drop /\ e.form # "reset" /\ Occurs(e)
    /\ UNCHANGED <<mem, world, task, shown, emitted, archived>>
Shown(e) == e.id \notin condition.drop /\ e.form # "reset" /\ Occurs(e)

UpdateWorld(e) ==
    /\ e.form = "reset" /\ Occurs(e)
    /\ world' = [world EXCEPT !.workflow = Updated(e)]
    /\ UNCHANGED <<mem, task, shown, emitted, archived>>
ShowEvent(e) ==
    /\ e.form \notin {"task", "maintenance", "session"} /\ Shown(e)
    /\ Deliver(mem, Changed(e))
    /\ UNCHANGED <<world, task, emitted, archived>>
\* A maintenance window is observed, and then maintain is called.
MaintenanceWindow(e) ==
    /\ e.form = "maintenance" /\ Shown(e)
    /\ LET observed == Observe(mem, Agent, e)
       IN  /\ mem' = Maintain(observed, Agent)
           /\ archived' = Ids(Range(observed.seen))
    /\ shown' = shown + 1
    /\ UNCHANGED <<world, task, emitted>>
\* A session boundary; under persisted-state isolation a new Agent takes over.
SessionBoundary(e) ==
    /\ e.form = "session" /\ Shown(e)
    /\ LET closed == CloseSession(Observe(mem, Agent, e), Agent)
       IN  mem' = IF scenario.isolation = "persisted_state" /\ Agent \in Remembering
                  THEN Restore(closed) ELSE closed
    /\ shown' = shown + 1
    /\ UNCHANGED <<world, task, emitted, archived>>
StartTask(e) ==
    /\ e.form = "task" /\ Shown(e)
    /\ task' = [NoTask EXCEPT !.id = e.id, !.goal = e.task]
    /\ mem' = [mem EXCEPT !.own = {}, !.plan = None]
    /\ UNCHANGED <<world, shown, emitted, archived>>

\* The checkpoint, and the observation a diagnostic condition adds after it.
Checkpoint ==
    /\ phase = "replay" /\ Pending = {} /\ task = NoTask
    /\ IF condition.inject = None THEN UNCHANGED <<mem, shown>> ELSE Deliver(mem, condition.inject)
    /\ phase' = "probe"
    /\ UNCHANGED <<scenario, building, queues, world, task, emitted, results, archived>>

----------------------------------------------------------------------------
(* run_act_loop: a lived task or an act Probe, turn by turn *)

Turn == Act(mem, Agent, task.goal)

\* The Agent is told what the tool did.
CallTool(turn, done) ==
    /\ world' = done.world
    /\ Deliver(turn.mem, Told(task.id \o "." \o ToString(task.turn), turn.step.tool, done.result))
    /\ task' = [task EXCEPT !.turn = @ + 1, !.tools = Append(@, turn.step.tool)]
ToolCall ==
    /\ task # NoTask /\ Turn.step # Done
    /\ CallTool(Turn, Execute(world, Turn.step))
    /\ UNCHANGED <<phase, scenario, building, queues, emitted, results, archived>>

OracleOf(p) ==
    IF p.id \in DOMAIN condition.oracle THEN condition.oracle[p.id]
    ELSE IF p.delivery = "respond" THEN Oracle(H, p) ELSE p.oracle
\* The Oracle of the full history, to which a twin must not answer.
Original(p) == IF p.delivery = "respond" THEN Oracle(H, p) ELSE p.oracle

\* What a Probe scored, and whether its output would also have matched the full history.
Scored(p, scoring(_)) ==
    LET scored == scoring(OracleOf(p)) @@ [original |-> scoring(Original(p)).match]
    IN  results' = results @@ (p.id :> scored)

FinishTask ==
    /\ task # NoTask /\ Turn.step = Done
    /\ task' = NoTask
    /\ IF task.probe = None THEN UNCHANGED results
       ELSE Scored(ProbeOf(scenario, task.probe), LAMBDA o : Acted(world, task.tools, o))
    /\ UNCHANGED <<phase, scenario, building, queues, mem, world, shown, emitted, archived>>

----------------------------------------------------------------------------
(* Probes *)

Open == {p \in Range(Probes(scenario)) : p.id \notin DOMAIN results}
\* Probes are put in the Program's order: the order they are shuffled into does not
\* matter, since a reference Agent answers a question without remembering it.
Puts(p) ==
    /\ phase = "probe" /\ task = NoTask /\ p \in Open
    /\ p = Probes(scenario)[Len(Probes(scenario)) - Cardinality(Open) + 1]

Ask(p) ==
    /\ p.delivery = "respond" /\ Puts(p)
    /\ LET out == Respond(mem, Agent, p) IN Scored(p, LAMBDA o : Structured(out, o))
    /\ UNCHANGED <<phase, scenario, building, queues, mem, world, task, shown, emitted, archived>>

\* The trigger is observed, and the reminders it sets off are scored.
Trigger(p) ==
    /\ p.delivery = "observe_only" /\ Puts(p)
    /\ LET seen == Observe(mem, Agent, Event(p.id, "trigger"))
           due == Emit(seen, Agent)
           log == emitted \o SetToSeq({[at |-> shown + 1, topic |-> t] : t \in due.topics})
           resolved(o) == [start |-> 0, window |-> o.window,
                           expected |-> {[at |-> shown + 1, topic |-> t] : t \in o.topics}]
       IN  /\ mem' = due.mem /\ emitted' = log
           /\ Scored(p, LAMBDA o : Emission(log, resolved(o)))
    /\ shown' = shown + 1
    /\ UNCHANGED <<phase, scenario, building, queues, world, task, archived>>

StartProbe(p) ==
    /\ p.delivery = "act" /\ Puts(p)
    /\ task' = [NoTask EXCEPT !.id = p.id, !.goal = p.goal, !.probe = p.id]
    /\ mem' = [mem EXCEPT !.own = {}, !.plan = None]
    /\ world' = IF p.update = None THEN world ELSE [world EXCEPT !.workflow = Updated(p.update)]
    /\ UNCHANGED <<phase, scenario, building, queues, shown, emitted, results, archived>>

Finish ==
    /\ phase = "probe" /\ Open = {} /\ task = NoTask
    /\ phase' = "done"
    /\ UNCHANGED <<scenario, building, queues, mem, world, task, shown, emitted, results, archived>>

----------------------------------------------------------------------------

Next ==
    \/ SaySomething \/ CorrectSomething \/ RetractSomething \/ ObserveSomething
    \/ Interfere \/ Finalize
    \/ \E e \in Pending : \/ Withheld(e) \/ UpdateWorld(e) \/ ShowEvent(e) \/ MaintenanceWindow(e)
                          \/ SessionBoundary(e) \/ StartTask(e)
    \/ Checkpoint \/ ToolCall \/ FinishTask
    \/ /\ phase = "probe"
       /\ \E p \in Open : Ask(p) \/ Trigger(p) \/ StartProbe(p)
    \/ Finish

Spec == Init /\ [][Next]_vars
FairSpec == Spec /\ WF_vars(Next)

----------------------------------------------------------------------------
(* Properties *)

----------------------------------------------------------------------------
(* The record *)

About_p == {"current", "said_by", "first_stated", "known"}
Ask_p(op) == [Query(op, "p", "city") EXCEPT !.source = "o"]
Observed_at(valid, recorded) == [Query("bitemporal", "p", "city") EXCEPT !.valid = valid, !.recorded = recorded]

\* What was known at a time stays what was known then: an answer as of a recorded time
\* that has passed is not changed by anything said, corrected or withdrawn later.
RecordedPastIsFixed ==
    [][record' # record =>
        \A valid, recorded \in 0..Len(record) :
            Evaluate(RecordOf(record'), Observed_at(valid, recorded), {})
                = Evaluate(Written, Observed_at(valid, recorded), {})]_vars

\* No Oracle is made of withdrawn evidence: a value that answers a question is asserted by
\* a statement that nobody withdrew, neither itself nor what it corrects nor a correction of it.
Retracted == {r.supersedes : r \in {a \in Written : a.kind = "retraction"}}
Kept(a) ==
    /\ a.id \notin Retracted
    /\ a.kind = "correction" => a.supersedes \notin Retracted
    /\ \A c \in Written : c.kind = "correction" /\ c.supersedes = a.id => c.id \notin Retracted
AnswersAreOnRecord ==
    phase = "record" =>
        \A op \in About_p :
            LET r == Evaluate(Written, Ask_p(op), {})
            IN  r.kind = "value" => \E a \in Written : Asserts(a) /\ Kept(a) /\ a.value = r.value

----------------------------------------------------------------------------
(* Scores *)

\* The Probes scored so far under a condition of a given kind, for a given Agent.
Scores(agent, kinds) ==
    IF phase \notin {"probe", "done"} \/ Agent # agent \/ condition.kind \notin kinds THEN {}
    ELSE {p \in Range(Probes(scenario)) : p.id \in DOMAIN results}
\* Those the condition is about.
Affected(agent, kind) == {p \in Scores(agent, {kind}) : p.id \in condition.probes}

\* The fixture with perfect memory answers, reminds and acts right whatever the noise,
\* wherever it and the maintenance fall, with or without maintenance and an observation
\* more, and through a session boundary that leaves it only what it wrote down.
PerfectMemoryScoresFull ==
    \A p \in Scores("structured", {"full", "no_maintenance", "injected"})
             \cup Affected("structured", "negative_transfer") : results[p.id].score = Full

\* Withholding the evidence of a Probe costs the perfect memory something of it.
WithheldEvidenceCosts == \A p \in Affected("structured", "relevant") : results[p.id].score < Full

\* In its twin a Probe is answered by the other value, and the answer of the full history
\* is wrong: a memory that follows the change is told from one that repeats itself.
TwinsAreTracked ==
    \A p \in Affected("structured", "twin") : results[p.id].score = Full /\ ~results[p.id].original

\* The interventions make a difference to who remembers: what is taken away is missed,
\* and what is changed is noticed.
ContrastsAreReal == WithheldEvidenceCosts /\ TwinsAreTracked

\* Without memory of the past nothing is earned: not by abstaining on what was withdrawn,
\* not by knowing the wording of the questions, not by following the feedback of a task
\* that failed, once each Probe is credited only with those it depends on.
NoMemoryEarnsNothing ==
    phase = "done" /\ Agent \in MemoryFree =>
        \A p \in Range(Probes(scenario)) : Credited(results, p) = 0

\* The bad habits the Programs are made to tell from memory cost what they should: using a
\* learned recipe where it does not apply, however the task ends, and taking a question
\* for a fact, whenever the last mention names another value.
LastMention(p) ==
    LET about == {n \in DOMAIN mem.seen : /\ mem.seen[n].form = "said" /\ mem.seen[n].value # None
                                          /\ mem.seen[n].subject = p.query.subject
                                          /\ mem.seen[n].attribute = p.query.attribute}
    IN  mem.seen[Max(about)].value
BadHabitsAreCaught ==
    /\ \A p \in Scores("overgeneralizing", {"full"}) : p.id = "p-nonmatch" => results[p.id].score = 0
    /\ \A p \in Scores("recency", {"full"}) :
        p.id \in {"p-recall", "p-current", "p-bday"} =>
            (results[p.id].score = Full <=> LastMention(p) = Evaluate(H, p.query, {}).value)

\* The scores tell a perfect memory from none and from a bad habit.
ScoresTellMemoryApart == PerfectMemoryScoresFull /\ NoMemoryEarnsNothing /\ BadHabitsAreCaught

\* Consolidation is load-bearing: what had been observed at the maintenance is recalled
\* for as long as the Agent lives, through noise that fills its window and a session end.
Archived(p) == Candidates(H, p.query) \subseteq archived
ArchivedIsRecalled ==
    \A p \in Scores("consolidating", {"full"}) :
        p.delivery = "respond" /\ Archived(p) /\ scenario.isolation = "acknowledged"
            => results[p.id].score = Full

----------------------------------------------------------------------------
(* What the documents say, and the code does not do *)

\* worldmodel.py:418: with the evidence withheld "the answer is no longer derivable".
WithheldEvidenceHidesTheAnswer ==
    \A p \in Affected("structured", "relevant") : results[p.id].score = 0

\* agents/v2.py: maintenance archives "everything observed so far into long-term memory".
ArchiveSurvivesTheSession ==
    \A p \in Scores("consolidating", {"full"}) :
        p.delivery = "respond" /\ Archived(p) => results[p.id].score = Full

=============================================================================
