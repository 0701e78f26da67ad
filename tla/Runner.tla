------------------------------- MODULE Runner -------------------------------
(***************************************************************************)
(* run_condition (runner.py): one condition of a scenario, played to one   *)
(* Agent.  The Runner walks the timeline, applies its world updates,       *)
(* delivers what the Agent may see, runs tasks and probes, and invokes the *)
(* Agent over a transport that may fail: a failing call is retried a       *)
(* bounded number of times, a lifecycle operation that is not acknowledged *)
(* invalidates the whole run, and every way out releases the Agent.        *)
(*                                                                         *)
(* The Agent's answers are chosen anew at every call.  What a probe asks   *)
(* and how an answer is judged is abstracted to a score of 0 or 1, and an  *)
(* observation to the event, probe, injection or tool call it shows.       *)
(***************************************************************************)
EXTENDS AdapterContract, SequencesExt

CONSTANTS
    Timeline,      \* the scenario's events, in replay order
    Probes,        \* its probes, in declaration order
    Stated,        \* the capabilities it asks for explicitly
    Conditions,    \* the conditions (full, ablations, diagnostic cells) it is run in
    Descriptors,   \* what an Agent may declare
    ToolCallIds,   \* the ids an Agent may give its tool calls
    MaxAgentTurns, MaxToolCalls, TransportRetries,
    Nothing        \* no state handed back, no tool call, no run yet

ASSUME BoundAssumption ==
    /\ {MaxAgentTurns, MaxToolCalls, TransportRetries} \subseteq Nat
    /\ NoDescriptor \notin Descriptors

\* What validate_scenario asks of a scenario, and merged_timeline of the injections
\* of its conditions: identifiers are unique and references resolve.  "none" is the
\* anchor of an injection that has none, and no identifier.
ASSUME ScenarioAssumption ==
    /\ Timeline \in Seq(Range(Timeline)) /\ Probes \in Seq(Range(Probes))
    /\ \A i, j \in DOMAIN Timeline : Timeline[i].id = Timeline[j].id => i = j
    /\ \A i \in DOMAIN Timeline : Timeline[i].updates \in Seq(Range(Timeline[i].updates))
    /\ \A i \in DOMAIN Timeline : Timeline[i].id # "none"
    /\ \A i, j \in DOMAIN Probes : Probes[i].id = Probes[j].id => i = j
    /\ \A i \in DOMAIN Probes :
          /\ Probes[i].delivery \in {"respond", "act", "observe_only"}
          /\ \E j \in DOMAIN Timeline : Timeline[j].id = Probes[i].after
          /\ Probes[i].conditional_on \subseteq {p.id : p \in Range(Probes)} \ {Probes[i].id}
    /\ \A c \in Conditions :
          /\ c.injections \in Seq(Range(c.injections))
          /\ \A id \in DOMAIN c.policyUpdates : c.policyUpdates[id] \in Seq(Range(c.policyUpdates[id]))
          /\ \A i \in DOMAIN c.injections :
                /\ c.injections[i].id # "none"
                /\ \A j \in DOMAIN Timeline : c.injections[i].id # Timeline[j].id
                /\ \A j \in DOMAIN c.injections : c.injections[i].id = c.injections[j].id => i = j

VARIABLES
    cell,        \* the condition being run
    stage,       \* where the run is
    pos,         \* events of the merged timeline begun so far
    todo,        \* what is left to do for the current event
    call,        \* the outstanding invocation: attempts made, and what came back
    loop,        \* the act loop: turns taken, tool_call_ids seen
    world,       \* the updates applied and the tool calls executed
    agents,      \* the Agent instances, the current one last
    descriptor,  \* contract["protocol"] and contract["capabilities"]
    receipts, valid,   \* contract["operations"] and contract["valid"]
    rows,        \* probe_results
    pending,     \* observe_only probes to be scored at the end
    run          \* the run that is returned

vars == <<cell, stage, pos, todo, call, loop, world, agents, descriptor,
          receipts, valid, rows, pending, run>>

----------------------------------------------------------------------------
(* The plan of a condition *)

\* One thing to do: an operation of the Agent, what it is for, the event or
\* probe it belongs to, and the tool call whose result it shows.
Step(op, for, id) == [op |-> op, for |-> for, id |-> id, call |-> Nothing]

\* merged_timeline: an injection without an anchor goes before the first later
\* event, or to the end.
InsertFloating(base, injection) ==
    LET later == {i \in DOMAIN base : injection.sequence < base[i].sequence}
    IN  IF later = {} THEN Append(base, injection)
        ELSE InsertAt(base, Min(later), injection)

TimelineOf == [c \in Conditions |->
    LET n == Len(c.injections)
        merged[i \in 0..n] ==
            IF i = 0 THEN Timeline
            ELSE IF c.injections[i].anchor = "none"
                 THEN InsertFloating(merged[i - 1], c.injections[i])
                 ELSE merged[i - 1]
    IN  merged[n]]

MergedTimeline == TimelineOf[cell]

Injected(event) == \E i \in DOMAIN cell.injections : cell.injections[i] = event

\* process_event, after the world updates: nothing of an event that is removed
\* or hidden, and of a checkpoint or a world_update, reaches the Agent.
HandlerSteps(event) ==
    IF event.id \in cell.removed \/ ~event.visible THEN <<>>
    ELSE CASE event.type = "task" -> <<Step("act", "task", event.id)>>
           [] event.type = "harness" -> <<>>
           [] event.type \in {"maintenance_window", "session_boundary"} ->
                <<Step("observe", "event", event.id),
                  Step(IF event.type = "maintenance_window" THEN "maintain"
                       ELSE "session_boundary", "event", event.id)>>
           [] OTHER -> <<Step("observe", "event", event.id)>>

\* A probe, after the artifacts a diagnostic cell injects before it.
ProbeSteps(probe) ==
    (IF probe.id \in cell.before THEN <<Step("observe", "injection", probe.id)>>
     ELSE <<>>)
    \o <<Step(IF probe.delivery = "observe_only" THEN "observe" ELSE probe.delivery,
              "probe", probe.id)>>

\* The planned probes: every one the condition executes, in declaration order.
PlanOf == [c \in Conditions |->
    FlattenSeq([i \in DOMAIN Probes |->
        IF Probes[i].id \in c.executed THEN <<Probes[i]>> ELSE <<>>])]

Planned == PlanOf[cell]

\* All that one event sets off: the event, the injections anchored to it, the
\* artifacts a diagnostic cell injects after it, and its probes.
StepsOf(event) ==
    LET planned == Planned
    IN  HandlerSteps(event)
        \o FlattenSeq([i \in DOMAIN cell.injections |->
              IF cell.injections[i].anchor = event.id THEN HandlerSteps(cell.injections[i])
              ELSE <<>>])
        \o (IF event.id \in cell.past THEN <<Step("observe", "injection", event.id)>>
            ELSE <<>>)
        \o FlattenSeq([i \in DOMAIN planned |->
              IF planned[i].after = event.id THEN ProbeSteps(planned[i]) ELSE <<>>])

UpdatesOf(event) ==
    IF event.id \in DOMAIN cell.policyUpdates THEN cell.policyUpdates[event.id]
    ELSE event.updates

----------------------------------------------------------------------------

Weight(id) == IF id \in cell.scored THEN 1 ELSE 0

Scheduled ==
    LET planned == Planned
    IN  [i \in DOMAIN planned |-> [probe |-> planned[i].id, weight |-> Weight(planned[i].id)]]

\* A probe_results row; recalled: the answer carried the oracle's value, whether
\* or not the whole rubric was met.
Row(id, outcome, score, recalled) ==
    [probe |-> id, outcome |-> outcome, score |-> score, recalled |-> recalled,
     weight |-> Weight(id)]

Receipt(op, outcome) ==
    [operation |-> op, outcome |-> outcome,
     accepted |-> outcome = "success" /\ op \in Acknowledged]

\* An Agent instance: whether it was reset, the state restored to it, what it
\* observed, the state it handed back at its session boundary, and how often it
\* was closed.
FreshAgent == [reset |-> FALSE, restored |-> Nothing, memory |-> <<>>,
               handed |-> Nothing, closes |-> 0]

NoCall == [attempt |-> 0, waiting |-> FALSE, answered |-> FALSE]
NoLoop == [turn |-> 0, seen |-> {}]

Init ==
    /\ cell \in Conditions
    /\ stage = "describing"
    /\ pos = 0
    /\ todo = <<>>
    /\ call = NoCall
    /\ loop = NoLoop
    /\ world = [updates |-> <<>>, tools |-> <<>>]
    /\ agents = <<FreshAgent>>
    /\ descriptor = NoDescriptor
    /\ receipts = <<>>
    /\ valid = TRUE
    /\ rows = <<>>
    /\ pending = <<>>
    /\ run = Nothing

Current == Len(agents)
Required == RequiredCapabilities(Stated, Timeline, Probes)

\* record_receipt
Record(op, outcome) ==
    /\ receipts' = Append(receipts, Receipt(op, outcome))
    /\ valid' = (valid /\ outcome # "failure")

\* An AdapterLifecycleError: the rest of the run is given up.
GiveUp ==
    /\ stage' = "closing"
    /\ todo' = <<>>
    /\ call' = NoCall
    /\ loop' = NoLoop

----------------------------------------------------------------------------
(* Setting out *)

\* The Agent is described once, without retry.  Any exception is a failure.
Describe(d) ==
    /\ stage = "describing"
    /\ descriptor' = d
    /\ IF DescriptorAccepted(d, Required)
       THEN /\ Record("describe", "success")
            /\ stage' = "running"
            /\ todo' = <<Step("reset", "run", "reset")>>
            /\ UNCHANGED <<call, loop>>
       ELSE Record("describe", "failure") /\ GiveUp
    /\ UNCHANGED <<cell, pos, world, agents, rows, pending, run>>

\* Mutant: the world of a removed event is removed with it.
NextEventUnlessRemoved ==
    /\ stage = "running" /\ todo = <<>> /\ pos < Len(MergedTimeline)
    /\ LET event == MergedTimeline[pos + 1]
       IN  /\ todo' = StepsOf(event)
           /\ world' = IF Injected(event) \/ event.id \in cell.removed THEN world
                       ELSE [world EXCEPT !.updates = @ \o UpdatesOf(event)]
    /\ pos' = pos + 1
    /\ UNCHANGED <<cell, stage, call, loop, agents, descriptor, receipts, valid,
                   rows, pending, run>>

\* The next event: its world updates are applied in every condition.
NextEvent ==
    /\ stage = "running" /\ todo = <<>> /\ pos < Len(MergedTimeline)
    /\ LET event == MergedTimeline[pos + 1]
       IN  /\ todo' = StepsOf(event)
           /\ world' = IF Injected(event) THEN world
                       ELSE [world EXCEPT !.updates = @ \o UpdatesOf(event)]
    /\ pos' = pos + 1
    /\ UNCHANGED <<cell, stage, call, loop, agents, descriptor, receipts, valid,
                   rows, pending, run>>

----------------------------------------------------------------------------
(* invoke *)

\* The operation at the head of todo that is being invoked.
Invoking(ops) ==
    /\ stage = "running" /\ todo # <<>> /\ ~call.waiting
    /\ Head(todo).op \in ops
    /\ Head(todo).op = "act" => loop.turn < MaxAgentTurns
    /\ Head(todo).op = "maintain" => Declares(descriptor, "maintenance", TRUE)

Operations == Acknowledged \cup {"respond", "act"}

\* AgentTransportError: the request did not arrive, the answer was lost after
\* the Agent had done its work, or the Agent answered with an error envelope.
TransportFaults == {"dropped", "lost", "error_answer"}

\* The Agent instance after a call whose answer did not count.
AfterFault(fault) ==
    IF fault = "lost" /\ Head(todo).op = "observe"
    THEN [agents EXCEPT ![Current].memory = Append(@, Head(todo))]
    ELSE agents

\* Mutant: the attempt is not counted.
RetryForEver(fault) ==
    /\ Invoking(Operations)
    /\ fault \in TransportFaults
    /\ call.attempt < TransportRetries
    /\ call' = [call EXCEPT !.waiting = TRUE, !.answered = fault = "error_answer"]
    /\ agents' = AfterFault(fault)
    /\ UNCHANGED <<cell, stage, pos, todo, loop, world, descriptor, receipts,
                   valid, rows, pending, run>>

\* A transport fault is retried after a pause, TransportRetries times.
Retry(fault) ==
    /\ Invoking(Operations)
    /\ fault \in TransportFaults
    /\ call.attempt < TransportRetries
    /\ call' = [attempt |-> call.attempt + 1, waiting |-> TRUE,
                answered |-> fault = "error_answer"]
    /\ agents' = AfterFault(fault)
    /\ UNCHANGED <<cell, stage, pos, todo, loop, world, descriptor, receipts,
                   valid, rows, pending, run>>

Resend ==
    /\ call.waiting
    /\ call' = [call EXCEPT !.waiting = FALSE]
    /\ UNCHANGED <<cell, stage, pos, todo, loop, world, agents, descriptor,
                   receipts, valid, rows, pending, run>>

\* What ends an invocation without a result: the last transport fault, or
\* another exception (a timeout, an undecodable answer), which is not retried.
Exhausted(fault) ==
    \/ fault \in TransportFaults /\ call.attempt = TransportRetries
    \/ fault = "timeout"

\* Mutant: within a probe such a failure is a row like any other.
LifecycleFailureIsARow(fault) ==
    /\ Invoking(Acknowledged)
    /\ Exhausted(fault) \/ fault = "refused"
    /\ Record(Head(todo).op, "failure")
    /\ agents' = AfterFault(fault)
    /\ IF Head(todo).for \in {"probe", "tool"}
       THEN /\ rows' = Append(rows, Row(Head(todo).id, "execution_failure", 0, FALSE))
            /\ todo' = SubSeq(todo, IF Head(todo).for = "tool" THEN 3 ELSE 2, Len(todo))
            /\ call' = NoCall /\ loop' = NoLoop
            /\ UNCHANGED stage
       ELSE GiveUp /\ UNCHANGED rows
    /\ UNCHANGED <<cell, pos, world, descriptor, pending, run>>

\* An acknowledged operation that fails, or is answered without accepted: true,
\* makes the condition unusable.
LifecycleFailure(fault) ==
    /\ Invoking(Acknowledged)
    /\ Exhausted(fault) \/ fault = "refused"
    /\ Record(Head(todo).op, "failure")
    /\ agents' = AfterFault(fault)
    /\ GiveUp
    /\ UNCHANGED <<cell, pos, world, descriptor, rows, pending, run>>

\* A probe that cannot be asked, or whose answer the evaluator cannot score, is
\* a failure of the infrastructure, on its row.
ProbeFailure(fault) ==
    /\ Invoking({"respond", "act"}) /\ Head(todo).for = "probe"
    /\ Exhausted(fault) \/ fault = "unscorable"
    /\ rows' = Append(rows, Row(Head(todo).id, "execution_failure", 0, FALSE))
    /\ todo' = Tail(todo)
    /\ call' = NoCall /\ loop' = NoLoop
    /\ UNCHANGED <<cell, stage, pos, world, agents, descriptor, receipts, valid,
                   pending, run>>

\* close_agent releases the current instance, whether or not closing raises.
Release(times) == agents' = [agents EXCEPT ![Current].closes = @ + times]

\* Mutant: the Agent is left to itself.
RaiseWithoutClosing(closes) ==
    /\ stage' = "raised"
    /\ UNCHANGED <<cell, pos, todo, call, loop, world, agents, descriptor, receipts,
                   valid, rows, pending, run>>

\* Any other exception: the Agent is released and the exception propagates.
Raise(closes) ==
    /\ stage' = "raised"
    /\ Release(closes)
    /\ UNCHANGED <<cell, pos, todo, call, loop, world, descriptor, receipts,
                   valid, rows, pending, run>>

\* A call that fails in a lived task raises: only the Agent's own misbehaviour
\* is caught there.
TaskFailure(fault) ==
    /\ Invoking({"act"}) /\ Head(todo).for = "task"
    /\ Exhausted(fault)
    /\ Raise(1)

\* The invocation succeeded and its step is done.
Done(op) ==
    /\ Invoking({op})
    /\ todo' = Tail(todo)
    /\ call' = NoCall

----------------------------------------------------------------------------
(* The acknowledged operations *)

ResetAgent ==
    /\ Done("reset")
    /\ Record("reset", "success")
    /\ agents' = [agents EXCEPT ![Current].reset = TRUE]
    /\ UNCHANGED <<cell, stage, pos, loop, world, descriptor, rows, pending, run>>

ObserveEvent ==
    /\ Done("observe")
    /\ Record("observe", "success")
    /\ agents' = [agents EXCEPT ![Current].memory = Append(@, Head(todo))]
    /\ pending' = IF Head(todo).for = "probe" THEN Append(pending, Head(todo).id)
                  ELSE pending
    /\ loop' = IF Head(todo).for = "tool" THEN [loop EXCEPT !.turn = @ + 1] ELSE loop
    /\ UNCHANGED <<cell, stage, pos, world, descriptor, rows, run>>

MaintainAgent ==
    /\ Done("maintain")
    /\ Record("maintain", "success")
    /\ UNCHANGED <<cell, stage, pos, loop, world, agents, descriptor, rows,
                   pending, run>>

\* Maintenance is skipped for an Agent that declares it false, unless required,
\* and fails for one that does not declare it.
MaintainWithoutCall ==
    /\ stage = "running" /\ todo # <<>> /\ Head(todo).op = "maintain"
    /\ ~Declares(descriptor, "maintenance", TRUE)
    /\ IF Declares(descriptor, "maintenance", FALSE) /\ "maintenance" \notin Required
       THEN /\ Record("maintain", "skipped")
            /\ todo' = Tail(todo)
            /\ UNCHANGED <<stage, call, loop>>
       ELSE Record("maintain", "failure") /\ GiveUp
    /\ UNCHANGED <<cell, pos, world, agents, descriptor, rows, pending, run>>

\* Mutant: the returned state is not restored.
HandoverWithoutRestore(state) ==
    <<Step("replace", "session", "session"), Step("reset", "session", "session")>>

\* Under persisted_state, all that follows an acknowledged session boundary.
Handover(state) ==
    <<Step("replace", "session", "session"), Step("reset", "session", "session")>>
    \o (IF state = Nothing THEN <<>> ELSE <<Step("restore", "session", "session")>>)

\* The Agent accepts the boundary and may hand back a state, here named by the
\* number of the instance it comes from.
EndSession(state) ==
    /\ Invoking({"session_boundary"})
    /\ state \in {Nothing, Current}
    /\ Record("session_boundary", "success")
    /\ agents' = [agents EXCEPT ![Current].handed = state]
    /\ call' = NoCall
    /\ todo' = (IF cell.isolation = "persisted_state" THEN Handover(state) ELSE <<>>)
               \o Tail(todo)
    /\ UNCHANGED <<cell, stage, pos, loop, world, descriptor, rows, pending, run>>

Replacing == stage = "running" /\ todo # <<>> /\ Head(todo).op = "replace"

\* The instance is closed and the factory builds the next one.
ReplaceAgent ==
    /\ Replacing
    /\ agents' = Append([agents EXCEPT ![Current].closes = @ + 1], FreshAgent)
    /\ todo' = Tail(todo)
    /\ UNCHANGED <<cell, stage, pos, call, loop, world, descriptor, receipts, valid,
                   rows, pending, run>>

\* Closing the instance or the factory raises: the old instance, closed or not,
\* is closed (again) on the way out.
ReplaceFails == Replacing /\ Raise(2)

RestoreAgent ==
    /\ Done("restore")
    /\ Record("restore", "success")
    /\ agents' = [agents EXCEPT ![Current].restored = agents[Current - 1].handed]
    /\ UNCHANGED <<cell, stage, pos, loop, world, descriptor, rows, pending, run>>

----------------------------------------------------------------------------
(* Probes and tasks *)

Unchanged == UNCHANGED <<cell, stage, pos, agents, descriptor, receipts, valid,
                         pending, run>>

\* A structured answer may carry the value and still not score.
RespondToProbe(score, recalled) ==
    /\ Done("respond")
    /\ score = 1 => recalled
    /\ rows' = Append(rows, Row(Head(todo).id, "scored", score, recalled))
    /\ UNCHANGED <<loop, world>> /\ Unchanged

\* Mutant: the tool_call_ids seen are not checked.
MayReuseIds(id) == Cardinality(loop.seen \cup {id}) <= MaxToolCalls

\* A tool call is executed under an id the task has not seen, max_tool_calls
\* times at most.
MayCallTool(id) == id \notin loop.seen /\ Cardinality(loop.seen \cup {id}) <= MaxToolCalls

\* It changes the world, and its result is observed before the next turn.
CallTool(id) ==
    /\ Invoking({"act"})
    /\ MayCallTool(id)
    /\ LET task == Head(todo).id
       IN  /\ world' = [world EXCEPT !.tools = Append(@, [task |-> task, call |-> id])]
           /\ todo' = <<[Step("observe", "tool", task) EXCEPT !.call = id]>> \o todo
    /\ loop' = [loop EXCEPT !.seen = @ \cup {id}]
    /\ call' = NoCall
    /\ UNCHANGED rows /\ Unchanged

\* The end of an act loop: a probe gets its row, a lived task is never scored.
EndActLoop(row) ==
    /\ todo' = Tail(todo)
    /\ call' = NoCall /\ loop' = NoLoop
    /\ rows' = IF Head(todo).for = "probe" THEN Append(rows, row) ELSE rows
    /\ UNCHANGED world /\ Unchanged

FinishAct(score) ==
    /\ Invoking({"act"})
    /\ EndActLoop(Row(Head(todo).id, "scored", score, score = 1))

\* AgentBehaviourError: a step that is no ActStep, an unknown tool, an id seen
\* before, one call too many, or no end within max_agent_turns.  The Agent
\* failed, not the run: a probe scores 0.
Misbehave ==
    /\ \/ Invoking({"act"})
       \/ stage = "running" /\ todo # <<>> /\ Head(todo).op = "act"
          /\ loop.turn = MaxAgentTurns
    /\ EndActLoop(Row(Head(todo).id, "scored", 0, FALSE))

----------------------------------------------------------------------------
(* The end *)

AtEnd == stage = "running" /\ todo = <<>> /\ pos = Len(MergedTimeline)

\* oracle_match: a structured answer (here, of a respond probe) counts by its
\* value, any other by its score.
Matches(probe, row) ==
    /\ row.probe = probe.id /\ row.outcome = "scored"
    /\ IF probe.delivery = "respond" THEN row.recalled ELSE row.score = 1

PrerequisitesMet(probe, reported) ==
    \A i \in DOMAIN Probes : Probes[i].id \in probe.conditional_on =>
        \E k \in DOMAIN reported : Matches(Probes[i], reported[k])

\* A probe whose prerequisites are not met loses its score.
Settle(rs, p) ==
    IF PrerequisitesMet(p, rs) THEN rs
    ELSE [i \in DOMAIN rs |-> IF rs[i].probe = p.id THEN [rs[i] EXCEPT !.score = 0] ELSE rs[i]]

\* apply_conditional_probes, in declaration order.
ApplyConditional(reported) ==
    LET settled[n \in 0..Len(Probes)] ==
            IF n = 0 THEN reported ELSE Settle(settled[n - 1], Probes[n])
    IN  settled[Len(Probes)]

Missing(reported) ==
    {Probes[i].id : i \in {k \in DOMAIN Probes : Probes[k].id \in cell.scored}}
    \ {reported[i].probe : i \in DOMAIN reported}

ScoredPending(scores) ==
    [i \in DOMAIN pending |-> Row(pending[i], "scored", scores[i], scores[i] = 1)]

\* Mutant: the prerequisites are applied before the observe_only probes are scored.
ScoreAllAfterConditional(scores) == ApplyConditional(rows) \o ScoredPending(scores)

\* score_pending_emission_probes, then apply_conditional_probes: the observe_only
\* probes are scored from the emissions of the whole run.
ScoreAll(scores) == ApplyConditional(rows \o ScoredPending(scores))

ScorePending ==
    /\ AtEnd
    /\ \E scores \in [DOMAIN pending -> {0, 1}] : rows' = ScoreAll(scores)
    /\ Missing(rows') = {}
    /\ stage' = "closing"
    /\ UNCHANGED <<cell, pos, todo, call, loop, world, agents, descriptor, receipts,
                   valid, pending, run>>

\* An emission evaluator raises, or a scored probe was never triggered.
ScoringFails == AtEnd /\ Raise(1)

Close(outcome) ==
    /\ stage = "closing" /\ cell.closes
    /\ Release(1)
    /\ Record("close", outcome)
    /\ stage' = "closed"
    /\ UNCHANGED <<cell, pos, todo, call, loop, world, descriptor, rows, pending, run>>

\* Mutant: the rows of an invalid run are kept.
KeptRows == rows

\* An invalid run reports every planned probe as an execution failure.
ReportedRows ==
    LET planned == Planned
    IN  IF valid THEN rows
        ELSE [i \in DOMAIN planned |-> Row(planned[i].id, "execution_failure", 0, FALSE)]

Return ==
    /\ stage = (IF cell.closes THEN "closed" ELSE "closing")
    /\ stage' = "returned"
    /\ run' = [status |-> IF valid THEN StatusOf(ReportedRows) ELSE "invalid",
               rows |-> ReportedRows, scheduled |-> Scheduled,
               receipts |-> receipts, valid |-> valid, runner_valid |-> valid,
               descriptor |-> descriptor, required |-> Required]
    /\ UNCHANGED <<cell, pos, todo, call, loop, world, agents, descriptor, receipts,
                   valid, rows, pending>>

----------------------------------------------------------------------------

Fault == TransportFaults \cup {"timeout", "refused", "unscorable"}

Lifecycle ==
    \/ ResetAgent \/ ObserveEvent \/ MaintainAgent \/ MaintainWithoutCall
    \/ \E state \in {Nothing, Current} : EndSession(state)
    \/ ReplaceAgent \/ ReplaceFails \/ RestoreAgent

Probe ==
    \/ \E score \in {0, 1}, recalled \in BOOLEAN : RespondToProbe(score, recalled)
    \/ \E score \in {0, 1} : FinishAct(score)
    \/ \E id \in ToolCallIds : CallTool(id)
    \/ Misbehave

Next ==
    \/ \E d \in Descriptors \cup {NoDescriptor} : Describe(d)
    \/ NextEvent
    \/ \E fault \in Fault : \/ Retry(fault) \/ LifecycleFailure(fault)
                            \/ ProbeFailure(fault) \/ TaskFailure(fault)
    \/ Resend
    \/ Lifecycle
    \/ Probe
    \/ ScorePending \/ ScoringFails
    \/ \E outcome \in {"success", "failure"} : Close(outcome)
    \/ Return

Spec == Init /\ [][Next]_vars

\* run_condition is one thread, and every call of the Agent returns or times out.
FairSpec == Spec /\ WF_vars(Next)

----------------------------------------------------------------------------
(* Properties *)

Ended == stage \in {"returned", "raised"}

\* Whatever the Agent and the transport do, and at whatever step, a run that is
\* returned passes verify_run_contract: its receipts, validity, status, probe
\* denominator and outcomes agree.
ReturnedRunVerifies ==
    run # Nothing => VerifyRunContract(run, cell.closes) = {}

\* Once a lifecycle failure is on record, the Agent is told nothing more and the
\* world is left as it was.
NothingAfterFailure ==
    [][~valid => /\ world' = world
                 /\ Len(agents') = Len(agents)
                 /\ \A k \in DOMAIN agents : agents'[k].memory = agents[k].memory]_vars

\* close_agent's comment: the Agent "must be released on every exit path".  Every
\* instance a run built has been closed when it ends; the last one of a
\* diagnostic cell that returns is left to the caller.
EveryAgentReleased ==
    Ended => \A k \in DOMAIN agents :
                \/ agents[k].closes > 0
                \/ k = Len(agents) /\ stage = "returned" /\ ~cell.closes

\* process_event's comment: "memory is the only treatment variable".  A valid run
\* has applied every world update of the timeline, in order, whichever events
\* its condition removed or injected.
MemoryIsTheOnlyTreatment ==
    run # Nothing /\ run.valid =>
        world.updates = FlattenSeq([i \in DOMAIN Timeline |-> UpdatesOf(Timeline[i])])

\* A task executes each tool_call_id once and max_tool_calls at most, and the
\* Agent of a valid run has been shown the result of every call that it made.
ToolCallsAreExperienced ==
    LET tools == world.tools
        shown == {<<s.id, s.call>> : s \in UNION {Range(agents[k].memory) : k \in DOMAIN agents}}
    IN  /\ \A i, j \in DOMAIN tools : tools[i] = tools[j] => i = j
        /\ \A i \in DOMAIN tools :
              Cardinality({j \in DOMAIN tools : tools[j].task = tools[i].task})
                 <= MaxToolCalls
        /\ run # Nothing /\ run.valid =>
              \A i \in DOMAIN tools : <<tools[i].task, tools[i].call>> \in shown

\* docs: a Probe that declares conditional_on "earns credit only when each named
\* Probe's value was recalled in the same run", through chains of such probes too.
CreditNeedsRecall ==
    run # Nothing =>
        \A i \in DOMAIN run.rows, k \in DOMAIN Probes :
            /\ run.rows[i].probe = Probes[k].id
            /\ run.rows[i].score = 1
            => \A id \in Probes[k].conditional_on :
                  \E j \in DOMAIN run.rows : run.rows[j].probe = id /\ run.rows[j].recalled

\* Under persisted_state, an instance observes something only after it was reset
\* and given the state the instance before it handed back, if any.
OnlyTheHandedStateCrosses ==
    \A k \in DOMAIN agents :
        /\ agents[k].memory # <<>> =>
              /\ agents[k].reset
              /\ k > 1 => agents[k].restored = agents[k - 1].handed
        /\ k < Len(agents) => agents[k].closes > 0

\* docs: "AgentTransportError is retried once (bounded, transport_retries) [...];
\* Agent answers are never retried."
AnswersAreNotRetried == call.waiting => ~call.answered

\* Every run ends, whatever fails.
RunEnds == <>Ended

============================================================================
