--------------------------- MODULE ReferenceAgents --------------------------
(***************************************************************************)
(* The reference Agents of generated Scenarios (agents/v2.py): what each   *)
(* remembers of what it was shown, the record it rebuilds from that, and   *)
(* how it answers, reminds and acts.  They see observations, never the     *)
(* record or an Oracle: an observation is an event without its truth flag  *)
(* and without what it supersedes, which they work out themselves.         *)
(***************************************************************************)
EXTENDS Programs

CONSTANTS Window      \* how many observations a windowed Agent keeps in sight

Remembering == {"structured", "window", "consolidating", "recency", "overgeneralizing"}
MemoryFree == {"no_memory", "recover_only", "grammar_only"}
Agents == Remembering \cup MemoryFree
Windowed(agent) == agent \in {"window", "consolidating"}
Learns(agent) == agent \in Remembering \ {"recency"}
Recovers(agent) == agent \in Remembering \cup {"recover_only"}

\* reset: own is what the current task was told, plan what is left of a deployment.
Fresh == [seen |-> <<>>, archive |-> <<>>, fired |-> {}, calls |-> 0, own |-> {}, plan |-> None]

\* What a tool's answer looks like as an observation.
Told(id, tool, result) ==
    [Event(id, "result") EXCEPT !.value = result, !.attribute = tool]

----------------------------------------------------------------------------
(* Memory *)

LastOnes(seen, k) == SubSeq(seen, (IF Len(seen) > k THEN Len(seen) - k ELSE 0) + 1, Len(seen))
\* _memory.
Memory(mem, agent) ==
    LET sight == IF Windowed(agent) THEN LastOnes(mem.seen, Window) ELSE mem.seen
    IN  IF agent # "consolidating" THEN sight
        ELSE mem.archive \o SelectSeq(sight, LAMBDA o : o \notin Range(mem.archive))

\* last_by_source: what a correction or a retraction refers to.
LastBySource(seen, n) ==
    LET same == {m \in 1..(n - 1) : /\ seen[m].form = "said" /\ seen[m].kind \in AssertingKinds
                                    /\ seen[m].who = seen[n].who
                                    /\ seen[m].subject = seen[n].subject
                                    /\ seen[m].attribute = seen[n].attribute}
    IN  IF same = {} THEN None ELSE seen[Max(same)].id

\* _truth_bearing: the Agent takes every plain statement for the truth.
TakenForTruth(kind) == kind \notin MentionKinds \cup {"contradiction", "retraction"}

\* record_ids: a delayed record names the one it supersedes, when that one is remembered.
Remembered(seen, n, id) == IF \E m \in 1..(n - 1) : seen[m].id = id THEN id ELSE None

\* _model, for one observation; the registry's records carry their own time.
Recalled(seen, n) ==
    LET o == seen[n] a == Assertion(o, n)
    IN  CASE o.form = "record" -> [a EXCEPT !.truth = TRUE, !.supersedes = Remembered(seen, n, o.sup)]
          [] o.form \in {"lookup", "authority"} -> [a EXCEPT !.truth = TRUE, !.supersedes = None]
          [] o.form = "said" ->
               [a EXCEPT !.truth = TakenForTruth(o.kind),
                         !.supersedes = IF o.kind \in {"correction", "retraction"}
                                        THEN LastBySource(seen, n) ELSE None]

\* RecencyAgent: every mention is a fact, and nothing is withdrawn.
Flattened(H) ==
    {[a EXCEPT !.kind = IF a.kind = "observation" THEN a.kind ELSE "state",
               !.truth = TRUE, !.supersedes = None] : a \in {b \in H : b.kind # "retraction"}}

Model(mem, agent) ==
    LET seen == Memory(mem, agent)
        H == {Recalled(seen, n) : n \in {m \in DOMAIN seen : Asserting(seen[m])}}
    IN  IF agent = "recency" THEN Flattened(H) ELSE H

----------------------------------------------------------------------------
(* Answers *)

\* rows[-2] of the truth series.
ValueBefore(rows) ==
    IF Cardinality(rows) < 2 THEN None ELSE LastRow(rows \ {LastRow(rows)}).value

Contested(H, s, attr) == Status(H, s, attr, {}) = "contested"
AnswerOr(v, status) == IF v = None THEN Answer("unknown", "unknown") ELSE Answer(v, status)

\* _answer: the question's wording tells what is asked.
Recollect(H, p) ==
    LET q == p.query s == q.subject attr == q.attribute
        r == Evaluate(H, q, {})
    IN  CASE p.which = "current" ->
               AnswerOr(Current(H, s, attr, {}).value,
                        IF Contested(H, s, attr) THEN "contested" ELSE "known")
          [] p.which = "before" -> AnswerOr(ValueBefore(TruthSeries(H, s, attr, {})), "historical")
          [] p.which = "first" -> AnswerOr(FirstStated(H, s, attr, {}), "historical")
          [] p.which = "said_by" -> AnswerOr(SaidBy(H, q.source, s, attr, {}), "known")
          [] p.which = "status" ->
               LET st == Status(H, s, attr, {})
               IN  Answer(st, IF st = "contested" THEN st ELSE "known")
          [] p.which = "known" ->
               AnswerOr(IF Known(H, s, attr, {}) THEN Current(H, s, attr, {}).value ELSE None, "known")
          [] p.which = "hop" -> AnswerOr(Hop(H, s, attr, {}), "known")
          [] p.which = "bitemporal" -> AnswerOr(r.value, "historical")
          [] p.which = "authority" -> AnswerOr(r.value, "known")

\* respond.
Respond(mem, agent, p) ==
    CASE agent \in Remembering -> Recollect(Model(mem, agent), p)
      [] agent = "grammar_only" ->
           LET v == IF p.which = "status" THEN "contested" ELSE "unknown" IN Answer(v, v)
      [] OTHER -> Abstention

----------------------------------------------------------------------------
(* Reminders *)

\* _emissions_for: what was asked for, not yet done, and not cancelled since.
Commitments(mem, agent) ==
    LET seen == Memory(mem, agent)
    IN  {seen[n] : n \in {m \in DOMAIN seen :
            /\ seen[m].form = "commit" /\ seen[m].id \notin mem.fired
            /\ \A k \in (m + 1)..Len(seen) : ~(seen[k].form = "cancel" /\ seen[k].topic = seen[m].topic)}}

----------------------------------------------------------------------------
(* observe, maintain, session_boundary and restore *)

\* observe: once per observation; a Memory-free Agent keeps only what its task was told.
Observe(mem, agent, o) ==
    LET kept == IF (agent \in MemoryFree /\ o.form # "result") \/ o.id \in Ids(Range(mem.seen)) THEN mem.seen
                ELSE Append(mem.seen, o)
    IN  [mem EXCEPT !.seen = kept, !.own = IF o.form = "result" THEN @ \cup {o.id} ELSE @]

Emit(mem, agent) ==
    IF agent \in MemoryFree THEN [mem |-> mem, topics |-> {}]
    ELSE LET due == Commitments(mem, agent)
         IN  [mem |-> [mem EXCEPT !.fired = @ \cup {o.id : o \in due}],
              topics |-> {o.topic : o \in due}]

\* Mutant: maintenance archives what is in sight.
MaintainWindow(mem, agent) ==
    IF agent = "consolidating" THEN [mem EXCEPT !.archive = LastOnes(mem.seen, Window)] ELSE mem

\* ConsolidatingAgent.maintain: it archives everything observed so far.
Maintain(mem, agent) == IF agent = "consolidating" THEN [mem EXCEPT !.archive = mem.seen] ELSE mem

\* session_boundary: the working conversation is cleared, and a window's with it.
CloseSession(mem, agent) ==
    [mem EXCEPT !.own = {}, !.plan = None,
                !.seen = IF Windowed(agent) \/ agent \in MemoryFree THEN <<>> ELSE @]

\* restore: a fresh Agent takes up exactly the record that was handed over.
Restore(mem) == [Fresh EXCEPT !.seen = mem.seen, !.fired = mem.fired, !.calls = mem.calls]

----------------------------------------------------------------------------
(* act *)

Done == [type |-> "final", tool |-> None, recipe |-> None]
Call(tool, recipe) == [type |-> "tool_call", tool |-> tool, recipe |-> recipe]

Results(seen) == {n \in DOMAIN seen : seen[n].form = "result"}
\* _last_result: what the task at hand was told last.
LastResult(mem) ==
    LET mine == {n \in Results(mem.seen) : mem.seen[n].id \in mem.own}
    IN  IF mine = {} THEN None ELSE mem.seen[Max(mine)].value

\* same_scope: a recipe belongs to its series, or else to its family.
SameScope(result, goal) ==
    IF goal.series # None THEN result.series = goal.series ELSE result.family = goal.family

\* The recipe remembered from the feedback of an earlier task.
LearnedRecipe(mem, agent, goal) ==
    LET seen == Memory(mem, agent)
        known == {n \in Results(seen) : /\ seen[n].value.required # None
                                        /\ seen[n].id \notin mem.own
                                        /\ agent = "overgeneralizing" \/ SameScope(seen[n].value, goal)}
    IN  IF ~Learns(agent) \/ known = {} THEN <<>>
        ELSE seen[IF agent = "overgeneralizing" THEN Min(known) ELSE Max(known)].value.required

Submission(goal, recipe) ==
    Call("submit", IF goal.reverse THEN Reverse(recipe) ELSE recipe)

\* _workflow: submit what is remembered; after a failure, what the feedback asks for.
WorkflowStep(mem, agent, goal) ==
    LET last == LastResult(mem)
    IN  IF last = None THEN Submission(goal, LearnedRecipe(mem, agent, goal))
        ELSE IF last.ok \/ ~Recovers(agent) THEN Done
        ELSE Call("submit", last.required)

\* The standing rule, as the deployment policy reads it.
Forbidden(mem, agent) ==
    IF agent \in MemoryFree THEN {}
    ELSE LET seen == Memory(mem, agent)
         IN  {IF seen[n].value THEN "restart" ELSE "migrate" : n \in {m \in DOMAIN seen : seen[m].form = "rule"}}
\* _deployment: migrate and restart, less what the rule forbids.
FirstPlan(mem, agent) ==
    LET banned == Forbidden(mem, agent)
    IN  IF "migrate" \in banned THEN <<"restart">>
        ELSE SelectSeq(<<"migrate", "restart">>, LAMBDA x : x \notin banned)
Plan(mem, agent) == IF mem.plan = None THEN FirstPlan(mem, agent) ELSE mem.plan

NextStep(mem, agent, goal) ==
    CASE agent = "grammar_only" -> Done
      [] agent # "grammar_only" /\ goal.tool = "workflow" -> WorkflowStep(mem, agent, goal)
      [] OTHER -> LET plan == Plan(mem, agent)
                  IN  IF plan = <<>> THEN Done ELSE Call(Head(plan), None)

\* act: the next step of the task, and what the Agent keeps of having taken it.
Taken(mem, agent, goal, step) ==
    [step |-> step,
     mem |-> IF step = Done THEN mem
             ELSE [mem EXCEPT !.calls = @ + 1,
                              !.plan = IF goal.tool = "deployment" THEN Tail(Plan(mem, agent)) ELSE @]]
Act(mem, agent, goal) == Taken(mem, agent, goal, NextStep(mem, agent, goal))

=============================================================================
