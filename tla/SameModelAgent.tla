--------------------------- MODULE SameModelAgent ---------------------------
(***************************************************************************)
(* The agent of the same-model experiments (same_model_agent.py): one      *)
(* model, one prompt, and as the only treatment what is remembered - by    *)
(* the agent itself under B0 to B3, or by a memory service                 *)
(* (memory_backend.py).  The Runner calls it, it asks the model through a  *)
(* client that outlives it (model_clients.py), and records every attempt.  *)
(*                                                                         *)
(* An experience is a number: what was lived n-th.  longTerm is the        *)
(* agent's long_term, or what the memory service holds of the run.         *)
(***************************************************************************)
EXTENDS LinePipe, FiniteSetsExt, Functions

CONSTANTS
    Conditions,      \* the memory conditions in use: B0, B1, B2, "backend"
    Clients,         \* how the model is reached: "http", "subprocess"
    Decisions,       \* observe_decisions and maintenance_decisions
    MemoryLimit,     \* records that fit max_memory_chars
    ParseRetries,    \* attempts after the first
    MaxTurns,        \* max_agent_turns of a task
    MaxLived, MaxSent, MaxRuns,   \* bounds
    NoOp

\* An operation that calls the model, and the prompt it sends.
Modes == {"observe", "respond", "act", "maintain"}
Ops == [mode : Modes, phase : {"send", "wait"}, shown : SUBSET Nat,
        attempt : Nat, repairs : Nat, n : Nat, first : Nat]

ASSUME AgentAssumption ==
    /\ Conditions \subseteq {"B0", "B1", "B2", "backend"}
    /\ Clients \subseteq {"http", "subprocess"}
    /\ Decisions \in BOOLEAN
    /\ {MemoryLimit, ParseRetries, MaxTurns, MaxLived, MaxSent, MaxRuns} \subseteq Nat
    /\ NoOp \notin Ops

VARIABLES
    condition, client,     \* of this experiment cell
    lived,                 \* experiences of this run so far
    longTerm, transient,   \* what is remembered, what the current task has lived
    active,                \* active_task is set
    loop,                  \* the Runner's act loop: "none", "asks", "tool", "again"
    turns,                 \* act calls of the loop
    since,                 \* experiences before the current task or exchange
    valid,                 \* no lifecycle operation of the run has failed
    runs,                  \* runs begun with this client
    op,                    \* the operation the agent is in, with the prompt it sends
    sent,                  \* prompts sent by the client so far
    errors,                \* error kinds in the rows of the recorder
    mixed,                 \* an answer to another prompt, or to a repaired one, was used
    strayed                \* the model process has written a line nobody asked for

memoryVars == <<lived, longTerm, transient, active, since>>
loopVars == <<loop, turns>>
cellVars == <<condition, client, runs, strayed>>
callVars == <<sent, errors, mixed>>
vars == <<pipeVars, memoryVars, loopVars, cellVars, callVars, valid, op>>

Idle == op = NoOp /\ valid
MayLive == lived < MaxLived /\ sent < MaxSent

----------------------------------------------------------------------------
(* Memory *)

\* What is remembered once xs was handed over: nothing under B0.
Remembering(xs) == IF condition = "B0" THEN longTerm ELSE longTerm \o xs

\* Mutant: the task is dropped and its steps with it.
DropTask == UNCHANGED longTerm /\ transient' = <<>> /\ active' = FALSE

\* _finish_task: the steps of the task join what is remembered.
FinishTask ==
    /\ longTerm' = Remembering(transient)
    /\ transient' = <<>> /\ active' = FALSE

\* An experience that is persisted at once.
Persist == longTerm' = Remembering(<<lived + 1>>) /\ lived' = lived + 1

\* The records a prompt shows: the newest that fit (B1, _limit), or a choice of
\* the policy or the memory service within the limit.
Newest(xs, n) == {xs[i] : i \in {j \in DOMAIN xs : j > Len(xs) - n}}
Selections(xs) ==
    CASE condition = "B0" -> {{}}
      [] condition = "B1" -> {Newest(xs, MemoryLimit)}
      [] OTHER -> UNION {kSubset(k, Range(xs)) : k \in 0..MemoryLimit}

----------------------------------------------------------------------------
(* Calls of the model *)

\* _call: the prompt is made once, of the memory and the task as they are now.
Ask(mode) ==
    \E recalled \in Selections(longTerm') :
        op' = [mode |-> mode, phase |-> "send", shown |-> recalled \cup Range(transient'),
               attempt |-> 0, repairs |-> 0, n |-> 0, first |-> sent + 1]

\* A call that has failed for good.  The Runner goes on after a failed answer or
\* act, which the agent ends as a task; a lifecycle operation invalidates the run.
CallFails ==
    /\ op' = NoOp
    /\ valid' = (op.mode \in {"respond", "act"})
    /\ IF op.mode = "act"
       THEN FinishTask /\ loop' = "none" /\ UNCHANGED <<lived, since, turns>>
       ELSE UNCHANGED <<memoryVars, loopVars>>

\* A failed attempt is repeated: after an answer that is no JSON object with a
\* demand for one, after a fault as the original prompt.
Repeat(kind) ==
    IF op.attempt < ParseRetries
    THEN /\ op' = [op EXCEPT !.phase = "send", !.attempt = @ + 1,
                             !.repairs = IF kind = "parse" THEN @ + 1 ELSE 0]
         /\ UNCHANGED <<memoryVars, loopVars, valid>>
    ELSE CallFails

\* Mutant: only what is not repeated is recorded.
AttemptFailsUnseen(kind) ==
    /\ errors' = IF op.attempt < ParseRetries THEN errors ELSE errors \cup {kind}
    /\ Repeat(kind)
    /\ UNCHANGED <<cellVars, mixed>>

AttemptFails(kind) ==
    /\ errors' = errors \cup {kind}
    /\ Repeat(kind)
    /\ UNCHANGED <<cellVars, mixed>>

\* The end of respond, by the type of the answer.
Responded ==
    \/ Persist /\ UNCHANGED <<transient, active, since, loopVars, valid>>
    \/ UNCHANGED <<memoryVars, loopVars, valid>>        \* invalid response type

\* The end of act: the step is recorded, and a final one ends the task.
Acted ==
    /\ lived' = lived + 1
    /\ UNCHANGED <<since, turns, valid>>
    /\ \/ /\ longTerm' = Remembering(Append(transient, lived + 1))
          /\ transient' = <<>> /\ active' = FALSE /\ loop' = "none"
       \/ /\ transient' = Append(transient, lived + 1)
          /\ UNCHANGED <<longTerm, active>>
          /\ loop' \in {"tool", "none"}     \* a tool call; an invalid action type

\* The end of observe and of maintain: an emission or a summary is persisted;
\* malformed emissions fail the observation.
Decided ==
    \/ Persist /\ UNCHANGED <<transient, active, since, loopVars, valid>>
    \/ UNCHANGED <<memoryVars, loopVars, valid>>
    \/ op.mode = "observe" /\ valid' = FALSE /\ UNCHANGED <<memoryVars, loopVars>>

\* A JSON object was read as the answer to prompt op.n; it answers prompt n.
Answered(n) ==
    /\ mixed' = (mixed \/ n # op.n \/ op.repairs > 0)
    /\ op' = NoOp
    /\ CASE op.mode = "respond" -> Responded
         [] op.mode = "act" -> Acted
         [] OTHER -> Decided
    /\ UNCHANGED <<cellVars, errors>>

\* What the model writes: a JSON object, other text, or an error.  A line of the pipe
\* is the number of the prompt it answers, and what it says is chosen as it is read.
Replies == {"object", "text", "error"}
Take(reply, n) ==
    CASE reply = "object" -> Answered(n)
      [] reply = "text" -> AttemptFails("parse")
      [] OTHER -> AttemptFails("transport")

Sending == op # NoOp /\ op.phase = "send"
Waiting == op # NoOp /\ op.phase = "wait"

\* SubprocessJsonlModelClient.complete: poll, write, select, readline.
Send ==
    /\ Sending /\ client = "subprocess" /\ Alive
    /\ sent' = sent + 1
    /\ WriteLine(sent + 1)
    /\ op' = [op EXCEPT !.phase = "wait", !.n = sent + 1]
    /\ UNCHANGED <<memoryVars, loopVars, cellVars, errors, mixed, valid>>

SendToDead ==
    /\ Sending /\ client = "subprocess" /\ ~Alive
    /\ AttemptFails("transport")
    /\ UNCHANGED <<pipeVars, sent>>

Receive ==
    /\ Waiting
    /\ ReadLine(<<>>)
    /\ \E reply \in Replies : Take(reply, Head(Fetched))
    /\ UNCHANGED <<proc, sent>>

ReceiveEof ==
    /\ Waiting /\ ReadsEof
    /\ AttemptFails("transport")
    /\ UNCHANGED <<pipeVars, sent>>

\* Mutant: the wait is not bounded.
KeepWaiting == Waiting /\ ~Readable /\ UNCHANGED vars

\* TimeoutError: the process is kept, and so is the line it may still write.
TimeOut ==
    /\ Waiting /\ ~Readable
    /\ AttemptFails("transport")
    /\ UNCHANGED <<pipeVars, sent>>

\* The HTTP clients: an answer of its own for every request.
CompleteOverHttp ==
    /\ Sending /\ client = "http"
    /\ sent' = sent + 1
    /\ \E reply \in Replies : Take(reply, op.n)
    /\ UNCHANGED pipeVars

ModelAnswers ==
    /\ stdin # <<>> /\ Answer(Head(stdin))
    /\ UNCHANGED <<memoryVars, loopVars, cellVars, callVars, valid, op>>

ModelExits ==
    /\ client = "subprocess" /\ Exit
    /\ UNCHANGED <<memoryVars, loopVars, cellVars, callVars, valid, op>>

\* A line nobody asked for, which the client cannot tell from an answer: it gives its
\* prompts no number and reads none.  One in a behaviour, and while a call waits: one
\* that was written before is read no sooner.
ModelBabbles ==
    /\ Waiting /\ ~strayed
    /\ Babble(0)
    /\ strayed' = TRUE
    /\ UNCHANGED <<memoryVars, loopVars, condition, client, runs, callVars, valid, op>>

----------------------------------------------------------------------------
(* Operations, as the Runner calls them *)

\* observe: a result of the current task's tools is transient, anything else is
\* remembered.  Within an act loop the Runner delivers results of tools only.
Observe(ofTool) ==
    /\ Idle /\ MayLive
    /\ loop = "none" \/ (loop = "tool" /\ ofTool)
    /\ IF active /\ ofTool
       THEN /\ transient' = Append(transient, lived + 1) /\ lived' = lived + 1
            /\ UNCHANGED longTerm
       ELSE Persist /\ UNCHANGED transient
    /\ loop' = IF loop = "tool" THEN "again" ELSE loop
    /\ IF Decisions THEN Ask("observe") ELSE UNCHANGED op
    /\ UNCHANGED <<pipeVars, active, since, turns, cellVars, callVars, valid>>

Respond ==
    /\ Idle /\ MayLive /\ loop = "none"
    /\ since' = lived
    /\ FinishTask
    /\ Ask("respond")
    /\ UNCHANGED <<pipeVars, lived, loopVars, cellVars, callVars, valid>>

StartAct ==
    /\ Idle /\ MayLive /\ loop = "none"
    /\ since' = lived /\ lived' = lived + 1
    /\ longTerm' = Remembering(transient)
    /\ transient' = <<lived + 1>> /\ active' = TRUE
    /\ loop' = "asks" /\ turns' = 1
    /\ Ask("act")
    /\ UNCHANGED <<pipeVars, cellVars, callVars, valid>>

ContinueAct ==
    /\ Idle /\ MayLive /\ loop = "again" /\ turns < MaxTurns
    /\ UNCHANGED memoryVars
    /\ loop' = "asks" /\ turns' = turns + 1
    /\ Ask("act")
    /\ UNCHANGED <<pipeVars, cellVars, callVars, valid>>

\* The Runner ends the loop: the turns are used up, or it rejects the tool call.
\* The agent is not told.
LeaveLoop ==
    /\ Idle
    /\ loop = "tool" \/ (loop = "again" /\ turns = MaxTurns)
    /\ loop' = "none"
    /\ UNCHANGED <<pipeVars, memoryVars, turns, cellVars, callVars, valid, op>>

Maintain ==
    /\ Idle /\ MayLive /\ loop = "none"
    /\ Decisions \/ condition = "backend"      \* the capability it declares
    /\ FinishTask
    /\ IF Decisions THEN Ask("maintain") ELSE UNCHANGED op
    /\ UNCHANGED <<pipeVars, lived, since, loopVars, cellVars, callVars, valid>>

SessionBoundary ==
    /\ Idle /\ loop = "none"
    /\ FinishTask
    /\ UNCHANGED <<pipeVars, lived, since, loopVars, cellVars, callVars, valid, op>>

\* The memory service refuses an operation or its answer is lost: the operation
\* is not repeated, and the run is over.
BackendFails ==
    /\ condition = "backend" /\ Idle
    /\ valid' = FALSE
    /\ UNCHANGED <<pipeVars, memoryVars, loopVars, cellVars, callVars, op>>

\* A run ends, in whatever state it is, and another begins: a new agent, a new
\* memory, the same client.
NextRun ==
    /\ op = NoOp /\ runs < MaxRuns
    /\ runs' = runs + 1
    /\ lived' = 0 /\ longTerm' = <<>> /\ transient' = <<>> /\ active' = FALSE /\ since' = 0
    /\ loop' = "none" /\ turns' = 0 /\ valid' = TRUE
    /\ UNCHANGED <<pipeVars, condition, client, strayed, callVars, op>>

----------------------------------------------------------------------------

Init ==
    /\ condition \in Conditions /\ client \in Clients
    /\ InitPipe
    /\ lived = 0 /\ longTerm = <<>> /\ transient = <<>> /\ active = FALSE /\ since = 0
    /\ loop = "none" /\ turns = 0 /\ valid = TRUE
    /\ runs = 1 /\ op = NoOp
    /\ sent = 0 /\ errors = {} /\ mixed = FALSE /\ strayed = FALSE

Next ==
    \/ \E ofTool \in BOOLEAN : Observe(ofTool)
    \/ Respond \/ StartAct \/ ContinueAct \/ LeaveLoop \/ Maintain \/ SessionBoundary
    \/ Send \/ SendToDead \/ Receive \/ ReceiveEof \/ TimeOut \/ CompleteOverHttp
    \/ ModelAnswers \/ ModelExits \/ ModelBabbles \/ BackendFails \/ NextRun

Spec == Init /\ [][Next]_vars

\* The client's calls run on a thread of the harness and come back in time.
Client == Send \/ SendToDead \/ Receive \/ ReceiveEof \/ TimeOut \/ CompleteOverHttp
FairSpec == Spec /\ WF_vars(Client)

----------------------------------------------------------------------------
(* Properties *)

\* What a run has lived is there exactly once, as memory or as the current task:
\* over failed calls, tasks the Runner abandoned, session boundaries and
\* maintenance, nothing is dropped and nothing is formed twice (_finish_task).
RememberedOnce ==
    LET all == longTerm \o transient
    IN  /\ IsInjective(all)
        /\ condition # "B0" => Range(all) = 1..lived

\* Under B0 an answer and an action are asked for with nothing from before the
\* exchange or the task: the control condition has no memory at all.
ControlHasNoMemory ==
    condition = "B0" /\ op # NoOp /\ op.mode \in {"respond", "act"} =>
        \A e \in op.shown : e > since

\* The condition decides what is remembered, all that was lived or nothing at all.
MemoryFollowsTheCondition == RememberedOnce /\ ControlHasNoMemory

\* An answer that was read is the answer to the original prompt of its call, in
\* every report whose recorder shows no error (the release gate asks for none):
\* a line that comes after its call was given up has left an error behind.  This
\* is for a process that writes one line for a prompt and no other: the client
\* checks nothing of the kind, and a stray line is read as an answer without an
\* error (complete).
CleanRecordsArePaired == errors = {} /\ ~strayed => ~mixed

\* Every operation comes back, however the model behaves (the bounded wait of
\* complete, the bounded attempts of _call).
OperationsReturn == (op # NoOp) ~> (op = NoOp)

\* The claim of act's comment: a task the Runner has given up is over for the
\* agent too.
AbandonedTaskIsOver == op = NoOp /\ loop = "none" /\ valid => ~active

\* The claim of the stdio adapter's comment for the same kind of channel: what is
\* read as the answer of a call is no late answer to an earlier call.
AnswerIsToTheCall ==
    [][Receive /\ Answered(Head(Fetched)) => Head(Fetched) >= op.first]_vars

============================================================================
