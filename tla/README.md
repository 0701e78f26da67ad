# MIB: models, checks and proofs

TLA+ models of the MIB memory benchmark (`src/src/mib_runner`), the TLC runs that
check them on small instances, and the TLAPS proofs of the results that hold for
every instance. Paths below are relative to `src/src/mib_runner` unless they start
with `src/`.

## 1. Inventory

MIB plays a *scenario* (a timeline of events, then probes) to a memory-bearing Agent
in several *conditions* (the full timeline, ablations that remove evidence, twins,
injections), scores the paired runs, and reports how much of the score the memory is
responsible for. Around this core stand the transports the Agent is reached by, a
private store of hidden scenarios, a hosted evaluation service with a leaderboard, and
several benchmarks built on the same Runner.

| Component | Source | State | Operations | What makes it correct |
|---|---|---|---|---|
| Evaluation service | `evaluation_service.py`, `service_db.py`, `service_api.py`, `service_cli.py` | four SQLite tables (submissions, cycles, jobs, results), report and attestation files per job, the files a job binds | register submission / cycle, activate cycle, enqueue, worker-once, recover-running | a job is evaluated by one worker, publishes at most one result and ends accordingly; a result comes from the artifacts its manifest was signed for |
| Leaderboard | `leaderboard.py` | none: reads the registry and the report files | `leaderboard`, `compare_results` | only verified scores are ranked |
| Runner | `runner.py` | place in the timeline, world state, Agent instance(s), receipts, probe rows, pending emission probes | `run_condition`, `run_scenario` | whatever Agent and transport do, the run ends, its evidence is consistent, the Agent is released, and memory is the only difference between conditions |
| Adapter contract | `adapter_contract.py` | none | `required_capabilities`, `check_descriptor`, `verify_run_contract` | a run whose lifecycle failed can never be read as evidence |
| Transports, Agent host | `transports.py`, `protocol.py`, `server.py` | a child process and its pipes, or an HTTP endpoint; the host's Agents per run | one request, one answer, by `request_id`; close | an answer is never taken for the answer to another request; what was acknowledged is remembered |
| Same-model Agent, memory backends | `same_model_agent.py`, `memory_backend.py`, `backend_benchmark.py` | long-term and transient memory, the active task, answered requests, backend store | observe, respond, act, maintain, session boundary, restore | memory holds what was lived, once each; the control holds nothing |
| Model client | `model_clients.py` | a locked pipe to a model process | complete, close | one exchange at a time, answers to their callers |
| Benchmark pack, report, scoring | `benchmark.py`, `report.py`, `aggregation.py`, `scoring.py`, `dependence.py`, `hidden.py` | rows of a pack, gates of a report | run pack, aggregate, redact, verify score | no score where evidence is missing; the verifier recomputes what the harness wrote |
| Evaluators, simulators | `evaluator.py`, `world.py` | entities, tool results | evaluate an output, run a tool | credit only for what the oracle asks |
| World model, generated programs | `worldmodel.py`, `generate/` | the record of assertions; the scenario under construction | add, query, support set, twin; build, interleave, finalize | the oracle is what the record entails, ablations and twins change it |
| Reference Agents | `agents/` | what was observed, the archive, the task | observe, maintain, respond, emit, act | a known strategy each, against which the benchmark calibrates itself |
| Same-model calibration | `same_model_calibration.py` | runs, recorders, report | run, audit, report, verify | only clean evidence releases a pack |
| Learning benchmark | `learning/` | a unit's samples, audits of the host's procedures | run a unit, score it | what was dropped, damaged, revoked and readopted is reported as it was |
| Late probe sampling | `late_sampling.py` | none | choose the variant of a probe | the same for every condition of a pair |
| Materialization, hidden store | `materialize.py`, `hidden.py`, `validation.py` | store manifests, commitments | build, load, verify a store; validate | a public report reveals no hidden content |
| Submissions, sandbox, signing | `submission.py`, `sandbox.py`, `service_signing.py` | processes, keys | build a runtime; sign, verify | outside these models |
| Fixture calibration, experimental tracks, command line | `calibration*.py`, `experimental/`, `cli.py` | finished reports | statistics; baselines | outside these models |

How they interact. The service's worker calls the benchmark pack, the pack calls
`run_scenario`, that calls `run_condition` once per condition, each with an Agent built by a
factory of the submission. `run_condition` calls the Agent through a transport, the world
simulator for tools and updates, the evaluators for probes, and leaves evidence that
`verify_run_contract` reads, inside the report, at every later stage. The leaderboard reads
the registry and verifies the report files. The calibration and the learning benchmark call
the same Runner with Agents of their own. Threads exist in the HTTP front of the service
and, across processes, between CLI workers: they share the database and the artifact
directories. The Runner is one thread; its concurrency is with an Agent that may be slow,
lose answers, or have acted although no answer arrived.

What is hard: worker, enqueue and administrator steps interleave between
transactions; workers die in any of them; recovery puts a job back while somebody may still
hold it; the files bound by a job change between the check and the use; a pipe delivers
lines late, in parts or unasked; every call to an Agent may fail in three ways, with a
different meaning by operation and place (in a probe, a task, a session boundary), and each
way out must still release whatever was built; the record of a scenario is corrected,
denied and withdrawn in any order, and every oracle, ablation and twin is derived from it;
and each score passes through several aggregations that must treat failures, missing pairs
and broken runs alike.

## 2. The modules

| Module | Models |
|---|---|
| `EvaluationService` | the registry, enqueue, workers, recovery, the bound files and what the leaderboard ranks |
| `JobLedger` | abstract: what the job queue promises |
| `AdapterContract` | the contract operators, in particular `VerifyRunContract` |
| `Runner` | `run_condition` on top of `AdapterContract` |
| `LinePipe` | a child process spoken to in JSON lines, with its buffered reader |
| `AgentTransport` | the stdio and HTTP adapters, the host's dispatch, and runs that share them; extends `LinePipe` |
| `Exchange` | abstract: a request is answered by its own answer or fails, and comes back |
| `SameModelAgent` | the Agent of the same-model experiments, its memory service and its model client; extends `LinePipe` |
| `Calibration` | a same-model calibration from its schedule to the release decision and its verifier |
| `Rationals`, `PackReport` | a generated pack from its runs to the headline score, the redacted copy and the verifier |
| `Absent`, `WorldModel` | the record of assertions and every query on it |
| `Simulator`, `Evaluator` | the workflow and deployment tools; the scoring of outputs, emissions and trajectories |
| `Programs` | the generated programs, and what the builder derives from the record |
| `ReferenceAgents` | the Agents of `agents/v2.py` |
| `Scenario` | composes the five above: build, replay and score one scenario |
| `Learning` | one unit of the learning benchmark and `score_unit` |
| `MC*` and the `.cfg` files | instances for TLC |
| `EvaluationServiceProofs`, `RunnerProofs`, `RunnerPlanProofs`, `AgentTransportProofs`, `SameModelAgentProofs`, `CalibrationProofs`, `LearningProofs`, `PackReportProofs` | theorems, section 5 |

Definitions named *Mutant* in a comment are deliberately wrong variants of a definition
of the module; no behaviour of the specification uses them. They document, for every
property, a plausible bug that violates it.

### 2.1 EvaluationService

*State.* `submissions`, `cycles`, and `jobStatus`, `manifest`, `createdAt`, `resultId`,
and `results` are the tables. `reports` and `attFile` are the files under
`artifact_root/<job>`; `disk` is the spec, store, Profile and schema files and the Runner's
sources, `imported` the Runner's sources as each worker's process found them when it started. A worker is a program counter `pc`, the job it `claimed` and its locals `scratch`; a
client is an enqueue `call`; an operator is an activation in progress. `clock` draws
distinct timestamps, `attempts` numbers evaluations.

*Steps.* Each `ServiceDB` method opens its own connection and transaction, so it is one
action; so is each write of a file. `enqueue` is `EnqueueReadSubmission`,
`EnqueueReadCycle` (or `EnqueueRefuse`) and `CreateJob`, from what the two reads returned.
`worker_once` is `ClaimJob`, `VerifyManifest`, `LoadInputs`, `Execute`, `WriteInternal`,
`WritePublic`, `Attest`, `InsertResult`, `FinishSucceeded`; each step of its `try` block may
instead go to `Raise`, and then `FinishFailed`. `activate_cycle` is two steps,
`ReadCycleToActivate` and `ActivateCycle`: its `SELECT` runs before Python's sqlite3 module
begins a transaction, which it does at the first `UPDATE`. `claim_next_job` issues
`BEGIN IMMEDIATE` before its `SELECT`, and is one step.

`Restart` is a worker's process started anew, which alone imports what the sources have become: the worker compares their digest
on disk and evaluates with what it has imported.

*Environment*, switched by `Faults`: `crash`, `io_error`, `recover` (recover-running while no
worker runs, as the code's comment asks), `recover_live` (at any time, which nothing in
the code prevents), `edit` / `edit_live` (bound files change, outside or inside the window
between a worker's check of the digests and its load of the files), `concurrent_admin`
(a cycle is registered while one is being activated).

*Abstractions.* A digest is the contents it is computed from. A signature is the fact
that nothing but the service writes manifests and attestations. An evaluation is one step
with an outcome the Agent decides. A path is fixed by the submission or the cycle.

### 2.2 Runner

*State.* `stage` and `pos` are where `run_condition` is; `todo` is what the current event
still sets off, in the order of `process_event` and the probe loop; `call` is the
outstanding `invoke` with its attempts; `loop` is the act loop; `world` is the list of
updates applied and tool calls executed; `agents` is every instance the run has built;
`receipts` / `valid` / `descriptor` are `contract`; `rows` and `pending` are the probe rows and
the emission probes to be scored at the end; `run` is what is returned.

*Steps.* `Describe`; `NextEvent` (world updates first, then the steps that reach the Agent:
none for a removed or hidden event); the three ends of a call, `Retry`/`Resend`,
success (`ResetAgent`, `ObserveEvent`, `MaintainAgent`, `EndSession`, `RestoreAgent`,
`RespondToProbe`, `CallTool`, `FinishAct`), and failure. Failure has a meaning by operation: `LifecycleFailure`
(acknowledged operations: the run becomes invalid and is given up), `ProbeFailure` (a row),
`TaskFailure` (an exception that leaves `run_condition`), `Misbehave` (the Agent's own fault: a
score of 0). `ReplaceAgent` / `ReplaceFails` are the session boundary under
`persisted_state`. `ScorePending` / `ScoringFails`, `Close`, `Return` end the run.

*Agent.* Chooses its answers anew at every call. A fault is a dropped request, a lost answer
(the Agent has observed, and will observe again), an error envelope, a timeout, a refusal (no
`accepted: true`), or an answer the evaluator cannot score.

*Abstractions.* What a probe asks and how an answer is judged is a score of 0 or 1 and,
for structured answers, whether the value was recalled. Observation content, virtual time,
tool semantics, latency and the evidence digest are left out, and so are cost snapshots.
A scenario that validation accepts is assumed, so nothing raises before the guarded region.

### 2.3 LinePipe, AgentTransport, Exchange

*State.* `LinePipe`: the process, its `stdin`, the `pipe` from its standard output and the
`buffer` of the reader, which takes all the pipe holds at once and which `select` does not
see. `AgentTransport`: the `binding` (a process per run, one for all runs, or HTTP), the HTTP
requests on their way (`net`), `AgentHost.agents` as a partial function from runs to what
each Agent observed, and of the caller the run, its `phase`, the observations acknowledged
(`done`), the outstanding `call` and the `last` one that came back.

*Steps.* `Send`, `SendBroken`, `CallTheDead`, `Receive`, `ReceiveEof`, `TimeOut` are
`_rpc`, with `_check_response` as `Verdict` and the Runner's retries of reset and observe as
`Settle`; a timeout terminates the process (stdio) or leaves the request on its way (HTTP).
`HostStep` is `serve_stdio` with `AgentHost.handle` as `Dispatch`: unknown run,
repeated request ids that are answered again without a second effect, close. `HostBabbles` and
`HostExits` are the environment: a line of its own, one that decodes but names no request
(`Foreign`) or one that does not (`Junk`), and the process ending; an over-long line is an
answer of `HostStep`. `HttpStep` handles any request on its way, in
any order, once.

*Abstractions.* Operations are describe, reset, observe and close: maintain, respond, act and
the session operations travel as observe does. Parsing of outputs is left out. The host writes
whole lines: one that stops within a line blocks `readline` without a timeout
(`transports.py:145`), and no refinement of `Exchange` holds of it.

### 2.4 SameModelAgent

An experience is a number, what was lived *n*-th. `longTerm`, `transient`, `active` are the
attributes of those names; `op` is the operation the Agent is in, with its attempt and the
memory the prompt shows; `loop`, `turns`, `valid` are of the Runner's act loop and lifecycle;
`errors` and `mixed` are of the recorder. `Observe`, `Respond`, `StartAct`/`ContinueAct`,
`LeaveLoop`, `Maintain`, `SessionBoundary` begin an operation; `Send`, `Receive`, `ReceiveEof`,
`TimeOut`, `SendToDead`, `CompleteOverHttp` are the client's `complete` and what `_call` makes of its result
(`Responded`, `Acted`, `Decided`, or another attempt). The model answers when it likes, or exits, or once writes a line nobody asked for (`ModelBabbles`). A line is the number of the prompt it
answers, 0 for none; whether it is an object, text or an error is chosen when it is read, as nothing reads it before; `BackendFails` is a memory service that refuses. The recorder and the client
outlive a run (`NextRun`). The ranking of retrieved records is any choice of records that
fits (`Selections`).

### 2.5 Calibration

`plan` is the runs of `run_same_model_calibration` in their order: the rotated schedule of the four
conditions over all units, the causal ablations of B3 with a full run of their own where the
schedule holds none, transfer cells, reference. `Execute` makes the next one; its outcome says what the
recorder of its arm and its receipts keep: good, off (another score), error (a failed attempt),
broken, unclosed, truncated. `WriteReport` computes cards, gates, the audits of `_fairness` and eligibility;
`Edit` changes one field; `Verify` is `verify_same_model_report`. Scores are percentages.

### 2.6 Rationals, PackReport

Scores are exact fractions (`Rationals`); floats are not modelled. `Plan` is `run_materialized_pack`'s
schedule (Templates the Agent supports, seeds, rungs, repetitions, full and interventions); `Run` makes a run with an
artifact of one of four kinds (as usual, one probe otherwise, one failed, broken off); `Report` is `build_pack_report`:
run scores, causal metrics of the paired runs, Instance, Template and Dimension rows, joint dependence,
retention, the official and partial flags, and the bootstrap's point estimate; `Publish` is
`redact_report_for_public`; `Edit` raises a figure or flips a flag of either copy; `Verify` is `verify_score`. Intervals of the
bootstrap are whether there is one.

### 2.7 WorldModel, Programs, ReferenceAgents, Scenario

`WorldModel` translates the queries of `worldmodel.py` for a record `H` and a set `X` of withheld
statements; the least fixed points of the code (withdrawal, correction chains, hops) are recursive
functions bounded by the record's size. `Programs` gives the script and the probes of eleven programs
(recall, temporal, epistemic, forgetting, relearning, bitemporal, authority, prospective and its cancelled branch, experience, skill, without
the prospective program's diagnostic `p-near` of weight 0, `generate/programs.py:285`),
and what `finalize` makes of them: oracles, ablations with their leak proof, twins. The values a seed draws are
fixed; the alternative value of a twin and the noise are chosen. `ReferenceAgents` rebuild the record from what they
were shown, which has neither the truth flag nor the reference of a correction.

`Scenario` has two halves. In `phase = "record"` the builder's calls `SaySomething`, `CorrectSomething`,
`RetractSomething`, `ObserveSomething` come in any legal order: the record is checked beyond the programs. From
`"build"` on, `Interfere` plans the noise, `Finalize` picks a condition, and the replay (`ShowEvent`, `MaintenanceWindow`,
`SessionBoundary`, `StartTask`, `ToolCall`, `FinishTask`, `UpdateWorld`, `Withheld`) lets noise and maintenance fall wherever
`_interleave_history` can put them; `Ask`, `Trigger` and `StartProbe` put the probes. `Evaluate`, the tools and
the evaluators are applied to what this history gives.

### 2.8 Learning

`at` is the operation that is next; `Wrapped` is one operation of `AuditedAgent`: the audit before, the call, the
audit after, each of which may fail, and a call whose answer was dropped after the wrapper had recorded it.
`Respond` and `Act` deliver a sample, `Refusal` is what the Runner does not execute
(a call without id, a repeated id, an unknown tool, one call too many), `log` is what the wrapper
keeps, `run` the Runner's rows, `host` the procedure with its standing and, as history, what happened to it:
proposed, tried, adopted, revoked, restored without a trial, or rolled back to an adopted revision of another trial (`Earlier`, those of before the unit
included). An answer may be one the evaluator raises on (`Scorable`): the Agent has completed it, and the Runner records a failure. From
`Inventory` on the module is `score_unit`: the replay that must account for every sample, damage, latency of a
revocation, readoption.

## 3. The runs

CHECK_DEADLOCK is off everywhere: a bounded number of jobs, edits, faults and samples is used up, and a
run that has returned or raised has nothing left to do.

| Run | Instance | Shows |
|---|---|---|
| `ServiceLedger` | 2 jobs of 2 backends, 2 workers, a bound file edited, a crash, no recovery | the queue implements `JobLedger` (`ImplementsLedger`), so a failed job has published nothing; stored artifacts are the signed ones (`StoredResultVerifies`); `TypeOK` |
| `ServiceRebind` | 1 job, 2 workers, 2 cycles, 2 Profile files, an edit, 2 activations, failing operations, a recovery with live workers | no result for a spec, store or Profile other than the signed ones; one active cycle per Profile; a succeeded job names the stored result, whoever finished last |
| `ServiceRecovery` | 2 jobs, 2 workers, a crash, a recovery when no worker runs, fairness | one worker per job; a finished job never changes; every queued job finishes |
| `ServiceRankFinding` | 1 job, a crash and a recovery | *violation*: the ranked score need not be the verified one |
| `Runner` | 5 events (a maintenance window, a session boundary, a lived task, a hidden update), a probe of every delivery, a policy twin (the full condition but for one update) with sessions, a harmful replacement of the evidence by injections without, a diagnostic cell; every fault at every call, 1 retry, 2 turns, 1 tool call under 2 ids; fairness | the returned run verifies; Agents are released; tool calls stay within their bound and their results are shown; only the handed state crosses a boundary; credit needs recall; world updates are independent of the treatment; nothing follows a failure; every run ends |
| `AgentTransport` | each binding, 2 runs of 2 observations, 1 retry, 1 line of the host's own | an answer is one to its request; caller and pipe stay in step; what was acknowledged is remembered; the adapter implements `Exchange` |
| `SameModelAgent` | B0, B1, B2 and a memory service, HTTP and subprocess clients, 2 runs, 4 experiences, 3 prompts, 1 parse retry, 1 line of the model's own | memory follows the condition; a record without errors is of paired answers, unless the model wrote a line nobody asked for; every operation comes back |
| `Calibration` | 1 Template, 2 seeds, causal seeds of which one is shared; every configuration; any one run goes wrong in any way; any one field edited | eligible exactly if clean; the verifier accepts what the harness reports and no false release |
| `PackReport` | 2 Templates over 3 Dimensions, 2 rungs, 2 repetitions, all kinds of ablation, 5 kinds of Agent; any one run differs in any way; any one figure edited | failing never helps; causal credit is earned; an official score is complete; report and bootstrap agree; the verifier keeps the headline |
| `PackPublicFinding` | the same | *violation*: the public copy of a correct report may be refused |
| `Scenario` | every program and branch, structured, recency, overgeneralizing, consolidating and memory-free Agents, one noise event and the maintenance anywhere; any record of 3 statements | answers are on record; scores tell memory from its absence and from bad habits; ablations and twins make a difference; what was archived is recalled; the recorded past is fixed |
| `Learning` | the three programs with 2 early, 2 late and 3 retrial samples, 3 turns, 2 tool calls, 1 retry, one procedure, with and without an earlier revision; up to 3 changes of it or 2 faults; 11 kinds of misconduct, answers that cannot be scored | `score_unit` refuses exactly the units in which something it cannot replay was completed; damage is never erased; a reported revocation followed the damage; a readoption needs another trial |

*Why the bounds are enough.* Two jobs and two workers are the least with which a claim can
be contended, order can matter between jobs, and a second worker can take what the first
lost. Two cycles and two Profiles are what rebinding and activation can confuse. A crash and a
recovery give a second attempt at the same job. In the Runner, one retry
distinguishes a first attempt, a retry and exhaustion; a second call is one too many; one session boundary gives a restored
instance, and the proofs cover any number. In the transport two runs and two requests are what a late line can be confused between, and
the proofs cover any number. In the same-model Agent four experiences are an observation, a task of two steps and what follows it.
In the calibration every unit plays the same part, so one run that goes wrong is enough to ask each audit whether it
looks there. In the pack, two repetitions and two rungs tell "per repetition", "per Instance" and "canonical" apart; the two
Templates have disjoint kinds of ablation, and one that every Agent can be excluded from. In `Scenario` the programs are the
code's own; three free statements are the least for a correction of a correction, or a withdrawal of a corrected
statement, and a question as of a time in between. In `Learning` the samples are the minima a profile may declare, and the
procedure changes from sample 2 on; the three theorems about `Learning` are for any number of samples, turns and changes. The model values of jobs, workers, cycles and submissions are
interchangeable, so the service's safety runs use symmetry; `ServiceRecovery`, which checks liveness, does not.

*Fairness.* `ServiceRecovery`: worker-once is an operator's loop, called for every backend it
serves; a call that has claimed runs to its end or crashes (`WF` of `Proceed` and
`Claim`); recover-running is called when jobs are left running and no worker is (`WF` of
`RequeueRunningJobs`, bounded like the crashes). Nothing is assumed of enqueue or of
administrators. `Runner`: `run_condition` is one thread and every call of the Agent returns or
hits its timeout (`WF` of `Next`). `AgentTransport`: the caller reads a line that is there, sees the end of the
file, and its timeout expires (`WF` of `Receive`, `ReceiveEof`, `TimeOut`); nothing is assumed of the host.
`SameModelAgent`: the client's thread runs (`WF` of `Client`); nothing is assumed of the model or of the Runner.

## 4. Disagreements between documents and code

Two runs check what a document says and end in a violation; each is a finding in
`PROJECT.json` with the quoted line.

- `ServiceRankFinding`: after a crash between `insert_result` and `finish_job`, and recovery,
  the leaderboard verifies the second attempt's report and shows the first one's score.
- `PackPublicFinding`: redaction renames the rows of the retention block and leaves them in the order of the
  private names, while the verifier sorts by name.

The models contain more statements of documents that the code does not keep. Each was seen to fail on the instance
of its run; none is part of a passing run, and several are defined at the end of their module.

- Activating a cycle retires the previous one of *the Profile it read* before the transaction
  (`service_db.py:144`); registering the cycle under another Profile in between leaves two active, against
  `src/docs/MIB-Leaderboard-Evaluation-Service.md:76` (`OneActiveCyclePerProfile` with `concurrent_admin`).
- The schemas' digests are bound by the manifest (`evaluation_service.py:178`) and not compared by the
  worker. The Runner's digest is compared with the files on disk (`evaluation_service.py:229-231`, `util.py:11-20`), while the code that evaluates was
  imported when the process started: sources edited before the enqueue are signed and verified, and a long-lived worker evaluates with the old ones.
  (`EveryBoundArtifactIsVerified`, against `src/docs/MIB-Leaderboard-Evaluation-Service.md:100`; `ResultComesFromTheSignedJob` is the part that holds.)
- An error envelope, an answer of the Agent, is retried like a transport fault (`transports.py:57`), against
  `src/docs/harness/MIB-v0.5-Review-Resolution.md:41` (`AnswersAreNotRetried` in `Runner`).
- With Templates that were not executed and a bootstrap, the verifier refuses the report the harness writes
  (`VerifierAcceptsPartial`).
- The model client of a timed-out call is used again, and the late answer is read as the answer to the next
  prompt (`model_clients.py:232`; `AnswerIsToTheCall`). `CleanRecordsArePaired` shows that an error is then on record.
- A task the Runner gave up stays the Agent's active task until its next operation, against the comment of `act`
  (`AbandonedTaskIsOver`).
- An error in a transfer cell, a supplemental diagnostic by `same_model_calibration.py:979`, is counted among the
  errors of B3 (line 817, lines 917-921) and withholds the release (`TransferNeverDecides`).
- With the evidence withheld, the answer may still be partly right: `leak_free` (`worldmodel.py:418`) asks that the
  answer changes, not that it is no longer derivable (`WithheldEvidenceHidesTheAnswer`).
- A consolidated archive does not survive a session boundary with `persisted_state`, although maintenance archives
  "into long-term memory" (`ArchiveSurvivesTheSession`).
- A revocation that shows only in the inventory before a sample that misbehaved is not seen, and the bound on the
  latency (`learning/scoring.py:224-232`) is larger than what was observed (`BoundIsHonest`).
- A tool call whose arguments are left out is accepted by the Runner (`runner.py:452-458`; `types.py:43` defaults them to
  `None`), while `learning/scoring.py:175` compares them with those of the executed action: `score_unit` raises, and the
  experiment ends with it, against `src/docs/harness/MIB-Learning-Longitudinal.md:155`. So it does when the evaluation of an answer raises
  (`evaluator.py:199-204` lets through a confidence that no float holds): the Agent's answer is complete, the Runner records an `execution_failure` (`runner.py:606-624`), and
  `score_unit` finds an answer too many, or takes it for that of a later sample (`learning/scoring.py:147-149`, `196-197`). Both happen in `Learning`, and
  `OnlyTheUnreplayableIsRefused` says that nothing else has this effect.
- A host that rolls back to a revision of another trial is reported to have readopted (`learning/scoring.py:243-246`), though the comment above (line 240) says
  that "Readmission must carry fresh native trial/evaluation refs": fresh is what differs from the revoked one. `ReadoptionNeedsAnotherTrial` is about what is compared.

Some positive results hold under a condition that is explicit in their run: one active
cycle per Profile needs that no cycle is registered during an activation;
`ResultComesFromTheSignedJob` that the files do not change between the digest check and the load;
`ImplementsLedger` that no recovery comes and no database or file operation of a worker fails (a `finish_job` that fails after the insert leaves a failed job with a result);
`CleanRecordsArePaired` that the model process writes no line nobody asked for (the client takes any line for its answer, `model_clients.py:234-244`);
`ClaimIsExclusive` and `FinishedIsFinal` that recovery waits for the workers to be gone; `InStep` that the host prints
nothing but its answers; `VerifierIsExact` of the pack that aliases are distinct and sort as the Template ids do and, with a bootstrap, that
all Templates were executed; `ArchivedIsRecalled` that the Agent lives through the session boundary;
`ToolCallsAreExperienced`, for every value of the constants, that no Probe that is acted bears the id of a lived task (`TaskIdsAreOwn`, section 5).

Behaviour that is by design or harmless and that no property is about: a recovered job goes to the front of the queue, so one that kills its worker
starves the others (`service_db.py:188`); two results of one submission with the same one-second timestamp are both
its latest (`service_db.py:236`); the latest result is chosen before eligibility is checked (`leaderboard.py:41`, `:51`);
an exception before the guarded region leaves the Agent that `run_condition` was given open (`runner.py:164`).

## 5. The proofs

All theorems are over arbitrary constants, under the named assumptions of the modules. `BackendAssumption`, `ProfileAssumption`,
`OutcomeAssumption`, `NoRowAssumption`, `InitialDiskAssumption`, `BoundAssumption`, `TransportAssumption` and `AgentAssumption`
say that the constants are of the kinds the comments give, that "no row" is not a row and "no call" not a request, and
that run ids are distinct. `ScenarioAssumption` is what `validate_scenario` and `merged_timeline` check before a run: ids are unique, references
resolve, a probe is not conditional on itself; "none", which stands for the anchor of an injection that has none, is no id. `CalibrationAssumption` says that Templates are listed once and a configuration is made of
switches; `LearningAssumption`, that phases are counted, a procedure has its three fields, and a missing error is no error. TLC
evaluates them in the runs of their modules.

`EvaluationServiceProofs`:

- `TypeCorrect`: `Spec => []TypeOK`. A result row is assembled by `ResultOf` from the
  manifest, the locals and the files; that these are rows and reports rather than
  missing values is not visible in `TypeOK`. The inductive invariant `TypeInv` adds what a worker has
  computed at each stage (`WorkerOK`), what an enqueue call has read (`CallOK`), that jobs have
  manifests of registered submissions (`JobOK`), and that a cycle being activated exists (`CycleOK`).
- `OneActiveCycle`: without `concurrent_admin`, from `CycleInv`, which adds that the Profile id an
  activation read is still its cycle's (`ActivationFresh`), the fact the activation race breaks.
- `SucceededNamesResult`: under every fault. `NameInv` adds that the row a worker has inserted
  is still the stored one when it gets to `finish_job` (`InsertedIsStored`): the `UNIQUE` column is
  what makes it so.
- `ExclusiveClaim`, `FinishedStaysFinal`: without `recover_live`. `ClaimInv` adds that a held job is running
  (`HeldIsRunning`); `finish_job` tests no status, and this is why it may not.
- `LedgerRefinement`: `Spec => ImplementsLedger` without `recover`, `recover_live` and `io_error`. `LedgerInv` joins the three invariants
  above and adds that a job with a stored result is running or has succeeded, and its holder has only `finish_job` left
  (`PublishedIsAlmostDone`): a failure recorded after the insert is what `io_error` brings, a second evaluation what recovery brings.
- `StoredResultsVerify`: without recovery, failing writes included. `StoredInv` adds to exclusive claims that whoever holds a published job
  writes nothing any more (`PublishedIsLeftAlone`), and that the digests a worker read back stay those of the files until
  it inserts them (`AttestedMatchesFiles`).
- `ResultsComeFromTheSignedJob`: without `edit_live`, recovery with live workers included. `SignedInv` carries what was
  verified of spec, store and Profile through the load and the evaluation to the row (`WorkerSigned`).

`RunnerProofs`, for every scenario, condition and bound:

- `NothingFollowsFailure`: `Spec => NothingAfterFailure`. The invariant `FailureStops` says that a
  failure on record has left the walk over the timeline, on each of the ways a call can fail.
- `AgentsReleased`: `Spec => []EveryAgentReleased`. `Released` says that all instances but the last
  are closed and the last one is once its condition is past closing; `AreAgents`, that the
  instances form a sequence of records whose closings are counted.
- `SessionsAreSeparate`: `Spec => []OnlyTheHandedStateCrosses`. `SessionInv` says that an instance which remembers anything is
  `Ready`: it was reset, and given what the one before it handed back. `SessionPhase` adds where the run may be while that is not so: before the
  first reset, between the replacement and the reset after it, and before the restoration, with nothing but those calls in between.
- `WorldIsNoTreatment`: `Spec => []MemoryIsTheOnlyTreatment`. `WorldInv` carries `Applied`: the world has had the updates of the events before the
  current one, each once and in the order of the scenario, wherever the condition's injections were merged between them.

`RunnerPlanProofs`, about the plan of the probes and the tools of the tasks:

- `ReturnedRunsVerify`: `Spec => []ReturnedRunVerifies`. `PlanInv` keeps an `Account` of the plan: a planned probe becomes due with the event it
  waits for, and from then on is still to be asked, has exactly one row, or waits for a prerequisite. At the end nothing waits, so the rows are those of
  the plan. `ReceiptsInv` says which receipts each call leaves, so that those `VerifyRunContract` asks for are there.
- `CreditIsEarned`: `Spec => []CreditNeedsRecall`. `ContractInv` joins the two and adds that credit given when a waiting probe is resolved, or withheld, was
  earned by rows already there (`Credited`). That every prerequisite is eventually resolved does not follow from one pass over those
  that wait; it needs an induction over finite sets.
- `ToolCallsAreKept`: `TaskIdsAreOwn => (Spec => []ToolCallsAreExperienced)`. `ToolInv` says that what the act loop has seen is what the task under way has
  called, and that no other task on the list has called anything (`InHand`); that every call was made for a task of an event already begun; and that
  its result was shown to some instance or is the next thing to be observed (`Told`), which no retry, misbehaviour or session boundary comes between. A task belongs to
  one event (`TaskOwner`) and is set off once by it (`EventTasks`) only where no Probe that is acted on bears the id of a lived task. `TaskIdsAreOwn` says so:
  both are `wire_id("task", id)` on the wire (`runner.py:477`, `runner.py:523`), the trace of a task that misbehaved is selected by that name
  (`runner.py:531`, `runner.py:599`), and `validate_scenario` looks for duplicates among the events and among the Probes (`validation.py:66`), not across. The
  generated scenarios name no event like their one acted Probe (`generate/programs.py:303`).

`AgentTransportProofs`, for every list of runs and requests, every binding, number of retries and amount of babble:

- `AnswersAreOwn`: `Spec => []AnswerIsOwn`. `_check_response` compares the request id and the run, not the
  operation. `OwnInv` adds that every message, in whichever of the five places it may be, is of a request that was
  sent or of no request at all (`MessagesOK`), whose id tells its operation (`Tag`); what was accepted then bore the
  identity of its request (`Accepted`).
- `NeverOutOfStep`: `Spec => []InStep`. `StepInv` says that while the host has not babbled at most one request is out:
  in `stdin`, answered in the pipe, or lost with the process (`OneInFlight`), and none when no call is outstanding and the process
  lives (`NothingInFlight`). A timeout must terminate the process for this to be inductive.
- `AcknowledgedStays`: `Spec => []AcknowledgedIsRemembered`. `MemoryInv` adds what keeps a late request from undoing an
  acknowledged one: no reset of the current run is behind an observation on its way or after an acknowledgement (`InOrder`), no
  message belongs to a run to come (`NoneAhead`), a request over HTTP that is still on its way is the one
  the caller waits for, or the caller has given up the run.
- `TransportIsAnExchange`: `Spec => ABS!Safe`, the steps of `Exchange` without its fairness. From `OwnInv`, which makes every success
  the call's own answer.

`SameModelAgentProofs`, for every condition, client, memory limit and number of experiences:

- `MemoryTheorem`: `Spec => []MemoryFollowsTheCondition`. `MemoryInv` says that long-term memory and the current task hold what was
  lived, each experience once, that long-term memory stays empty under B0, and that a task holds only what was lived since it began; `ShownInv` adds
  what a prompt under way may show. `MemoryStep` names all that a step can do to the memory, the end of a task that was given up included.
- `PairedTheorem`: `Spec => []CleanRecordsArePaired`. `PairInv` says that while the recorder has seen no error and the model has written no stray line at most one line is under way
  between the client and the model (`OneLine`), nothing is left in the reader's buffer, and no repair was needed.

`CalibrationProofs`, for every configuration, list of Templates and seeds, and every outcome of every run:

- `VerifierTheorem`: `Spec => []VerifierIsExact`. `ReportInv` says that the report is the one the state makes, or differs from it in one field; each
  field then is either part of what the verifier recomputes or one it reads.
- `CleanTheorem`: `Spec => []EligibleMeansClean`, the safety half of `EligibleIffClean`: an experiment that may be released had no error of the model, no broken run and no
  incomplete history in any run the release rests on. `JobsInv` adds that a run which ended in an error was seen by the recorder of its arm.

`LearningProofs`, for every unit, script of the Agent, number of samples, turns and faults:

- `DamageStays`: `Spec => []DamageIsNeverErased`. `RowsInv` says that each row has the trace of its own sample's tools, and that every receipt is the judgement of
  its call in the light of the calls before it (`JournalOK`): no later call can change it.
- `LatencyIsOfARevocation`: `Spec => []RevocationFollowsDamage`, and `ReadoptionIsTried`: `Spec => []ReadoptionNeedsAnotherTrial`. `score_unit` sees only inventories,
  and `AuditInv` says what they are evidence of, while the run is valid: what happened to the procedure is a sequence of allowed changes in the order of the samples
  (`PastOK`); every answered row has an entry whose two inventories were taken at moments of its own sample (`EntryOf`); a sample that misbehaved has
  left its task open (`OpenedOf`); and the entries come in the order of the rows that answered (`RankIn`), which is how the
  audit pairs them.

`PackReportProofs`, for every pack, plan and set of answers:

- `PackReportInvariant`: `Spec => []PackInv`: what is planned and recorded are runs of the pack, each with an answer or a failure to every Probe of its
  Template (`Recorded`), a report is written only when nothing is left of the plan, and its rows are those the Run Artifacts give.
- `FailingNeverHelpsHolds`: `Spec => []FailingNeverHelps`. A failure changes no weight, so each term of the weighted mean is at most what it was
  (`WeightedMeanMono`), and so are the run's and the Instance's means (`FailingHurts`).
- `CausalCreditIsEarnedHolds`: `Spec => []CausalCreditIsEarned`. Where no answer depends on the memory every observation of a metric is zero or less, so its
  clamped mean is Zero (`NothingGained`, `NoCredit`), and the effects of the opportunities sum to Zero (`NoEffect`). That what a broken run
  said counts nowhere follows the code's order: the pairs that are valid do not depend on it (`SameValidity`), hence neither do the comparisons, the
  observations, the metrics and the joint evidence.
- `ReportInvariant`: `Spec => [](PackInv /\ ReportInv)`: the runs are those the plan no longer holds, and the report, until it is edited, is the one
  `build_pack_report` makes of them.
- `PathsAgreeHolds`: `Spec => []PathsAgree`. A value has one fraction in lowest terms (`QSame`), so sums do not depend on their order or grouping
  (`AddAssociates`, `SumsAgree`, `SumRenamed`) and a mean is that of the means of its parts, each weighted by its size (`MeanPieces`): pooling a metric over the
  repetitions of an Instance gives the metric of all its pairs (`PooledAgrees`), hence the same Instance, Template and Dimension rows
  (`SampledAgrees`, `SampledTemplateRows`). That a coverage of one leaves no weighted Dimension without a Template (`FullCoverage`) is why the
  bootstrap then has a point estimate.
- `VerifierIsExactHolds`: `Spec => []VerifierIsExact`, in three parts. The report as written is accepted (`ReportIsAccepted`) - with `PathsAgree`, for
  its statistics. Its public copy is accepted (`CopyIsAccepted`): what `verify_score` derives from rows whose Templates are renamed is what
  it derives from the originals, renamed (`DerivedNamed`). Each aggregate has a lemma: weights, sums and means do not depend on the names of
  their terms (`WeightRenamed`, `WeightedMeanRenamed`), nor does the worst effect in a stratum (`LeastExists`, `StratumNamed`); the retention rows and the strata of the
  bootstrap come in the order of the ids, which the aliases have to keep (`AscendingRenamed`). And no edit in the report or its public copy that changes the headline is
  accepted (`EditsKeepHeadline`): an edit leaves the headline as it is, or else leaves everything from which `verify_score` computes it (`EditsAre`).
  `EditInv` says that the copy is the redacted report of the runs and that one of the two differs from it by one edit.

It assumes (`PackAssumption`) what holds of every pack: ids and aliases, of which only the order matters, are integers, weights are natural numbers (multiples of a common unit; `mib-scenario.schema.json:1628` has no negative one), the Templates, the Dimensions, the Probes and ablations of a Template are finite in number, a
reference run is that of a harmful ablation (`validation.py:181`), and the tolerance, which `scoring.py` clamps, is below one. Its first half is about `Rationals`: that
the recursive function `Gcd` divides both its arguments, that the operations on fractions in lowest terms agree with
those on values (`Arithmetic`) and keep their order, and that `QSum`, `Mean` and `WeightedMean` do, for any finite set of terms.

The library's induction theorems take an operator as a parameter, which no installed prover
can instantiate; here induction over numbers (`NatSetInduction`) and over the subsets of a finite set (`SubsetInduction`) is stated with the *set* of those for which the claim
holds, which can, and from it follow the recursion of functions up to a number, what `FlattenSeq` makes of a longer sequence, and the sums. Modules with proofs
that need one of these lemmas have it at their beginning.

*Only model-checked*:

- the liveness properties, and with them the fairness part of the two refinements of `Exchange`: fairness and ENABLED are outside the prover;
- the converse half of `EligibleIffClean`, `CleanExperimentIsEligible`: that clean runs *pass* every audit is a statement about the means and
  contrasts over whole sets of runs;
- `OnlyTheUnreplayableIsRefused` of `Learning`, that `score_unit` refuses a unit only for what cannot be replayed: it needs every audit of the log of a whole unit to succeed, and each is a fold or a selection
  over all samples;
- `OfficialIsComplete` of `PackReport`: it needs that the pack's policy and Probes give every Template an opportunity of weight, which no code checks for every pack;
- the properties of `Scenario`, which are about least fixed points over whole records.

## 6. Not modelled

With the reason under `components` in `PROJECT.json`: process isolation and cryptography (no state
of this program to model), command lines, statistics over finished reports (confidence intervals, efficiency, the
fixture calibration), wording and product-shaped scenarios, which are data drawn from a seed, late sampling (a pure function of a digest),
the encryption and layout of the hidden store, the client of one external host, and the tracks the repository itself declares experimental.
Of modelled parts: `compare_results`, the ranking of retrieved memories, the HTTP model clients, the product and reference-memory Agents,
the contextual and workspace simulators, and the lock, pairing and aggregation of learning experiments.

## 7. Plan

1. Proofs: `OnlyTheUnreplayableIsRefused` of `Learning`, from `AuditInv`;
   `CleanExperimentIsEligible`, from the lemmas on sums and means over finite sets that `PackReportProofs` has; then `OfficialIsComplete` for the packs whose every Template has a weighted twin.
2. The lock, units file and report verifier of the learning benchmark over failures between them; the pairing of its conditions.
3. The interleaving of recall in the structured Agent and the workspace simulator, to widen `Scenario` to the remaining programs.
4. A pack as runs of `Runner`: `PackReport`'s artifacts replaced by what `run_condition` returns, through `VerifyRunContract`.
