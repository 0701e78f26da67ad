------------------------- MODULE EvaluationService -------------------------
(***************************************************************************)
(* The evaluation service: the SQLite registry of submissions, cycles,     *)
(* jobs and results (service_db.py), the operations of                     *)
(* evaluation_service.py on it, and the leaderboard read from it           *)
(* (leaderboard.py).                                                       *)
(*                                                                         *)
(* Every ServiceDB method is one transaction, so it is one step here; an   *)
(* operation of EvaluationService that calls several is several steps, and *)
(* the steps of workers, enqueue calls (threads of the HTTP server or CLI  *)
(* processes) and operators interleave.  Files are not transactional: they *)
(* are read and written between the transactions.                          *)
(*                                                                         *)
(* A digest is modelled as the content it is computed from (no two         *)
(* contents share one), a signature as the fact that nothing but the       *)
(* service writes a manifest or an attestation.  A submission's spec path, *)
(* and a cycle's store and profile paths, are named by the submission and  *)
(* the cycle: registering under another path is an edit followed by a      *)
(* registration.                                                           *)
(***************************************************************************)
EXTENDS Integers, FiniteSets

CONSTANTS
    Submissions,   \* submission ids
    Cycles,        \* evaluation cycle ids
    Jobs,          \* job ids enqueue may draw
    Workers,       \* worker_once loops: CLI processes or HTTP threads
    Clients,       \* callers of enqueue
    Operators,     \* callers of activate_cycle
    Backends,      \* execution backends a job may be addressed to
    ProfileIds,    \* Profile ids
    FamilyOf,      \* result_family: the family a Profile id belongs to
    ProfileDocs,   \* contents a Profile file may have
    Revs,          \* contents any other bound file may have
    Tracks,        \* evaluation tracks
    Outcomes,      \* what one evaluation may report
    Rankable,      \* official, complete, score-verified outcomes
    InitialDisk,   \* the files before anything happens
    NoRow,         \* SQL NULL / a missing row / a missing file
    Faults,        \* which environment faults this instance has
    MaxEdits, MaxCrashes, MaxRecoveries, MaxActivations   \* bounds

\* The backend the reference worker can execute, and the track the hosted
\* service refuses.
LocalBackend == "local_namespace"
MemoryTrack == "memory_system"

\* "io_error": a database or file operation of a worker fails;  "crash": a
\* worker dies;  "recover": recover-running is called while no worker runs;
\* "recover_live": it is called at any time;  "edit": bound files change
\* between evaluations;  "edit_live": they change during one;
\* "concurrent_admin": a cycle is registered while one is being activated.
AllFaults == {"io_error", "crash", "recover", "recover_live", "edit", "edit_live",
              "concurrent_admin"}

ASSUME BackendAssumption == LocalBackend \in Backends
ASSUME ProfileAssumption ==
    /\ \A d \in ProfileDocs : d.id \in ProfileIds /\ d.track \in Tracks
    /\ MemoryTrack \in Tracks
    /\ FamilyOf \in [ProfileIds -> {"core", "transfer_diagnostic", "reality"}]
ASSUME OutcomeAssumption == Rankable \subseteq Outcomes
ASSUME BoundAssumption ==
    /\ Faults \subseteq AllFaults
    /\ {MaxEdits, MaxCrashes, MaxRecoveries, MaxActivations} \subseteq Nat

VARIABLES
    disk,        \* the files that registrations and manifests bind
    imported,    \* each worker: the Runner sources its process was started on
    submissions, \* table submissions
    cycles,      \* table cycles
    jobStatus, manifest, createdAt, resultId,   \* table jobs, by column
    results,     \* table results, keyed by its UNIQUE job_id
    reports,     \* artifact_root/<job>/: the two report files
    attFile,     \* artifact_root/<job>/result-attestation.json
    pc, claimed, scratch,   \* each worker: program counter, job, locals
    call,        \* each client: its enqueue call
    activating,  \* each operator: the cycle it activates and the Profile it read
    clock,       \* the last timestamp drawn for each table
    attempts,    \* evaluations completed so far: names reports and results
    spent        \* how many edits, crashes and recoveries have happened

jobVars == <<jobStatus, manifest, createdAt, resultId>>
fileVars == <<reports, attFile>>
workerVars == <<pc, claimed, scratch>>
registryVars == <<submissions, cycles>>
callVars == <<call, activating>>
vars == <<disk, imported, registryVars, jobVars, results, fileVars, workerVars,
          callVars, clock, attempts, spent>>

----------------------------------------------------------------------------
(* Records *)

\* The contents bound by a job of submission s in cycle c, as they are now.
Contents(s, c) ==
    [spec            |-> disk.spec[s],
     store           |-> disk.store[c],
     profile         |-> disk.profile[c],
     scenario_schema |-> disk.scenario_schema,
     report_schema   |-> disk.report_schema,
     runner          |-> disk.runner]

ContentsType ==
    [spec: Revs, store: Revs, profile: ProfileDocs,
     scenario_schema: Revs, report_schema: Revs, runner: Revs]

DiskType ==
    [spec: [Submissions -> Revs], store: [Cycles -> Revs],
     profile: [Cycles -> ProfileDocs],
     scenario_schema: Revs, report_schema: Revs, runner: Revs]

SubmissionRow == [track: Tracks, spec_digest: Revs]

CycleRow == [profile_id: ProfileIds, store_digest: Revs,
             profile_digest: ProfileDocs,
             status: {"registered", "active", "retired"}, activated_at: Nat]

Manifest == [submission: Submissions, cycle: Cycles, profile_id: ProfileIds,
             result_family: {"core", "transfer_diagnostic", "reality"},
             backend: Backends, digest: ContentsType]

Report == [attempt: Nat, outcome: Outcomes, profile: ProfileDocs]

ResultRow == [id: Nat, submission: Submissions, cycle: Cycles,
              profile_id: ProfileIds, score: Outcomes,
              internal_digest: Report, public_digest: Report,
              created_at: Nat, inputs: ContentsType]

\* A worker's locals: the track and contents it read, the report it computed,
\* and the digests it read back from the report files.
Scratch == [track: Tracks \cup {NoRow}, inputs: ContentsType \cup {NoRow},
            report: Report \cup {NoRow},
            internal: Report \cup {NoRow}, public: Report \cup {NoRow}]

EmptyScratch == [track |-> NoRow, inputs |-> NoRow, report |-> NoRow,
                 internal |-> NoRow, public |-> NoRow]

\* An enqueue call: which rows it has read so far.
Call == [stage: {"idle", "has_submission", "has_cycle"},
         submission: Submissions \cup {NoRow},
         subRow: SubmissionRow \cup {NoRow},
         cycle: Cycles \cup {NoRow},
         cycleRow: CycleRow \cup {NoRow}]

NoCall == [stage |-> "idle", submission |-> NoRow, subRow |-> NoRow,
           cycle |-> NoRow, cycleRow |-> NoRow]

Activation == [cycle: Cycles, profile_id: ProfileIds]

ASSUME NoRowAssumption ==
    /\ NoRow \notin Jobs \cup Cycles \cup Submissions \cup Tracks
    /\ NoRow \notin SubmissionRow \cup CycleRow \cup Manifest
    /\ NoRow \notin Report \cup ResultRow \cup ContentsType \cup Activation
ASSUME InitialDiskAssumption == InitialDisk \in DiskType

Stages == {"idle", "claimed", "verified", "loaded", "executed",
           "wrote_internal", "wrote_public", "attested", "inserted", "raised"}

Init ==
    /\ disk = InitialDisk
    /\ imported = [w \in Workers |-> disk.runner]
    /\ submissions = [s \in Submissions |-> NoRow]
    /\ cycles = [c \in Cycles |-> NoRow]
    /\ jobStatus = [j \in Jobs |-> "none"]
    /\ manifest = [j \in Jobs |-> NoRow]
    /\ createdAt = [j \in Jobs |-> 0]
    /\ resultId = [j \in Jobs |-> 0]
    /\ results = [j \in Jobs |-> NoRow]
    /\ reports = [j \in Jobs |-> [internal |-> NoRow, public |-> NoRow]]
    /\ attFile = [j \in Jobs |-> 0]
    /\ pc = [w \in Workers |-> "idle"]
    /\ claimed = [w \in Workers |-> NoRow]
    /\ scratch = [w \in Workers |-> EmptyScratch]
    /\ call = [e \in Clients |-> NoCall]
    /\ activating = [o \in Operators |-> NoRow]
    /\ clock = [jobs |-> 0, cycles |-> 0, results |-> 0]
    /\ attempts = 0
    /\ spent = [edits |-> 0, crashes |-> 0, recoveries |-> 0]

----------------------------------------------------------------------------
(* Registration: operators, from the CLI or an HTTP thread *)

\* register_submission: the digest of the spec as it is on disk, upserted.
RegisterSubmission(s, t) ==
    /\ submissions' = [submissions EXCEPT
                          ![s] = [track |-> t, spec_digest |-> disk.spec[s]]]
    /\ UNCHANGED <<disk, imported, cycles, jobVars, results, fileVars,
                   workerVars, callVars, clock, attempts, spent>>

\* register_cycle: the upsert binds the store and Profile as they are on disk
\* and puts an existing row, an active one too, back to 'registered' with no
\* activation time.  With --activate, an activation follows in transactions
\* of its own.
RegisterCycle(c) ==
    /\ "concurrent_admin" \in Faults \/ \A o \in Operators : activating[o] = NoRow
    /\ cycles' = [cycles EXCEPT
                     ![c] = [profile_id |-> disk.profile[c].id,
                             store_digest |-> disk.store[c],
                             profile_digest |-> disk.profile[c],
                             status |-> "registered", activated_at |-> 0]]
    /\ UNCHANGED <<disk, imported, submissions, jobVars, results, fileVars,
                   workerVars, callVars, clock, attempts, spent>>

\* activate_cycle reads the Profile id of the row outside a transaction (the
\* driver begins one at the first UPDATE) ...
ReadCycleToActivate(o, c) ==
    /\ activating[o] = NoRow
    /\ cycles[c] # NoRow
    /\ clock.cycles < MaxActivations
    /\ activating' = [activating EXCEPT ![o] =
                         [cycle |-> c, profile_id |-> cycles[c].profile_id]]
    /\ UNCHANGED <<disk, imported, registryVars, jobVars, results, fileVars,
                   workerVars, call, clock, attempts, spent>>

Activated(row) == [row EXCEPT !.status = "active", !.activated_at = clock.cycles + 1]

Retired(row, profile_id) ==
    IF row # NoRow /\ row.profile_id = profile_id /\ row.status = "active"
    THEN [row EXCEPT !.status = "retired"] ELSE row

\* Mutant: the previous cycle of the Profile is not retired.
ActivateCycleWithoutRetiring(o) ==
    /\ activating[o] # NoRow
    /\ cycles' = [cycles EXCEPT ![activating[o].cycle] = Activated(@)]
    /\ clock' = [clock EXCEPT !.cycles = @ + 1]
    /\ activating' = [activating EXCEPT ![o] = NoRow]
    /\ UNCHANGED <<disk, imported, submissions, jobVars, results, fileVars,
                   workerVars, call, attempts, spent>>

\* ... then retires the active cycles of that Profile and activates the row, in
\* one transaction.
ActivateCycle(o) ==
    /\ activating[o] # NoRow
    /\ cycles' = [d \in Cycles |->
                     IF d = activating[o].cycle THEN Activated(cycles[d])
                     ELSE Retired(cycles[d], activating[o].profile_id)]
    /\ clock' = [clock EXCEPT !.cycles = @ + 1]
    /\ activating' = [activating EXCEPT ![o] = NoRow]
    /\ UNCHANGED <<disk, imported, submissions, jobVars, results, fileVars,
                   workerVars, call, attempts, spent>>

ActiveCycles == {c \in Cycles : cycles[c] # NoRow /\ cycles[c].status = "active"}

\* active_cycle() without a Profile id: the latest activation of any Profile.
IsLatestActive(c) ==
    /\ c \in ActiveCycles
    /\ \A d \in ActiveCycles : cycles[d].activated_at <= cycles[c].activated_at

----------------------------------------------------------------------------
(* enqueue: two reads and one insert, three transactions *)

EnqueueReadSubmission(e, s) ==
    /\ call[e].stage = "idle"
    /\ submissions[s] # NoRow
    /\ call' = [call EXCEPT ![e] = [NoCall EXCEPT
                   !.stage = "has_submission", !.submission = s,
                   !.subRow = submissions[s]]]
    /\ UNCHANGED <<disk, imported, registryVars, jobVars, results, fileVars,
                   workerVars, activating, clock, attempts, spent>>

\* The cycle is the one named in the call, whatever its status, or the latest
\* active one; its Profile file decides whether the track may be hosted.
MayHost(track, c) == track = disk.profile[c].track /\ track # MemoryTrack

EnqueueReadCycle(e, c) ==
    /\ call[e].stage = "has_submission"
    /\ cycles[c] # NoRow
    /\ MayHost(call[e].subRow.track, c)
    /\ call' = [call EXCEPT ![e].stage = "has_cycle", ![e].cycle = c,
                            ![e].cycleRow = cycles[c]]
    /\ UNCHANGED <<disk, imported, registryVars, jobVars, results, fileVars,
                   workerVars, activating, clock, attempts, spent>>

EnqueueRefuse(e, c) ==
    /\ call[e].stage = "has_submission"
    /\ cycles[c] = NoRow \/ ~MayHost(call[e].subRow.track, c)
    /\ call' = [call EXCEPT ![e] = NoCall]
    /\ UNCHANGED <<disk, imported, registryVars, jobVars, results, fileVars,
                   workerVars, activating, clock, attempts, spent>>

EnqueueInCycle(e) ==
    \/ \E c \in Cycles : EnqueueReadCycle(e, c) \/ EnqueueRefuse(e, c)
    \/ \E c \in Cycles : IsLatestActive(c) /\ EnqueueReadCycle(e, c)

\* _job_manifest: the digests recorded in the rows that were read, and those
\* of the schemas and the Runner's sources computed now.
JobManifest(subRow, cycleRow, s, c, b) ==
    [submission |-> s, cycle |-> c, profile_id |-> cycleRow.profile_id,
     result_family |-> FamilyOf[cycleRow.profile_id], backend |-> b,
     digest |-> [spec |-> subRow.spec_digest,
                 store |-> cycleRow.store_digest,
                 profile |-> cycleRow.profile_digest,
                 scenario_schema |-> disk.scenario_schema,
                 report_schema |-> disk.report_schema,
                 runner |-> disk.runner]]

\* create_job under a fresh id, status 'queued'.
CreateJob(e, j, b) ==
    /\ call[e].stage = "has_cycle"
    /\ jobStatus[j] = "none"
    /\ jobStatus' = [jobStatus EXCEPT ![j] = "queued"]
    /\ manifest' = [manifest EXCEPT ![j] =
                       JobManifest(call[e].subRow, call[e].cycleRow,
                                   call[e].submission, call[e].cycle, b)]
    /\ createdAt' = [createdAt EXCEPT ![j] = clock.jobs + 1]
    /\ clock' = [clock EXCEPT !.jobs = @ + 1]
    /\ call' = [call EXCEPT ![e] = NoCall]
    /\ UNCHANGED <<disk, imported, registryVars, resultId, results, fileVars,
                   workerVars, activating, attempts, spent>>

----------------------------------------------------------------------------
(* worker_once *)

GoTo(w, stage) == pc' = [pc EXCEPT ![w] = stage]

\* Mutant: a running job can be claimed as well.
IsNextQueuedOrRunning(j, b) ==
    /\ jobStatus[j] \in {"queued", "running"}
    /\ manifest[j].backend = b

\* claim_next_job, under BEGIN IMMEDIATE: the oldest queued job of the backend.
IsNextFor(j, b) ==
    /\ jobStatus[j] = "queued"
    /\ manifest[j].backend = b
    /\ \A k \in Jobs : jobStatus[k] = "queued" /\ manifest[k].backend = b
                          => createdAt[j] <= createdAt[k]

ClaimJob(w, j, b) ==
    /\ pc[w] = "idle"
    /\ IsNextFor(j, b)
    /\ jobStatus' = [jobStatus EXCEPT ![j] = "running"]
    /\ claimed' = [claimed EXCEPT ![w] = j]
    /\ scratch' = [scratch EXCEPT ![w] = EmptyScratch]
    /\ GoTo(w, "claimed")
    /\ UNCHANGED <<disk, imported, registryVars, manifest, createdAt, resultId,
                   results, fileVars, callVars, clock, attempts, spent>>

\* Mutant: the Profile is not checked again.
DigestsMatchButProfile(j) ==
    LET now == Contents(manifest[j].submission, manifest[j].cycle)
    IN  \A k \in {"spec", "store", "runner"} : now[k] = manifest[j].digest[k]

\* The checks before the evaluation: the backend, then the digests of the
\* spec, the store, the Profile and the Runner, recomputed from the files,
\* against the signed manifest.  The submission and cycle rows are read here.
DigestsMatch(j) ==
    LET now == Contents(manifest[j].submission, manifest[j].cycle)
    IN  \A k \in {"spec", "store", "profile", "runner"} :
           now[k] = manifest[j].digest[k]

Verified(j) == manifest[j].backend = LocalBackend /\ DigestsMatch(j)

VerifyManifest(w) ==
    /\ pc[w] = "claimed"
    /\ Verified(claimed[w])
    /\ scratch' = [scratch EXCEPT ![w].track =
                      submissions[manifest[claimed[w]].submission].track]
    /\ GoTo(w, "verified")
    /\ UNCHANGED <<disk, imported, registryVars, jobVars, results, fileVars,
                   claimed, callVars, clock, attempts, spent>>

\* The schemas, Profile, store and spec are then loaded again, for use; the
\* Runner is the one this process has imported, not the one on disk.
Loaded(w) ==
    LET m == manifest[claimed[w]]
    IN  [Contents(m.submission, m.cycle) EXCEPT !.runner = imported[w]]

LoadInputs(w) ==
    /\ pc[w] = "verified"
    /\ scratch[w].track = Loaded(w).profile.track
    /\ scratch' = [scratch EXCEPT ![w].inputs = Loaded(w)]
    /\ GoTo(w, "loaded")
    /\ UNCHANGED <<disk, imported, registryVars, jobVars, results, fileVars,
                   claimed, callVars, clock, attempts, spent>>

\* run_materialized_pack, redaction and score verification, with the Agent
\* deciding the outcome.
Execute(w, o) ==
    /\ pc[w] = "loaded"
    /\ attempts' = attempts + 1
    /\ scratch' = [scratch EXCEPT ![w].report =
                      [attempt |-> attempts + 1, outcome |-> o,
                       profile |-> scratch[w].inputs.profile]]
    /\ GoTo(w, "executed")
    /\ UNCHANGED <<disk, imported, registryVars, jobVars, results, fileVars,
                   claimed, callVars, clock, spent>>

\* The reports go to artifact_root/<job id>, the same directory whichever
\* worker or attempt writes them.
WriteReport(w, from, file, to) ==
    /\ pc[w] = from
    /\ reports' = [reports EXCEPT ![claimed[w]][file] = scratch[w].report]
    /\ GoTo(w, to)
    /\ UNCHANGED <<disk, imported, registryVars, jobVars, results, attFile,
                   claimed, scratch, callVars, clock, attempts, spent>>

WriteInternal(w) == WriteReport(w, "executed", "internal", "wrote_internal")
WritePublic(w) == WriteReport(w, "wrote_internal", "public", "wrote_public")

\* The digests are computed from the files, not from the report in memory;
\* the attestation that binds them is signed and written next to them.
Attest(w) ==
    /\ pc[w] = "wrote_public"
    /\ LET j == claimed[w]
       IN  /\ scratch' = [scratch EXCEPT ![w].internal = reports[j].internal,
                                         ![w].public = reports[j].public]
           /\ attFile' = [attFile EXCEPT ![j] = scratch[w].report.attempt]
    /\ GoTo(w, "attested")
    /\ UNCHANGED <<disk, imported, registryVars, jobVars, results, reports,
                   claimed, callVars, clock, attempts, spent>>

ResultOf(w) ==
    LET j == claimed[w]
    IN  [id |-> scratch[w].report.attempt,
         submission |-> manifest[j].submission, cycle |-> manifest[j].cycle,
         profile_id |-> scratch[w].report.profile.id,
         score |-> scratch[w].report.outcome,
         internal_digest |-> scratch[w].internal,
         public_digest |-> scratch[w].public,
         created_at |-> clock.results + 1, inputs |-> scratch[w].inputs]

\* Mutant: INSERT OR REPLACE instead of the UNIQUE error.
InsertOrReplaceResult(w) ==
    /\ pc[w] = "attested"
    /\ results' = [results EXCEPT ![claimed[w]] = ResultOf(w)]
    /\ clock' = [clock EXCEPT !.results = @ + 1]
    /\ GoTo(w, "inserted")
    /\ UNCHANGED <<disk, imported, registryVars, jobVars, fileVars, claimed,
                   scratch, callVars, attempts, spent>>

\* insert_result: results.job_id is UNIQUE, so a second row for the job raises.
InsertResult(w) ==
    /\ pc[w] = "attested"
    /\ results[claimed[w]] = NoRow
    /\ results' = [results EXCEPT ![claimed[w]] = ResultOf(w)]
    /\ clock' = [clock EXCEPT !.results = @ + 1]
    /\ GoTo(w, "inserted")
    /\ UNCHANGED <<disk, imported, registryVars, jobVars, fileVars, claimed,
                   scratch, callVars, attempts, spent>>

\* The statements of the try block that raise by themselves: a manifest the
\* files no longer match or a backend this worker lacks, a track that changed,
\* an evaluation that fails, a result that is there already.
Raises(w) ==
    \/ pc[w] = "claimed" /\ ~Verified(claimed[w])
    \/ pc[w] = "verified" /\ scratch[w].track # Loaded(w).profile.track
    \/ pc[w] = "loaded"
    \/ pc[w] = "attested" /\ results[claimed[w]] # NoRow

\* And those the environment makes raise: a write, the insert, and finish_job
\* itself after the result was inserted.
IoRaises(w) ==
    /\ "io_error" \in Faults
    /\ pc[w] \in {"executed", "wrote_internal", "wrote_public", "attested", "inserted"}

Raise(w) ==
    /\ Raises(w) \/ IoRaises(w)
    /\ GoTo(w, "raised")
    /\ UNCHANGED <<disk, imported, registryVars, jobVars, results, fileVars,
                   claimed, scratch, callVars, clock, attempts, spent>>

\* finish_job updates the row whatever its status; the worker then returns.
FinishJob(w, status, rid) ==
    /\ jobStatus' = [jobStatus EXCEPT ![claimed[w]] = status]
    /\ resultId' = [resultId EXCEPT ![claimed[w]] = rid]
    /\ claimed' = [claimed EXCEPT ![w] = NoRow]
    /\ scratch' = [scratch EXCEPT ![w] = EmptyScratch]
    /\ GoTo(w, "idle")
    /\ UNCHANGED <<disk, imported, registryVars, manifest, createdAt, results,
                   fileVars, callVars, clock, attempts, spent>>

\* Mutants: the job id stored as result id; finishing before the insert; a
\* failure that leaves the status as it was.
FinishSucceededWithJobId(w) ==
    /\ pc[w] = "inserted"
    /\ FinishJob(w, "succeeded", claimed[w])
FinishBeforeInsert(w) ==
    /\ pc[w] = "attested"
    /\ FinishJob(w, "succeeded", scratch[w].report.attempt)
FinishFailedAsRunning(w) ==
    /\ pc[w] = "raised"
    /\ FinishJob(w, "running", 0)
FinishSucceeded(w) ==
    /\ pc[w] = "inserted"
    /\ FinishJob(w, "succeeded", scratch[w].report.attempt)

FinishFailed(w) ==
    /\ pc[w] = "raised"
    /\ FinishJob(w, "failed", 0)

----------------------------------------------------------------------------
(* The environment *)

\* The process dies, or finish_job(error) itself raises: the worker is gone
\* and its job stays 'running'.  The server that handled the error is still the old
\* process; a dead one comes back with a Restart.
Crash(w) ==
    /\ "crash" \in Faults
    /\ spent.crashes < MaxCrashes
    /\ pc[w] # "idle"
    /\ spent' = [spent EXCEPT !.crashes = @ + 1]
    /\ claimed' = [claimed EXCEPT ![w] = NoRow]
    /\ scratch' = [scratch EXCEPT ![w] = EmptyScratch]
    /\ GoTo(w, "idle")
    /\ UNCHANGED <<disk, imported, registryVars, jobVars, results, fileVars,
                   callVars, clock, attempts>>

\* Mutant: failed jobs are queued again too.
RequeueUnfinishedJobs ==
    /\ "recover" \in Faults /\ \A w \in Workers : pc[w] = "idle"
    /\ spent.recoveries < MaxRecoveries
    /\ \E j \in Jobs : jobStatus[j] = "running"
    /\ spent' = [spent EXCEPT !.recoveries = @ + 1]
    /\ jobStatus' = [j \in Jobs |->
                        IF jobStatus[j] \in {"running", "failed"}
                        THEN "queued" ELSE jobStatus[j]]
    /\ UNCHANGED <<disk, imported, registryVars, manifest, createdAt, resultId,
                   results, fileVars, workerVars, callVars, clock, attempts>>

\* requeue_running_jobs: every running job is queued again and keeps its
\* created_at.  Its comment: "a service restart may call this before starting
\* workers"; nothing in the code enforces that no worker runs.
RequeueRunningJobs ==
    /\ \/ "recover_live" \in Faults
       \/ "recover" \in Faults /\ \A w \in Workers : pc[w] = "idle"
    /\ spent.recoveries < MaxRecoveries
    /\ \E j \in Jobs : jobStatus[j] = "running"
    /\ spent' = [spent EXCEPT !.recoveries = @ + 1]
    /\ jobStatus' = [j \in Jobs |->
                        IF jobStatus[j] = "running" THEN "queued" ELSE jobStatus[j]]
    /\ UNCHANGED <<disk, imported, registryVars, manifest, createdAt, resultId,
                   results, fileVars, workerVars, callVars, clock, attempts>>

\* Someone edits a bound file.  "edit" leaves alone an evaluation that is
\* between checking the digests and loading the files; "edit_live" does not.
MayEdit ==
    \/ "edit_live" \in Faults
    \/ "edit" \in Faults /\ \A w \in Workers : pc[w] # "verified"

EditFile ==
    /\ MayEdit
    /\ spent.edits < MaxEdits
    /\ spent' = [spent EXCEPT !.edits = @ + 1]
    /\ \/ \E s \in Submissions, r \in Revs : disk' = [disk EXCEPT !.spec[s] = r]
       \/ \E c \in Cycles, r \in Revs : disk' = [disk EXCEPT !.store[c] = r]
       \/ \E c \in Cycles, d \in ProfileDocs : disk' = [disk EXCEPT !.profile[c] = d]
       \/ \E r \in Revs : disk' = [disk EXCEPT !.scenario_schema = r]
       \/ \E r \in Revs : disk' = [disk EXCEPT !.report_schema = r]
       \/ \E r \in Revs : disk' = [disk EXCEPT !.runner = r]
    /\ UNCHANGED <<imported, registryVars, jobVars, results, fileVars, workerVars,
                   callVars, clock, attempts>>

\* A worker process starts, and imports the Runner's sources as they are then: a
\* CLI call of worker-once, or the HTTP server coming up again.  Until then the
\* code that evaluates is the one imported, whatever is on disk.
Restart(w) ==
    /\ pc[w] = "idle"
    /\ imported[w] # disk.runner
    /\ imported' = [imported EXCEPT ![w] = disk.runner]
    /\ UNCHANGED <<disk, registryVars, jobVars, results, fileVars, workerVars,
                   callVars, clock, attempts, spent>>

----------------------------------------------------------------------------

Register ==
    \/ \E s \in Submissions, t \in Tracks : RegisterSubmission(s, t)
    \/ \E c \in Cycles : RegisterCycle(c)
    \/ \E o \in Operators, c \in Cycles : ReadCycleToActivate(o, c)
    \/ \E o \in Operators : ActivateCycle(o)

Enqueue(e) ==
    \/ \E s \in Submissions : EnqueueReadSubmission(e, s)
    \/ EnqueueInCycle(e)
    \/ \E j \in Jobs, b \in Backends : CreateJob(e, j, b)

Claim(w, b) == \E j \in Jobs : ClaimJob(w, j, b)

\* What worker_once does after the claim.
Proceed(w) ==
    \/ VerifyManifest(w) \/ LoadInputs(w)
    \/ \E o \in Outcomes : Execute(w, o)
    \/ WriteInternal(w) \/ WritePublic(w) \/ Attest(w) \/ InsertResult(w)
    \/ FinishSucceeded(w) \/ FinishFailed(w) \/ Raise(w)

Next ==
    \/ Register
    \/ \E e \in Clients : Enqueue(e)
    \/ \E w \in Workers : \/ \E b \in Backends : Claim(w, b)
                          \/ Proceed(w)
                          \/ Crash(w) \/ Restart(w)
    \/ RequeueRunningJobs
    \/ EditFile

Spec == Init /\ [][Next]_vars

\* Operators keep calling worker-once for every backend they serve, a call
\* that has claimed a job runs on, and recover-running is called when jobs are
\* left running and no worker is.
FairSpec ==
    /\ Spec
    /\ \A w \in Workers : WF_vars(Proceed(w))
    /\ \A w \in Workers, b \in Backends : WF_vars(Claim(w, b))
    /\ WF_vars(RequeueRunningJobs)

----------------------------------------------------------------------------
(* What is read from the registry *)

VerifyResultAttestation(j) ==
    /\ results[j] # NoRow
    /\ reports[j].public = results[j].public_digest
    /\ reports[j].internal = results[j].internal_digest

\* latest_results_for_cycle: each submission's latest result in the cycle.
LatestResults(c) ==
    {j \in Jobs :
        /\ results[j] # NoRow
        /\ results[j].cycle = c
        /\ \A k \in Jobs :
              /\ results[k] # NoRow
              /\ results[k].cycle = c
              /\ results[k].submission = results[j].submission
              => results[k].created_at <= results[j].created_at}

\* The rows leaderboard() ranks, by the report file and the Profile file as
\* they are now; the entry shows the row's score.
Ranked(c) ==
    {j \in LatestResults(c) :
        LET report == reports[j].public
            profile == disk.profile[c]
        IN  /\ report.outcome \in Rankable
            /\ submissions[results[j].submission].track = profile.track
            /\ report.profile.id = profile.id
            /\ report.profile.version = profile.version}

----------------------------------------------------------------------------
(* Properties *)

TypeOK ==
    /\ disk \in DiskType
    /\ imported \in [Workers -> Revs]
    /\ submissions \in [Submissions -> SubmissionRow \cup {NoRow}]
    /\ cycles \in [Cycles -> CycleRow \cup {NoRow}]
    /\ jobStatus \in [Jobs -> {"none", "queued", "running", "succeeded", "failed"}]
    /\ manifest \in [Jobs -> Manifest \cup {NoRow}]
    /\ createdAt \in [Jobs -> Nat]
    /\ resultId \in [Jobs -> Nat]
    /\ results \in [Jobs -> ResultRow \cup {NoRow}]
    /\ reports \in [Jobs -> [internal: Report \cup {NoRow}, public: Report \cup {NoRow}]]
    /\ attFile \in [Jobs -> Nat]
    /\ pc \in [Workers -> Stages]
    /\ claimed \in [Workers -> Jobs \cup {NoRow}]
    /\ scratch \in [Workers -> Scratch]
    /\ call \in [Clients -> Call]
    /\ activating \in [Operators -> Activation \cup {NoRow}]
    /\ clock \in [jobs: Nat, cycles: Nat, results: Nat]
    /\ attempts \in Nat
    /\ spent \in [edits: Nat, crashes: Nat, recoveries: Nat]

\* docs: "Activating a new cycle retires the previous active cycle for the same
\* Profile."  Each Profile has at most one active cycle, although registering,
\* activating and re-registering under another Profile id come in any order;
\* holds while no cycle is registered between the two steps of an activation.
OneActiveCyclePerProfile ==
    \A c, d \in ActiveCycles : cycles[c].profile_id = cycles[d].profile_id => c = d

\* A job that is recorded as succeeded names the result that is stored for it,
\* whoever of several workers, attempts and recoveries wrote either.
SucceededNamesItsResult ==
    \A j \in Jobs : jobStatus[j] = "succeeded" =>
        results[j] # NoRow /\ results[j].id = resultId[j]

\* No job is being evaluated by two workers: holds while recovery is called
\* only when no worker runs.
ClaimIsExclusive ==
    \A v, w \in Workers : claimed[v] = claimed[w] /\ claimed[v] # NoRow => v = w

\* A finished job stays as it finished, and keeps its result.
FinishedIsFinal ==
    [][\A j \in Jobs : jobStatus[j] \in {"succeeded", "failed"} =>
          jobStatus'[j] = jobStatus[j] /\ resultId'[j] = resultId[j]]_vars

\* Without recovery, the report files and the attestation file of a job with a
\* stored result are the ones its result row was signed for.
StoredResultVerifies ==
    \A j \in Jobs : results[j] # NoRow =>
        VerifyResultAttestation(j) /\ attFile[j] = results[j].id

\* A stored result was computed from the spec, store and Profile that the job's
\* manifest was signed for, whatever was edited, registered again or activated
\* between enqueue and evaluation.  Not the Runner: the digest compared is that
\* of the sources on disk, the code that runs was imported when the process
\* started.
ResultComesFromTheSignedJob ==
    \A j \in Jobs : results[j] # NoRow =>
        \A k \in {"spec", "store", "profile"} :
            results[j].inputs[k] = manifest[j].digest[k]

\* docs: "The worker verifies the signature and every bound artifact digest
\* before hidden evaluation begins."  (The same, over every bound artifact: the
\* schemas are bound and not compared, the Runner is compared on disk only.)
EveryBoundArtifactIsVerified ==
    \A j \in Jobs : results[j] # NoRow =>
        results[j].inputs = manifest[j].digest

\* docs: the leaderboard retains "only verified [...] results" and ranks by
\* score: the score an entry shows is the one in the report that was verified.
RankedScoreIsVerified ==
    \A c \in Cycles : \A j \in Ranked(c) :
        results[j].score = reports[j].public.outcome

\* The job queue keeps the promise of JobLedger, a job being published when a
\* result row is stored for it.
Ledger == INSTANCE JobLedger
            WITH status <- jobStatus,
                 published <- {j \in Jobs : results[j] # NoRow}
ImplementsLedger == Ledger!Spec

\* Every queued job is eventually finished, after any bounded number of
\* crashes.
QueuedJobsFinish ==
    \A j \in Jobs :
        jobStatus[j] = "queued" ~> jobStatus[j] \in {"succeeded", "failed"}

============================================================================
