---------------------- MODULE EvaluationServiceProofs ----------------------
(***************************************************************************)
(* Theorems about EvaluationService, for any number of submissions,        *)
(* cycles, jobs, workers and clients, any faults and any bounds.           *)
(***************************************************************************)
EXTENDS EvaluationService, TLAPS

----------------------------------------------------------------------------
(* Type correctness.  TypeOK is not inductive by itself: that a result row  *)
(* is built from rows and reports that exist rests on what a worker and an  *)
(* enqueue call hold at each stage.                                         *)

\* The stages at which a worker has loaded the files, holds a report, has
\* written the internal and the public file, and has read the digests back.
HasInputs == {"loaded", "executed", "wrote_internal", "wrote_public", "attested", "inserted"}
HasReport == HasInputs \ {"loaded"}
HasInternal == HasReport \ {"executed"}
HasPublic == HasInternal \ {"wrote_internal"}
HasDigests == HasPublic \ {"wrote_public"}

\* A worker past idle holds a job that exists, and the locals that its stage
\* has computed.
WorkerOK ==
    \A w \in Workers :
        /\ pc[w] # "idle" => claimed[w] \in Jobs /\ manifest[claimed[w]] # NoRow
        /\ pc[w] \in HasInputs => scratch[w].inputs # NoRow
        /\ pc[w] \in HasReport => scratch[w].report # NoRow
        /\ pc[w] \in HasInternal => reports[claimed[w]].internal # NoRow
        /\ pc[w] \in HasPublic => reports[claimed[w]].public # NoRow
        /\ pc[w] \in HasDigests => scratch[w].internal # NoRow /\ scratch[w].public # NoRow

\* An enqueue call holds the rows its stage has read.
CallOK ==
    \A e \in Clients :
        /\ call[e].stage # "idle" =>
              /\ call[e].submission # NoRow /\ call[e].subRow # NoRow
              /\ submissions[call[e].submission] # NoRow
        /\ call[e].stage = "has_cycle" => call[e].cycle # NoRow /\ call[e].cycleRow # NoRow

\* A job exists exactly when it has a manifest, whose submission is registered.
JobOK ==
    \A j \in Jobs :
        /\ jobStatus[j] # "none" <=> manifest[j] # NoRow
        /\ manifest[j] # NoRow => submissions[manifest[j].submission] # NoRow

\* A cycle being activated is registered.
CycleOK ==
    \A o \in Operators : activating[o] # NoRow => cycles[activating[o].cycle] # NoRow

TypeInv == TypeOK /\ WorkerOK /\ CallOK /\ JobOK /\ CycleOK

\* The empty registry has every type and nothing half built.
LEMMA InitTypeInv == Init => TypeInv
  BY InitialDiskAssumption, NoRowAssumption
  DEF Init, TypeInv, TypeOK, WorkerOK, CallOK, JobOK, CycleOK, HasInputs,
      HasReport, HasInternal, HasPublic, HasDigests, Scratch, EmptyScratch, Call, NoCall,
      Stages, DiskType

\* The records that a step updates field by field stay in their types.
LEMMA ClockTick ==
  ASSUME NEW k \in [jobs: Nat, cycles: Nat, results: Nat]
  PROVE  /\ [k EXCEPT !.jobs = @ + 1] \in [jobs: Nat, cycles: Nat, results: Nat]
         /\ [k EXCEPT !.cycles = @ + 1] \in [jobs: Nat, cycles: Nat, results: Nat]
         /\ [k EXCEPT !.results = @ + 1] \in [jobs: Nat, cycles: Nat, results: Nat]
         /\ k.jobs + 1 \in Nat /\ k.cycles + 1 \in Nat /\ k.results + 1 \in Nat
  OBVIOUS

\* So do the report files of a job when a worker writes one of them.
LEMMA FilesUpdate ==
  ASSUME NEW k \in [internal: Report \cup {NoRow}, public: Report \cup {NoRow}],
         NEW r \in Report
  PROVE  /\ [k EXCEPT !.internal = r]
                \in [internal: Report \cup {NoRow}, public: Report \cup {NoRow}]
         /\ [k EXCEPT !.public = r]
                \in [internal: Report \cup {NoRow}, public: Report \cup {NoRow}]
  OBVIOUS

\* The number of the attempt that a report comes from is a number.
LEMMA ReportAttempt == \A r \in Report : r.attempt \in Nat
  BY DEF Report

\* The locals that a worker starts with and leaves behind.
LEMMA EmptyScratchTyped == EmptyScratch \in Scratch
  BY DEF Scratch, EmptyScratch

\* A worker's locals keep their type when the next stage stores its result.
LEMMA ScratchUpdate ==
  ASSUME NEW k \in Scratch
  PROVE  /\ \A t \in Tracks : [k EXCEPT !.track = t] \in Scratch
         /\ \A i \in ContentsType : [k EXCEPT !.inputs = i] \in Scratch
         /\ \A r \in Report : [k EXCEPT !.report = r] \in Scratch
         /\ \A r, q \in Report : [k EXCEPT !.internal = r, !.public = q] \in Scratch
  BY DEF Scratch

\* An enqueue call keeps its type when it reads its cycle row and when it ends.
LEMMA CallUpdate ==
  ASSUME NEW k \in Call, NEW c \in Cycles, NEW r \in CycleRow
  PROVE  /\ [k EXCEPT !.stage = "has_cycle", !.cycle = c, !.cycleRow = r] \in Call
         /\ NoCall \in Call
  BY DEF Call, NoCall

\* A cycle row keeps its type when activate_cycle activates or retires it.
LEMMA CycleRowUpdate ==
  ASSUME NEW r \in CycleRow
  PROVE  /\ \A n \in Nat : [r EXCEPT !.status = "active", !.activated_at = n] \in CycleRow
         /\ [r EXCEPT !.status = "retired"] \in CycleRow
  BY DEF CycleRow

\* Retiring the cycles of a Profile keeps rows rows, and takes none away.
LEMMA RetiredRow ==
  ASSUME NEW r \in CycleRow \cup {NoRow}, NEW i
  PROVE  /\ Retired(r, i) \in CycleRow \cup {NoRow}
         /\ r # NoRow => Retired(r, i) # NoRow
<1>1. CASE r = NoRow
  BY <1>1 DEF Retired
<1>2. CASE r \in CycleRow
  <2>1. [r EXCEPT !.status = "retired"] \in CycleRow
    BY <1>2, CycleRowUpdate
  <2> QED
    BY <1>2, <2>1, NoRowAssumption DEF Retired
<1> QED
  BY <1>1, <1>2

\* The files keep their type when one of them gets other contents.
LEMMA DiskUpdate ==
  ASSUME NEW k \in DiskType
  PROVE  /\ \A s \in Submissions, r \in Revs : [k EXCEPT !.spec[s] = r] \in DiskType
         /\ \A c \in Cycles, r \in Revs : [k EXCEPT !.store[c] = r] \in DiskType
         /\ \A c \in Cycles, d \in ProfileDocs : [k EXCEPT !.profile[c] = d] \in DiskType
         /\ \A r \in Revs : [k EXCEPT !.scenario_schema = r] \in DiskType
         /\ \A r \in Revs : [k EXCEPT !.report_schema = r] \in DiskType
         /\ \A r \in Revs : [k EXCEPT !.runner = r] \in DiskType
  BY DEF DiskType

\* So they do under every edit.
LEMMA EditedDisk == disk \in DiskType /\ EditFile => disk' \in DiskType
<1> SUFFICES ASSUME disk \in DiskType, EditFile PROVE disk' \in DiskType
  OBVIOUS
<1>1. CASE \E s \in Submissions, r \in Revs : disk' = [disk EXCEPT !.spec[s] = r]
  BY <1>1, DiskUpdate
<1>2. CASE \E c \in Cycles, r \in Revs : disk' = [disk EXCEPT !.store[c] = r]
  BY <1>2, DiskUpdate
<1>3. CASE \E c \in Cycles, d \in ProfileDocs : disk' = [disk EXCEPT !.profile[c] = d]
  BY <1>3, DiskUpdate
<1>4. CASE \E r \in Revs : disk' = [disk EXCEPT !.scenario_schema = r]
  BY <1>4, DiskUpdate
<1>5. CASE \E r \in Revs : disk' = [disk EXCEPT !.report_schema = r]
  BY <1>5, DiskUpdate
<1>6. CASE \E r \in Revs : disk' = [disk EXCEPT !.runner = r]
  BY <1>6, DiskUpdate
<1> QED
  BY <1>1, <1>2, <1>3, <1>4, <1>5, <1>6 DEF EditFile

\* What insert_result stores is a complete row: the worker holds a manifest, a
\* report and the two digests when it gets there.
LEMMA ResultOfIsRow ==
  ASSUME TypeInv, NEW w \in Workers, InsertResult(w)
  PROVE  ResultOf(w) \in ResultRow
<1>0. clock.results + 1 \in Nat
  BY ClockTick DEF TypeInv, TypeOK
<1> USE NoRowAssumption
        DEF TypeInv, TypeOK, WorkerOK, HasInputs, HasReport, HasInternal,
            HasPublic, HasDigests
<1>1. claimed[w] \in Jobs /\ manifest[claimed[w]] \in Manifest
  BY DEF InsertResult
<1>2. /\ scratch[w].report \in Report /\ scratch[w].inputs \in ContentsType
      /\ scratch[w].internal \in Report /\ scratch[w].public \in Report
  BY SMTT(60) DEF InsertResult, Scratch
<1>3. /\ scratch[w].report.profile.id \in ProfileIds
      /\ scratch[w].report.attempt \in Nat
      /\ scratch[w].report.outcome \in Outcomes
  BY <1>2, ProfileAssumption DEF Report
<1>4. /\ manifest[claimed[w]].submission \in Submissions
      /\ manifest[claimed[w]].cycle \in Cycles
  BY <1>1 DEF Manifest
<1> QED
  BY <1>0, <1>2, <1>3, <1>4 DEF ResultOf, ResultRow

\* Every step of the service preserves the strengthened type invariant.
LEMMA StepTypeInv == TypeInv /\ [Next]_vars => TypeInv'
<1> SUFFICES ASSUME TypeInv, [Next]_vars PROVE TypeInv'
  OBVIOUS
<1> USE ProfileAssumption, NoRowAssumption
        DEF TypeInv, TypeOK, WorkerOK, CallOK, JobOK, HasInputs, HasReport,
            HasInternal, HasPublic, HasDigests, Stages, GoTo, registryVars,
            jobVars, fileVars, workerVars, callVars, CycleOK
<1>1. ASSUME NEW s \in Submissions, NEW t \in Tracks, RegisterSubmission(s, t)
      PROVE  TypeInv'
  <2>1. [track |-> t, spec_digest |-> disk.spec[s]] \in SubmissionRow
    BY DEF SubmissionRow, DiskType
  <2> QED
    BY <1>1, <2>1 DEF RegisterSubmission
<1>2. ASSUME NEW c \in Cycles, RegisterCycle(c)
      PROVE  TypeInv'
  <2>1. /\ disk.profile[c] \in ProfileDocs
        /\ disk.store[c] \in Revs
    BY DEF DiskType
  <2>2. [profile_id |-> disk.profile[c].id, store_digest |-> disk.store[c],
         profile_digest |-> disk.profile[c], status |-> "registered",
         activated_at |-> 0] \in CycleRow
    BY <2>1 DEF CycleRow
  <2> QED
    BY <1>2, <2>1, <2>2 DEF RegisterCycle
<1>3. ASSUME NEW o \in Operators, NEW c \in Cycles, ReadCycleToActivate(o, c)
      PROVE  TypeInv'
  <2>1. [cycle |-> c, profile_id |-> cycles[c].profile_id] \in Activation
    BY <1>3 DEF ReadCycleToActivate, Activation, CycleRow
  <2>2. activating' \in [Operators -> Activation \cup {NoRow}]
    BY <1>3, <2>1 DEF ReadCycleToActivate
  <2>3. \A p \in Operators : activating'[p] # NoRow =>
            cycles[activating'[p].cycle] # NoRow
    BY <1>3, SMTT(60) DEF ReadCycleToActivate
  <2> QED
    BY <1>3, <2>1, <2>2, <2>3 DEF ReadCycleToActivate
<1>4. ASSUME NEW o \in Operators, ActivateCycle(o)
      PROVE  TypeInv'
  <2>1. clock' \in [jobs: Nat, cycles: Nat, results: Nat]
    BY <1>4, ClockTick DEF ActivateCycle
  <2>2. activating[o].cycle \in Cycles /\ cycles[activating[o].cycle] \in CycleRow
    BY <1>4 DEF ActivateCycle, Activation
  <2>3. clock.cycles + 1 \in Nat
    BY ClockTick
  <2>4. Activated(cycles[activating[o].cycle]) \in CycleRow
    BY <2>2, <2>3, CycleRowUpdate DEF Activated
  <2>5. ASSUME NEW d \in Cycles
      PROVE  /\ cycles'[d] \in CycleRow \cup {NoRow}
             /\ cycles[d] # NoRow => cycles'[d] # NoRow
    BY <1>4, <2>2, <2>4, RetiredRow DEF ActivateCycle
  <2>6. cycles' \in [Cycles -> CycleRow \cup {NoRow}]
    BY <1>4, <2>5 DEF ActivateCycle
  <2>7. CycleOK'
    BY <1>4, <2>5 DEF ActivateCycle, Activation
  <2>8. TypeOK'
    BY <1>4, <2>1, <2>6 DEF ActivateCycle
  <2> QED
    BY <1>4, <2>1, <2>2, <2>3, <2>4, <2>5, <2>6, <2>7, <2>8 DEF ActivateCycle
<1>5. ASSUME NEW e \in Clients, NEW s \in Submissions, EnqueueReadSubmission(e, s)
      PROVE  TypeInv'
  <2>1. [NoCall EXCEPT !.stage = "has_submission", !.submission = s,
                        !.subRow = submissions[s]] \in Call
    BY DEF Call, NoCall
  <2>2. call' \in [Clients -> Call]
    BY <1>5, <2>1 DEF EnqueueReadSubmission
  <2> QED
    BY <1>5, <2>1, <2>2 DEF EnqueueReadSubmission, NoCall
<1>6. ASSUME NEW e \in Clients, NEW c \in Cycles, EnqueueReadCycle(e, c)
      PROVE  TypeInv'
  <2>1. cycles[c] \in CycleRow
    BY <1>6 DEF EnqueueReadCycle
  <2>2. call[e] \in Call
    OBVIOUS
  <2>3. [call[e] EXCEPT !.stage = "has_cycle", !.cycle = c,
                         !.cycleRow = cycles[c]] \in Call
    BY <2>1, <2>2, CallUpdate
  <2>4. call' = [call EXCEPT ![e] = [call[e] EXCEPT !.stage = "has_cycle", !.cycle = c,
                                                  !.cycleRow = cycles[c]]]
    BY <1>6, ZenonT(60) DEF EnqueueReadCycle
  <2>5. call' \in [Clients -> Call]
    BY <2>3, <2>4
  <2>6. \A f \in Clients : f # e => call'[f] = call[f]
    BY <2>4
  <2>7. /\ call'[e].submission = call[e].submission /\ call'[e].subRow = call[e].subRow
        /\ call'[e].cycle = c /\ call'[e].cycleRow = cycles[c]
    BY <2>2, <2>4 DEF Call
  <2>8. CallOK'
    BY <1>6, <2>6, <2>7 DEF EnqueueReadCycle
  <2> QED
    BY <1>6, <2>1, <2>2, <2>3, <2>4, <2>5, <2>6, <2>7, <2>8 DEF EnqueueReadCycle
<1>7. ASSUME NEW e \in Clients, NEW c \in Cycles, EnqueueRefuse(e, c)
      PROVE  TypeInv'
  <2>1. NoCall \in Call /\ NoCall.stage = "idle"
    BY DEF Call, NoCall
  <2> QED
    BY <1>7, <2>1 DEF EnqueueRefuse
<1>8. ASSUME NEW e \in Clients, NEW j \in Jobs, NEW b \in Backends, CreateJob(e, j, b)
      PROVE  TypeInv'
  <2>1. NoCall \in Call
    BY DEF Call, NoCall
  <2>2. /\ call[e].submission \in Submissions /\ call[e].cycle \in Cycles
        /\ call[e].subRow \in SubmissionRow /\ call[e].cycleRow \in CycleRow
    BY <1>8 DEF CreateJob, Call
  <2>3. JobManifest(call[e].subRow, call[e].cycleRow, call[e].submission, call[e].cycle, b) \in Manifest
    BY <2>2 DEF JobManifest, Manifest, ContentsType, SubmissionRow, CycleRow, DiskType
  <2>4. JobManifest(call[e].subRow, call[e].cycleRow, call[e].submission, call[e].cycle, b).submission
            = call[e].submission
    BY DEF JobManifest
  <2>5. clock' \in [jobs: Nat, cycles: Nat, results: Nat]
    BY <1>8, ClockTick DEF CreateJob
  <2>6. TypeOK'
    BY <1>8, <2>1, <2>3, <2>5 DEF CreateJob
  <2>7. CallOK' /\ WorkerOK'
    BY <1>8, <2>3 DEF CreateJob, NoCall
  <2>8. JobOK' /\ CycleOK'
    BY <1>8, <2>3, <2>4 DEF CreateJob
  <2> QED
    BY <1>8, <2>1, <2>2, <2>3, <2>4, <2>5, <2>6, <2>7, <2>8
<1>9. ASSUME NEW w \in Workers, NEW j \in Jobs, NEW b \in Backends, ClaimJob(w, j, b)
      PROVE  TypeInv'
  <2>1. EmptyScratch \in Scratch
    BY EmptyScratchTyped, SMTT(60)
  <2> QED
    BY <1>9, <2>1 DEF ClaimJob, IsNextFor
<1>10. ASSUME NEW w \in Workers, VerifyManifest(w)
      PROVE  TypeInv'
  <2>1. manifest[claimed[w]] \in Manifest /\ claimed[w] \in Jobs
        /\ submissions[manifest[claimed[w]].submission] # NoRow
    BY <1>10 DEF VerifyManifest
  <2>2. manifest[claimed[w]].submission \in Submissions
    BY <2>1 DEF Manifest
  <2>3. submissions[manifest[claimed[w]].submission].track \in Tracks
    BY <2>1, <2>2 DEF SubmissionRow
  <2>4. scratch[w] \in Scratch
    BY SMTT(60)
  <2>5. [scratch[w] EXCEPT !.track = submissions[manifest[claimed[w]].submission].track]
            \in Scratch
    BY <2>3, <2>4, ScratchUpdate
  <2>6. scratch' = [scratch EXCEPT ![w] = [scratch[w] EXCEPT
            !.track = submissions[manifest[claimed[w]].submission].track]]
    BY <1>10 DEF VerifyManifest
  <2>7. scratch' \in [Workers -> Scratch]
    BY <2>5, <2>6
  <2>8. TypeOK'
    BY <1>10, <2>7 DEF VerifyManifest
  <2>9. WorkerOK'
    BY <1>10, <2>4, <2>6, SMTT(60) DEF VerifyManifest, Scratch
  <2> QED
    BY <1>10, <2>1, <2>2, <2>3, <2>4, <2>5, <2>6, <2>7, <2>8, <2>9 DEF VerifyManifest
<1>11. ASSUME NEW w \in Workers, LoadInputs(w)
      PROVE  TypeInv'
  <2>1. manifest[claimed[w]] \in Manifest /\ claimed[w] \in Jobs
    BY <1>11 DEF LoadInputs
  <2>2. Loaded(w) \in ContentsType
    BY <2>1 DEF Loaded, Manifest, Contents, ContentsType, DiskType
  <2>3. scratch[w] \in Scratch
    OBVIOUS
  <2>4. [scratch[w] EXCEPT !.inputs = Loaded(w)] \in Scratch
    BY <2>2, <2>3, ScratchUpdate
  <2>5. scratch' = [scratch EXCEPT ![w] = [scratch[w] EXCEPT !.inputs = Loaded(w)]]
    BY <1>11 DEF LoadInputs
  <2>6. scratch' \in [Workers -> Scratch]
    BY <2>4, <2>5
  <2>7. TypeOK'
    BY <1>11, <2>6 DEF LoadInputs
  <2>8. WorkerOK'
    BY <1>11, <2>2, <2>3, <2>5 DEF LoadInputs, Scratch
  <2> QED
    BY <1>11, <2>1, <2>2, <2>3, <2>4, <2>5, <2>6, <2>7, <2>8 DEF LoadInputs
<1>12. ASSUME NEW w \in Workers, NEW o \in Outcomes, Execute(w, o)
      PROVE  TypeInv'
  <2>1. scratch[w].inputs \in ContentsType
    BY <1>12 DEF Execute, Scratch
  <2>2. [attempt |-> attempts + 1, outcome |-> o,
         profile |-> scratch[w].inputs.profile] \in Report
    BY <2>1 DEF Report, ContentsType
  <2>3. scratch[w] \in Scratch
    OBVIOUS
  <2>4. scratch' \in [Workers -> Scratch]
    BY <1>12, <2>2, <2>3, ScratchUpdate DEF Execute
  <2>5. TypeOK'
    BY <1>12, <2>4 DEF Execute
  <2>6. WorkerOK'
    BY <1>12, <2>2 DEF Execute, Scratch
  <2> QED
    BY <1>12, <2>1, <2>2, <2>3, <2>4, <2>5, <2>6 DEF Execute
<1>13. ASSUME NEW w \in Workers, WriteInternal(w)
      PROVE  TypeInv'
  <2>1. scratch[w].report \in Report /\ claimed[w] \in Jobs
    BY <1>13 DEF WriteInternal, WriteReport, Scratch
  <2>2. [reports[claimed[w]] EXCEPT !.internal = scratch[w].report]
            \in [internal: Report \cup {NoRow}, public: Report \cup {NoRow}]
    BY <2>1, FilesUpdate, ZenonT(60)
  <2>3. reports' = [reports EXCEPT ![claimed[w]] =
                   [reports[claimed[w]] EXCEPT !.internal = scratch[w].report]]
    BY <1>13 DEF WriteInternal, WriteReport
  <2>4. reports' \in [Jobs -> [internal: Report \cup {NoRow}, public: Report \cup {NoRow}]]
    BY <2>2, <2>3
  <2>5. TypeOK'
    BY <1>13, <2>4 DEF WriteInternal, WriteReport
  <2>6. WorkerOK'
    BY <1>13, <2>1, <2>3 DEF WriteInternal, WriteReport
  <2>7. CallOK' /\ JobOK' /\ CycleOK'
    <3>1. UNCHANGED <<submissions, cycles, jobStatus, manifest, call, activating>>
      BY <1>13 DEF WriteInternal, WriteReport
    <3> QED
      BY <3>1
  <2> QED
    BY <2>5, <2>6, <2>7
<1>14. ASSUME NEW w \in Workers, WritePublic(w)
      PROVE  TypeInv'
  <2>1. scratch[w].report \in Report /\ claimed[w] \in Jobs
    BY <1>14 DEF WritePublic, WriteReport, Scratch
  <2>2. [reports[claimed[w]] EXCEPT !.public = scratch[w].report]
            \in [internal: Report \cup {NoRow}, public: Report \cup {NoRow}]
    BY <2>1, FilesUpdate
  <2>3. reports' = [reports EXCEPT ![claimed[w]] =
                   [reports[claimed[w]] EXCEPT !.public = scratch[w].report]]
    BY <1>14 DEF WritePublic, WriteReport
  <2>4. reports' \in [Jobs -> [internal: Report \cup {NoRow}, public: Report \cup {NoRow}]]
    BY <2>2, <2>3
  <2>5. TypeOK'
    BY <1>14, <2>4 DEF WritePublic, WriteReport
  <2>6. WorkerOK'
    BY <1>14, <2>1, <2>3 DEF WritePublic, WriteReport
  <2>7. CallOK' /\ JobOK' /\ CycleOK'
    <3>1. UNCHANGED <<submissions, cycles, jobStatus, manifest, call, activating>>
      BY <1>14, SMTT(60) DEF WritePublic, WriteReport
    <3> QED
      BY <3>1
  <2> QED
    BY <2>5, <2>6, <2>7
<1>15. ASSUME NEW w \in Workers, Attest(w)
      PROVE  TypeInv'
  <2>1. /\ claimed[w] \in Jobs /\ scratch[w].report \in Report
        /\ reports[claimed[w]].internal \in Report
        /\ reports[claimed[w]].public \in Report
    BY <1>15 DEF Attest, Scratch
  <2>2. scratch[w].report.attempt \in Nat
    BY <2>1, ReportAttempt
  <2>3. scratch[w] \in Scratch
    OBVIOUS
  <2>4. scratch' \in [Workers -> Scratch]
    <3>1. [scratch[w] EXCEPT !.internal = reports[claimed[w]].internal,
                             !.public = reports[claimed[w]].public] \in Scratch
      BY <2>1, <2>3, ScratchUpdate
    <3>2. scratch' = [scratch EXCEPT ![w] =
                         [scratch[w] EXCEPT !.internal = reports[claimed[w]].internal,
                                            !.public = reports[claimed[w]].public]]
      BY <1>15, ZenonT(60) DEF Attest
    <3> QED
      BY <3>1, <3>2
  <2>5. TypeOK'
    BY <1>15, <2>2, <2>4 DEF Attest
  <2>6. WorkerOK'
    BY <1>15, <2>1 DEF Attest, Scratch
  <2> QED
    BY <1>15, <2>1, <2>2, <2>3, <2>4, <2>5, <2>6 DEF Attest
<1>16. ASSUME NEW w \in Workers, InsertResult(w)
      PROVE  TypeInv'
  <2>1. claimed[w] \in Jobs
    BY <1>16 DEF InsertResult
  <2>2. ResultOf(w) \in ResultRow
    BY <1>16, ResultOfIsRow
  <2>3. clock' \in [jobs: Nat, cycles: Nat, results: Nat]
    BY <1>16, ClockTick DEF InsertResult
  <2>4. TypeOK'
    BY <1>16, <2>1, <2>2, <2>3 DEF InsertResult
  <2>5. WorkerOK'
    BY <1>16 DEF InsertResult
  <2> QED
    BY <1>16, <2>4, <2>5 DEF InsertResult
<1>17. ASSUME NEW w \in Workers, FinishSucceeded(w)
      PROVE  TypeInv'
  <2>1. EmptyScratch \in Scratch
    BY EmptyScratchTyped
  <2>2. claimed[w] \in Jobs /\ scratch[w].report \in Report
    BY <1>17 DEF FinishSucceeded, Scratch
  <2>3. scratch[w].report.attempt \in Nat
    BY <2>2, ReportAttempt
  <2> QED
    BY <1>17, <2>1, <2>2, <2>3 DEF FinishSucceeded, FinishJob
<1>18. ASSUME NEW w \in Workers, FinishFailed(w)
      PROVE  TypeInv'
  <2>1. EmptyScratch \in Scratch
    BY EmptyScratchTyped
  <2> QED
    BY <1>18, <2>1 DEF FinishFailed, FinishJob
<1>19. ASSUME NEW w \in Workers, Raise(w)
      PROVE  TypeInv'
  <2>1. pc[w] # "idle"
    BY <1>19 DEF Raise, Raises, IoRaises
  <2> QED
    BY <1>19, <2>1 DEF Raise
<1>20. ASSUME NEW w \in Workers, Crash(w)
      PROVE  TypeInv'
  <2>1. EmptyScratch \in Scratch
    BY EmptyScratchTyped
  <2>2. TypeOK'
    BY <1>20, <2>1, SMTT(60) DEF Crash
  <2>3. WorkerOK'
    BY <1>20 DEF Crash
  <2>4. UNCHANGED <<submissions, cycles, jobStatus, manifest, call, activating>>
    BY <1>20 DEF Crash
  <2> QED
    BY <2>2, <2>3, <2>4
<1>21. ASSUME RequeueRunningJobs
      PROVE  TypeInv'
  <2>1. /\ UNCHANGED <<submissions, cycles, manifest, call, activating>>
        /\ UNCHANGED <<pc, claimed, scratch, reports>>
    BY <1>21 DEF RequeueRunningJobs
  <2>2. \A j \in Jobs : jobStatus'[j] # "none" <=> jobStatus[j] # "none"
    BY <1>21 DEF RequeueRunningJobs
  <2>3. TypeOK'
    BY <1>21, SMTT(60) DEF RequeueRunningJobs
  <2>4. WorkerOK' /\ CallOK' /\ CycleOK'
    BY <2>1
  <2>5. JobOK'
    BY <2>1, <2>2
  <2> QED
    BY <2>3, <2>4, <2>5
<1>22. ASSUME EditFile
      PROVE  TypeInv'
  <2>1. disk' \in DiskType
    BY <1>22, EditedDisk
  <2> QED
    BY <1>22, <2>1 DEF EditFile
<1>23. CASE UNCHANGED vars
  BY <1>23 DEF vars
<1>24. ASSUME NEW w \in Workers, Restart(w)
       PROVE  TypeInv'
  <2>1. disk.runner \in Revs
    BY DEF DiskType
  <2> QED
    BY <1>24, <2>1 DEF Restart
<1> QED
  BY <1>1, <1>2, <1>3, <1>4, <1>5, <1>6, <1>7, <1>8, <1>9, <1>10, <1>11,
     <1>12, <1>13, <1>14, <1>15, <1>16, <1>17, <1>18, <1>19, <1>20, <1>21, <1>22, <1>23, <1>24,
     ZenonT(60)
  DEF Next, Register, Enqueue, EnqueueInCycle, Claim, Proceed

\* Every variable keeps its type: no step of any interleaving stores a row, a
\* manifest or a result with a missing part (the columns of service_db.py).
THEOREM TypeCorrect == Spec => []TypeOK
<1>1. Init => TypeInv
  BY InitTypeInv
<1>2. TypeInv /\ [Next]_vars => TypeInv'
  BY StepTypeInv
<1>3. TypeInv => TypeOK
  BY DEF TypeInv
<1> QED
  BY <1>1, <1>2, <1>3, PTL DEF Spec

\* The strengthened invariant holds too: the theorems below start from it.
THEOREM TypeInvariant == Spec => []TypeInv
  BY InitTypeInv, StepTypeInv, PTL DEF Spec

----------------------------------------------------------------------------
(* One active cycle per Profile                                             *)

\* While no cycle is registered between the two steps of an activation, the
\* Profile id that an activation read is still the row's.
ActivationFresh ==
    \A o \in Operators : activating[o] # NoRow =>
        activating[o].profile_id = cycles[activating[o].cycle].profile_id

CycleInv == OneActiveCyclePerProfile /\ ActivationFresh

\* Registering, activating and everything else keep one active cycle per Profile.
LEMMA StepCycleInv ==
  ASSUME "concurrent_admin" \notin Faults, TypeInv, CycleInv, [Next]_vars
  PROVE  CycleInv'
<1> USE DEF CycleInv, OneActiveCyclePerProfile, ActivationFresh, ActiveCycles
<1> DEFINE Same == UNCHANGED <<cycles, activating>>
<1>1. ASSUME NEW c \in Cycles, RegisterCycle(c)
      PROVE  CycleInv'
  <2>1. activating' = activating /\ \A o \in Operators : activating[o] = NoRow
    BY <1>1 DEF RegisterCycle, callVars
  <2>2. ActiveCycles' \subseteq ActiveCycles
    BY <1>1 DEF RegisterCycle
  <2>3. \A d \in ActiveCycles' : cycles'[d] = cycles[d]
    BY <1>1 DEF RegisterCycle, TypeInv, TypeOK
  <2> QED
    BY <2>1, <2>2, <2>3
<1>2. ASSUME NEW o \in Operators, NEW c \in Cycles, ReadCycleToActivate(o, c)
      PROVE  CycleInv'
  BY <1>2 DEF ReadCycleToActivate, registryVars, TypeInv, TypeOK
<1>3. ASSUME NEW o \in Operators, ActivateCycle(o)
      PROVE  CycleInv'
  <2> DEFINE a == activating[o].cycle
             p == activating[o].profile_id
  <2>1. a \in Cycles /\ cycles[a] \in CycleRow /\ p = cycles[a].profile_id
    BY <1>3, NoRowAssumption DEF ActivateCycle, TypeInv, TypeOK, CycleOK, Activation
  <2>2. \A d \in Cycles : cycles'[d] = IF d = a THEN Activated(cycles[d])
                                       ELSE Retired(cycles[d], p)
    BY <1>3, SMTT(60) DEF ActivateCycle
  <2>3. cycles'[a].profile_id = p
    BY <2>1, <2>2 DEF Activated, CycleRow
  <2>4. ASSUME NEW d \in Cycles, d # a, cycles[d] # NoRow
        PROVE  /\ cycles'[d].profile_id = cycles[d].profile_id
               /\ cycles'[d].status = "active" =>
                     cycles[d].status = "active" /\ cycles[d].profile_id # p
    <3>1. cycles[d] \in CycleRow /\ cycles'[d] = Retired(cycles[d], p)
      BY <2>2, <2>4 DEF TypeInv, TypeOK
    <3>2. CASE cycles[d].profile_id = p /\ cycles[d].status = "active"
      BY <2>4, <3>1, <3>2 DEF Retired, CycleRow
    <3>3. CASE ~(cycles[d].profile_id = p /\ cycles[d].status = "active")
      BY <2>4, <3>1, <3>3 DEF Retired
    <3> QED
      BY <3>2, <3>3
  <2>5. ASSUME NEW d \in Cycles, d # a, cycles[d] = NoRow
        PROVE  cycles'[d] = NoRow
    BY <2>2, <2>5 DEF Retired
  <2>6. OneActiveCyclePerProfile'
    BY <2>1, <2>3, <2>4, <2>5
  <2>7. ActivationFresh'
    <3> SUFFICES ASSUME NEW q \in Operators, activating'[q] # NoRow
                 PROVE  activating'[q].profile_id
                            = cycles'[activating'[q].cycle].profile_id
      OBVIOUS
    <3>1. activating'[q] = activating[q]
      BY <1>3 DEF ActivateCycle, TypeInv, TypeOK
    <3>2. activating[q].cycle \in Cycles /\ cycles[activating[q].cycle] # NoRow
      BY <3>1 DEF TypeInv, TypeOK, CycleOK, Activation
    <3> QED
      BY <2>1, <2>3, <2>4, <3>1, <3>2
  <2> QED
    BY <2>6, <2>7
<1>4. CASE Same
  BY <1>4
<1>5. ASSUME NEW s \in Submissions, NEW t \in Tracks, RegisterSubmission(s, t)
      PROVE  Same
  BY <1>5 DEF RegisterSubmission, callVars
<1>6. ASSUME NEW e \in Clients, Enqueue(e)
      PROVE  Same
  BY <1>6 DEF Enqueue, EnqueueInCycle, EnqueueReadSubmission, EnqueueReadCycle,
              EnqueueRefuse, CreateJob, registryVars
<1>7. ASSUME NEW w \in Workers, NEW b \in Backends, Claim(w, b)
      PROVE  Same
  BY <1>7 DEF Claim, ClaimJob, registryVars, callVars
<1>8. ASSUME NEW w \in Workers, Proceed(w)
      PROVE  Same
  BY <1>8 DEF Proceed, VerifyManifest, LoadInputs, Execute, WriteInternal,
              WritePublic, WriteReport, Attest, InsertResult, FinishSucceeded,
              FinishFailed, FinishJob, Raise, registryVars, callVars
<1>9. ASSUME NEW w \in Workers, Crash(w) \/ Restart(w)
      PROVE  Same
  BY <1>9 DEF Crash, Restart, registryVars, callVars
<1>10. RequeueRunningJobs \/ EditFile \/ UNCHANGED vars => Same
  BY DEF RequeueRunningJobs, EditFile, vars, registryVars, callVars
<1> QED
  BY <1>1, <1>2, <1>3, <1>4, <1>5, <1>6, <1>7, <1>8, <1>9, <1>10 DEF Next, Register

\* Each Profile has at most one active cycle, as long as no cycle is registered
\* between the SELECT and the UPDATEs of activate_cycle.
THEOREM OneActiveCycle ==
  "concurrent_admin" \notin Faults => (Spec => []OneActiveCyclePerProfile)
<1> SUFFICES ASSUME "concurrent_admin" \notin Faults
             PROVE  Spec => []OneActiveCyclePerProfile
  OBVIOUS
<1>1. Init => CycleInv
  BY DEF Init, CycleInv, OneActiveCyclePerProfile, ActivationFresh, ActiveCycles
<1>2. TypeInv /\ CycleInv /\ [Next]_vars => CycleInv'
  BY StepCycleInv
<1>3. CycleInv => OneActiveCyclePerProfile
  BY DEF CycleInv
<1> QED
  BY <1>1, <1>2, <1>3, TypeInvariant, PTL DEF Spec

----------------------------------------------------------------------------
(* A succeeded job names its result, under every fault                      *)

\* A worker that has inserted its row is the one whose report the row holds:
\* UNIQUE(job_id) lets nobody replace it before finish_job.
InsertedIsStored ==
    \A w \in Workers : pc[w] = "inserted" =>
        /\ results[claimed[w]] # NoRow
        /\ results[claimed[w]].id = scratch[w].report.attempt

NameInv == SucceededNamesItsResult /\ InsertedIsStored

\* No step but an insert, a claim, a finish, a recovery or a new job touches what
\* NameInv reads of the jobs; no step takes a stored row away.
LEMMA StepNameInv ==
  ASSUME TypeInv, NameInv, [Next]_vars
  PROVE  NameInv'
<1> USE DEF NameInv, SucceededNamesItsResult, InsertedIsStored, GoTo, TypeInv,
            TypeOK, WorkerOK, registryVars, jobVars, fileVars, workerVars, callVars
<1>1. ASSUME Register
      PROVE  NameInv'
  BY <1>1 DEF Register, RegisterSubmission, RegisterCycle, ReadCycleToActivate,
              ActivateCycle
<1>2. ASSUME NEW e \in Clients, NEW j \in Jobs, NEW b \in Backends, CreateJob(e, j, b)
      PROVE  NameInv'
  BY <1>2 DEF CreateJob
<1>3. ASSUME NEW e \in Clients,
             (\E s \in Submissions : EnqueueReadSubmission(e, s)) \/ EnqueueInCycle(e)
      PROVE  NameInv'
  BY <1>3, ZenonT(60) DEF EnqueueReadSubmission, EnqueueInCycle, EnqueueReadCycle, EnqueueRefuse
<1>4. ASSUME NEW w \in Workers, NEW j \in Jobs, NEW b \in Backends, ClaimJob(w, j, b)
      PROVE  NameInv'
  BY <1>4 DEF ClaimJob, IsNextFor
<1>5. ASSUME NEW w \in Workers, VerifyManifest(w)
      PROVE  NameInv'
  BY <1>5 DEF VerifyManifest
<1>6. ASSUME NEW w \in Workers, LoadInputs(w)
      PROVE  NameInv'
  BY <1>6 DEF LoadInputs
<1>7. ASSUME NEW w \in Workers, NEW o \in Outcomes, Execute(w, o)
      PROVE  NameInv'
  BY <1>7 DEF Execute
<1>8. ASSUME NEW w \in Workers, WriteInternal(w) \/ WritePublic(w)
      PROVE  NameInv'
  BY <1>8 DEF WriteInternal, WritePublic, WriteReport
<1>9. ASSUME NEW w \in Workers, Attest(w)
      PROVE  NameInv'
  BY <1>9 DEF Attest
<1>10. ASSUME NEW w \in Workers, InsertResult(w)
       PROVE  NameInv'
  <2>1. claimed[w] \in Jobs /\ ResultOf(w).id = scratch[w].report.attempt
    BY <1>10 DEF InsertResult, ResultOf
  <2>2. results[claimed[w]] = NoRow /\ results' = [results EXCEPT ![claimed[w]] = ResultOf(w)]
    BY <1>10 DEF InsertResult
  <2>3. ResultOf(w) # NoRow
    BY <1>10, ResultOfIsRow, NoRowAssumption
  <2>4. SucceededNamesItsResult'
    BY <1>10, <2>1, <2>2, <2>3 DEF InsertResult
  <2>5. InsertedIsStored'
    BY <1>10, <2>1, <2>2, <2>3 DEF InsertResult
  <2> QED
    BY <2>4, <2>5
<1>11. ASSUME NEW w \in Workers, FinishSucceeded(w)
       PROVE  NameInv'
  BY <1>11 DEF FinishSucceeded, FinishJob
<1>12. ASSUME NEW w \in Workers, FinishFailed(w)
       PROVE  NameInv'
  BY <1>12 DEF FinishFailed, FinishJob
<1>13. ASSUME NEW w \in Workers, Raise(w) \/ Crash(w)
       PROVE  NameInv'
  BY <1>13 DEF Raise, Crash
<1>14. CASE RequeueRunningJobs
  BY <1>14 DEF RequeueRunningJobs
<1>15. ASSUME EditFile \/ UNCHANGED vars \/ \E w \in Workers : Restart(w)
       PROVE  NameInv'
  BY <1>15 DEF EditFile, Restart, vars
<1> QED
  BY <1>1, <1>2, <1>3, <1>4, <1>5, <1>6, <1>7, <1>8, <1>9, <1>10, <1>11, <1>12,
     <1>13, <1>14, <1>15
  DEF Next, Enqueue, Claim, Proceed

\* A job recorded as succeeded names the result stored for it, whatever crashes,
\* recovers with a live worker, or fails.
THEOREM SucceededNamesResult == Spec => []SucceededNamesItsResult
<1>1. Init => NameInv
  BY DEF Init, NameInv, SucceededNamesItsResult, InsertedIsStored
<1>2. TypeInv /\ NameInv /\ [Next]_vars => NameInv'
  BY StepNameInv
<1>3. NameInv => SucceededNamesItsResult
  BY DEF NameInv
<1> QED
  BY <1>1, <1>2, <1>3, TypeInvariant, PTL DEF Spec

----------------------------------------------------------------------------
(* Exclusive claims and final ends, while recovery waits for the workers    *)

\* What a worker holds is running, and nobody else holds it.
HeldIsRunning ==
    \A w \in Workers :
        /\ pc[w] = "idle" <=> claimed[w] = NoRow
        /\ claimed[w] # NoRow => jobStatus[claimed[w]] = "running"

ClaimInv == ClaimIsExclusive /\ HeldIsRunning

\* No step lets a second worker have a held job or moves a finished one; finish_job
\* runs only for a held, hence running, job.
LEMMA StepClaimInv ==
  ASSUME "recover_live" \notin Faults, TypeInv, ClaimInv, [Next]_vars
  PROVE  /\ ClaimInv'
         /\ \A j \in Jobs : jobStatus[j] \in {"succeeded", "failed"} =>
               jobStatus'[j] = jobStatus[j] /\ resultId'[j] = resultId[j]
<1> DEFINE Final == \A j \in Jobs : jobStatus[j] \in {"succeeded", "failed"} =>
                       jobStatus'[j] = jobStatus[j] /\ resultId'[j] = resultId[j]
<1> USE NoRowAssumption
        DEF ClaimInv, ClaimIsExclusive, HeldIsRunning, GoTo, TypeInv, TypeOK,
            WorkerOK, registryVars, jobVars, fileVars, workerVars, callVars
<1>1. ASSUME Register
      PROVE  ClaimInv' /\ Final
  BY <1>1 DEF Register, RegisterSubmission, RegisterCycle, ReadCycleToActivate,
              ActivateCycle
<1>2. ASSUME NEW e \in Clients, NEW j \in Jobs, NEW b \in Backends, CreateJob(e, j, b)
      PROVE  ClaimInv' /\ Final
  BY <1>2 DEF CreateJob
<1>3. ASSUME NEW e \in Clients,
             (\E s \in Submissions : EnqueueReadSubmission(e, s)) \/ EnqueueInCycle(e)
      PROVE  ClaimInv' /\ Final
  <2>1. UNCHANGED <<jobVars, workerVars>>
    BY <1>3 DEF EnqueueReadSubmission, EnqueueInCycle, EnqueueReadCycle, EnqueueRefuse
  <2> QED
    BY <2>1
<1>4. ASSUME NEW w \in Workers, NEW j \in Jobs, NEW b \in Backends, ClaimJob(w, j, b)
      PROVE  ClaimInv' /\ Final
  <2>1. /\ jobStatus[j] = "queued"
        /\ \A v \in Workers : claimed[v] # j
    BY <1>4 DEF ClaimJob, IsNextFor
  <2> QED
    BY <1>4, <2>1 DEF ClaimJob
<1>5. ASSUME NEW w \in Workers, VerifyManifest(w) \/ LoadInputs(w) \/ Attest(w)
      PROVE  ClaimInv' /\ Final
  BY <1>5 DEF VerifyManifest, LoadInputs, Attest
<1>6. ASSUME NEW w \in Workers, NEW o \in Outcomes, Execute(w, o)
      PROVE  ClaimInv' /\ Final
  BY <1>6 DEF Execute
<1>7. ASSUME NEW w \in Workers,
             WriteInternal(w) \/ WritePublic(w) \/ InsertResult(w) \/ Raise(w)
      PROVE  ClaimInv' /\ Final
  BY <1>7 DEF WriteInternal, WritePublic, WriteReport, InsertResult, Raise, Raises,
              IoRaises
<1>8. ASSUME NEW w \in Workers, FinishSucceeded(w) \/ FinishFailed(w)
      PROVE  ClaimInv' /\ Final
  <2>1. PICK status, id :
           /\ jobStatus' = [jobStatus EXCEPT ![claimed[w]] = status]
           /\ resultId' = [resultId EXCEPT ![claimed[w]] = id]
           /\ claimed' = [claimed EXCEPT ![w] = NoRow]
           /\ pc' = [pc EXCEPT ![w] = "idle"]
    BY <1>8 DEF FinishSucceeded, FinishFailed, FinishJob
  <2>2. pc[w] # "idle" /\ claimed[w] \in Jobs /\ jobStatus[claimed[w]] = "running"
    BY <1>8 DEF FinishSucceeded, FinishFailed, Stages
  <2>3. ClaimIsExclusive'
    BY <2>1, <2>2
  <2>4. HeldIsRunning'
    BY <2>1, <2>2
  <2>5. Final
    BY <2>1, <2>2
  <2> QED
    BY <2>3, <2>4, <2>5
<1>9. ASSUME NEW w \in Workers, Crash(w)
      PROVE  ClaimInv' /\ Final
  BY <1>9 DEF Crash
<1>10. ASSUME RequeueRunningJobs
       PROVE  ClaimInv' /\ Final
  BY <1>10 DEF RequeueRunningJobs
<1>11. ASSUME EditFile \/ UNCHANGED vars \/ \E w \in Workers : Restart(w)
       PROVE  ClaimInv' /\ Final
  BY <1>11 DEF EditFile, Restart, vars
<1> QED
  BY <1>1, <1>2, <1>3, <1>4, <1>5, <1>6, <1>7, <1>8, <1>9, <1>10, <1>11
  DEF Next, Enqueue, Claim, Proceed

\* At the start nobody holds a job.
LEMMA InitClaimInv == Init => ClaimInv
  BY NoRowAssumption DEF Init, ClaimInv, ClaimIsExclusive, HeldIsRunning

\* claim_next_job hands a job to one worker at a time, as long as recover-running
\* is called only while no worker runs.
THEOREM ExclusiveClaim ==
  "recover_live" \notin Faults => (Spec => []ClaimIsExclusive)
<1> SUFFICES ASSUME "recover_live" \notin Faults
             PROVE  Spec => []ClaimIsExclusive
  OBVIOUS
<1>1. TypeInv /\ ClaimInv /\ [Next]_vars => ClaimInv'
  BY StepClaimInv
<1>2. ClaimInv => ClaimIsExclusive
  BY DEF ClaimInv
<1> QED
  BY <1>1, <1>2, InitClaimInv, TypeInvariant, PTL DEF Spec

\* Under the same assumption a job that has finished stays as it finished:
\* finish_job, which checks no status, is only ever called on a running job.
THEOREM FinishedStaysFinal ==
  "recover_live" \notin Faults => (Spec => FinishedIsFinal)
<1> SUFFICES ASSUME "recover_live" \notin Faults
             PROVE  Spec => FinishedIsFinal
  OBVIOUS
<1>1. TypeInv /\ ClaimInv /\ [Next]_vars => ClaimInv'
  BY StepClaimInv
<1>2. TypeInv /\ ClaimInv /\ [Next]_vars =>
         [\A j \in Jobs : jobStatus[j] \in {"succeeded", "failed"} =>
             jobStatus'[j] = jobStatus[j] /\ resultId'[j] = resultId[j]]_vars
  BY StepClaimInv
<1> QED
  BY <1>1, <1>2, InitClaimInv, TypeInvariant, PTL DEF Spec, FinishedIsFinal

----------------------------------------------------------------------------
(* The job queue implements JobLedger, while nothing is recovered and no    *)
(* worker's database or file operation fails                                *)

\* A job with a stored result is running or has succeeded, and whoever holds
\* it has only finish_job left to call: nobody evaluates it, and nobody is
\* about to record it as failed.
PublishedIsAlmostDone ==
    \A j \in Jobs : results[j] # NoRow =>
        /\ jobStatus[j] \in {"running", "succeeded"}
        /\ \A w \in Workers : claimed[w] = j => pc[w] = "inserted"

LedgerInv == TypeInv /\ ClaimInv /\ NameInv /\ PublishedIsAlmostDone

\* What the ledger sees of a step: nothing, or what one job did.
Quiet == UNCHANGED <<jobStatus, results>>

NothingRecovered == {"recover", "recover_live", "io_error"} \cap Faults = {}

\* A step that neither moves a job nor stores a result leaves the ledger as it is.
LEMMA QuietStutters == Quiet => UNCHANGED Ledger!ledger
  BY DEF Quiet, Ledger!ledger

\* Every step preserves PublishedIsAlmostDone and is a step of the ledger, or
\* none.
LEMMA StepLedger ==
  ASSUME NothingRecovered, LedgerInv, [Next]_vars
  PROVE  PublishedIsAlmostDone' /\ [Ledger!Next]_(Ledger!ledger)
<1> DEFINE Goal == PublishedIsAlmostDone' /\ [Ledger!Next]_(Ledger!ledger)
<1> USE NoRowAssumption
        DEF PublishedIsAlmostDone, GoTo, registryVars, jobVars, fileVars,
            workerVars, callVars
<1>0. /\ jobStatus \in [Jobs -> {"none", "queued", "running", "succeeded", "failed"}]
      /\ results \in [Jobs -> ResultRow \cup {NoRow}]
      /\ pc \in [Workers -> Stages] /\ claimed \in [Workers -> Jobs \cup {NoRow}]
      /\ \A w \in Workers : pc[w] # "idle" =>
            claimed[w] \in Jobs /\ jobStatus[claimed[w]] = "running"
      /\ \A w \in Workers : pc[w] = "inserted" => results[claimed[w]] # NoRow
      /\ \A v, w \in Workers : claimed[v] = claimed[w] /\ claimed[v] # NoRow => v = w
      /\ PublishedIsAlmostDone
  BY DEF LedgerInv, TypeInv, TypeOK, WorkerOK, ClaimInv, ClaimIsExclusive,
         HeldIsRunning, NameInv, InsertedIsStored
<1>1. ASSUME Register \/ EditFile \/ UNCHANGED vars \/ \E w \in Workers : Restart(w)
      PROVE  Goal
  <2>1. Quiet /\ UNCHANGED <<pc, claimed>>
    BY <1>1 DEF Register, RegisterSubmission, RegisterCycle, ReadCycleToActivate,
                ActivateCycle, EditFile, Restart, vars, Quiet
  <2> QED
    BY <1>0, <2>1, QuietStutters DEF Quiet
<1>2. ASSUME NEW e \in Clients,
             (\E s \in Submissions : EnqueueReadSubmission(e, s)) \/ EnqueueInCycle(e)
      PROVE  Goal
  <2>1. Quiet /\ UNCHANGED <<pc, claimed>>
    BY <1>2 DEF EnqueueReadSubmission, EnqueueInCycle, EnqueueReadCycle,
                EnqueueRefuse, Quiet
  <2> QED
    BY <1>0, <2>1, QuietStutters DEF Quiet
<1>3. ASSUME NEW e \in Clients, NEW j \in Jobs, NEW b \in Backends, CreateJob(e, j, b)
      PROVE  Goal
  <2>1. /\ jobStatus[j] = "none" /\ jobStatus' = [jobStatus EXCEPT ![j] = "queued"]
        /\ UNCHANGED <<results, pc, claimed>>
    BY <1>3 DEF CreateJob
  <2>2. PublishedIsAlmostDone'
    BY <1>0, <2>1
  <2>3. Ledger!Submit(j)
    BY <2>1 DEF Ledger!Submit, Ledger!Move
  <2> QED
    BY <2>2, <2>3 DEF Ledger!Next
<1>4. ASSUME NEW w \in Workers, NEW j \in Jobs, NEW b \in Backends, ClaimJob(w, j, b)
      PROVE  Goal
  <2>1. /\ jobStatus[j] = "queued" /\ jobStatus' = [jobStatus EXCEPT ![j] = "running"]
        /\ claimed' = [claimed EXCEPT ![w] = j] /\ pc' = [pc EXCEPT ![w] = "claimed"]
        /\ pc[w] = "idle" /\ results' = results
    BY <1>4 DEF ClaimJob, IsNextFor
  <2>2. results[j] = NoRow
    BY <1>0, <2>1
  <2>3. PublishedIsAlmostDone'
    BY <1>0, <2>1, <2>2
  <2>4. Ledger!Start(j)
    BY <2>1 DEF Ledger!Start, Ledger!Move
  <2> QED
    BY <2>3, <2>4 DEF Ledger!Next
<1>5. ASSUME NEW w \in Workers,
             \/ VerifyManifest(w) \/ LoadInputs(w) \/ \E o \in Outcomes : Execute(w, o)
             \/ WriteInternal(w) \/ WritePublic(w) \/ Attest(w) \/ Raise(w)
      PROVE  Goal
  <2>1. /\ Quiet /\ claimed' = claimed
        /\ \E to \in Stages : pc' = [pc EXCEPT ![w] = to]
        /\ pc[w] # "idle"
    BY <1>5 DEF VerifyManifest, LoadInputs, Execute, WriteInternal, WritePublic,
                WriteReport, Attest, Raise, Raises, IoRaises, Quiet, Stages
  <2>2. pc[w] = "attested" => results[claimed[w]] = NoRow
    BY <1>0, <2>1
  <2>3. pc[w] # "inserted"
    BY <1>5 DEF VerifyManifest, LoadInputs, Execute, WriteInternal, WritePublic,
                WriteReport, Attest, Raise, Raises, IoRaises, NothingRecovered
  <2>4. PublishedIsAlmostDone'
    BY <1>0, <2>1, <2>3 DEF Quiet
  <2> QED
    BY <2>1, <2>4, QuietStutters
<1>6. ASSUME NEW w \in Workers, InsertResult(w)
      PROVE  Goal
  <2>0. pc[w] = "attested"
    BY <1>6 DEF InsertResult
  <2> PICK j \in Jobs : j = claimed[w]
    BY <1>0, <2>0
  <2>1. /\ results[j] = NoRow
        /\ results' = [results EXCEPT ![j] = ResultOf(w)]
        /\ pc' = [pc EXCEPT ![w] = "inserted"]
        /\ UNCHANGED <<jobStatus, claimed>>
    BY <1>6 DEF InsertResult
  <2>2. jobStatus[j] = "running"
    BY <1>0, <2>0
  <2>3. ResultOf(w) # NoRow
    BY <1>6, ResultOfIsRow DEF LedgerInv
  <2>4. PublishedIsAlmostDone'
    BY <1>0, <2>0, <2>1, <2>2
  <2>5. {k \in Jobs : results'[k] # NoRow} = {k \in Jobs : results[k] # NoRow} \cup {j}
    BY <1>0, <2>1, <2>3
  <2>6. Ledger!Publish(j)
    BY <2>1, <2>2, <2>5 DEF Ledger!Publish
  <2> QED
    BY <2>4, <2>6 DEF Ledger!Next
<1>7. ASSUME NEW w \in Workers, FinishSucceeded(w)
      PROVE  Goal
  <2> DEFINE j == claimed[w]
  <2>1. /\ pc[w] = "inserted" /\ jobStatus' = [jobStatus EXCEPT ![j] = "succeeded"]
        /\ claimed' = [claimed EXCEPT ![w] = NoRow] /\ results' = results
        /\ pc' = [pc EXCEPT ![w] = "idle"]
    BY <1>7 DEF FinishSucceeded, FinishJob
  <2>2. j \in Jobs /\ jobStatus[j] = "running" /\ results[j] # NoRow
    BY <1>0, <2>1
  <2>3. PublishedIsAlmostDone'
    BY <1>0, <2>1, <2>2
  <2>4. Ledger!Succeed(j)
    BY <2>1, <2>2 DEF Ledger!Succeed, Ledger!Move
  <2> QED
    BY <2>2, <2>3, <2>4 DEF Ledger!Next
<1>8. ASSUME NEW w \in Workers, FinishFailed(w)
      PROVE  Goal
  <2> DEFINE j == claimed[w]
  <2>1. /\ pc[w] = "raised" /\ jobStatus' = [jobStatus EXCEPT ![j] = "failed"]
        /\ claimed' = [claimed EXCEPT ![w] = NoRow] /\ results' = results
        /\ pc' = [pc EXCEPT ![w] = "idle"]
    BY <1>8 DEF FinishFailed, FinishJob
  <2>2. j \in Jobs /\ jobStatus[j] = "running" /\ results[j] = NoRow
    BY <1>0, <2>1
  <2>3. PublishedIsAlmostDone'
    BY <1>0, <2>1, <2>2
  <2>4. Ledger!Fail(j)
    BY <2>1, <2>2 DEF Ledger!Fail, Ledger!Move
  <2> QED
    BY <2>2, <2>3, <2>4 DEF Ledger!Next
<1>9. ASSUME NEW w \in Workers, Crash(w)
      PROVE  Goal
  <2>1. /\ Quiet /\ claimed' = [claimed EXCEPT ![w] = NoRow]
        /\ pc' = [pc EXCEPT ![w] = "idle"]
    BY <1>9 DEF Crash, Quiet
  <2>2. PublishedIsAlmostDone'
    BY <1>0, <2>1 DEF Quiet
  <2> QED
    BY <2>1, <2>2, QuietStutters
<1>10. ~RequeueRunningJobs
  BY DEF RequeueRunningJobs, NothingRecovered
<1> QED
  BY <1>1, <1>2, <1>3, <1>4, <1>5, <1>6, <1>7, <1>8, <1>9, <1>10
  DEF Next, Enqueue, Claim, Proceed

\* The registry starts as an empty ledger.
LEMMA InitLedger == Init => PublishedIsAlmostDone /\ NameInv /\ Ledger!Init
  BY DEF Init, PublishedIsAlmostDone, NameInv, SucceededNamesItsResult,
         InsertedIsStored, Ledger!Init

\* Under any number of workers, clients, crashes and edits, a job is evaluated
\* once, publishes at most one result, and ends as succeeded exactly when it
\* published one, as long as recover-running is not called and no database or
\* file operation of a worker fails.
THEOREM LedgerRefinement ==
  {"recover", "recover_live", "io_error"} \cap Faults = {} => (Spec => ImplementsLedger)
<1> SUFFICES ASSUME NothingRecovered
             PROVE  Spec => ImplementsLedger
  BY DEF NothingRecovered
<1>0. "recover_live" \notin Faults
  BY DEF NothingRecovered
<1>1. Init => LedgerInv /\ Ledger!Init
  BY InitTypeInv, InitClaimInv, InitLedger DEF LedgerInv
<1>2. LedgerInv /\ [Next]_vars => LedgerInv'
  BY <1>0, StepTypeInv, StepClaimInv, StepNameInv, StepLedger DEF LedgerInv
<1>3. LedgerInv /\ [Next]_vars => [Ledger!Next]_(Ledger!ledger)
  BY StepLedger
<1> QED
  BY <1>1, <1>2, <1>3, PTL DEF Spec, ImplementsLedger, Ledger!Spec

----------------------------------------------------------------------------
(* The stored files are the signed ones, while nothing is recovered         *)

\* Whoever holds a job that has a result neither writes its files nor inserts
\* again, and nobody will claim it.
PublishedIsLeftAlone ==
    \A j \in Jobs : results[j] # NoRow =>
        /\ jobStatus[j] \notin {"none", "queued"}
        /\ \A w \in Workers : claimed[w] = j => pc[w] \in {"inserted", "raised"}

\* Between the attestation and the insert, the digests that the worker read
\* back are still those of the files.
AttestedMatchesFiles ==
    \A w \in Workers : pc[w] = "attested" =>
        /\ scratch[w].internal = reports[claimed[w]].internal
        /\ scratch[w].public = reports[claimed[w]].public
        /\ attFile[claimed[w]] = scratch[w].report.attempt

StoredInv == PublishedIsLeftAlone /\ AttestedMatchesFiles /\ StoredResultVerifies

NeverRecovered == {"recover", "recover_live"} \cap Faults = {}

\* Every step keeps the files of a job with a result as they were signed.
LEMMA StepStoredInv ==
  ASSUME NeverRecovered, TypeInv, ClaimInv, StoredInv, [Next]_vars
  PROVE  StoredInv'
<1> USE NoRowAssumption
        DEF StoredInv, PublishedIsLeftAlone, AttestedMatchesFiles,
            StoredResultVerifies, VerifyResultAttestation, GoTo, registryVars,
            jobVars, fileVars, workerVars, callVars
<1>0. /\ jobStatus \in [Jobs -> {"none", "queued", "running", "succeeded", "failed"}]
      /\ results \in [Jobs -> ResultRow \cup {NoRow}]
      /\ reports \in [Jobs -> [internal: Report \cup {NoRow}, public: Report \cup {NoRow}]]
      /\ attFile \in [Jobs -> Nat] /\ scratch \in [Workers -> Scratch]
      /\ pc \in [Workers -> Stages] /\ claimed \in [Workers -> Jobs \cup {NoRow}]
      /\ \A w \in Workers : pc[w] # "idle" =>
            claimed[w] \in Jobs /\ jobStatus[claimed[w]] = "running"
      /\ \A v, w \in Workers : claimed[v] = claimed[w] /\ claimed[v] # NoRow => v = w
  BY DEF TypeInv, TypeOK, WorkerOK, ClaimInv, ClaimIsExclusive, HeldIsRunning
<1> DEFINE Same == UNCHANGED <<jobStatus, results, reports, attFile, pc, claimed, scratch>>
<1>1. CASE Same
  BY <1>1
<1>2. ASSUME Register \/ EditFile \/ UNCHANGED vars \/ \E w \in Workers : Restart(w)
      PROVE  Same
  BY <1>2 DEF Register, RegisterSubmission, RegisterCycle, ReadCycleToActivate,
              ActivateCycle, EditFile, Restart, vars
<1>3. ASSUME NEW e \in Clients,
             (\E s \in Submissions : EnqueueReadSubmission(e, s)) \/ EnqueueInCycle(e)
      PROVE  Same
  BY <1>3 DEF EnqueueReadSubmission, EnqueueInCycle, EnqueueReadCycle, EnqueueRefuse
<1>4. ASSUME NEW e \in Clients, NEW j \in Jobs, NEW b \in Backends, CreateJob(e, j, b)
      PROVE  StoredInv'
  <2>1. /\ jobStatus[j] = "none" /\ jobStatus' = [jobStatus EXCEPT ![j] = "queued"]
        /\ UNCHANGED <<results, reports, attFile, pc, claimed, scratch>>
    BY <1>4 DEF CreateJob
  <2> QED
    BY <1>0, <2>1
<1>5. ASSUME NEW w \in Workers, NEW j \in Jobs, NEW b \in Backends, ClaimJob(w, j, b)
      PROVE  StoredInv'
  <2>1. /\ jobStatus[j] = "queued" /\ jobStatus' = [jobStatus EXCEPT ![j] = "running"]
        /\ claimed' = [claimed EXCEPT ![w] = j] /\ pc' = [pc EXCEPT ![w] = "claimed"]
        /\ \A v \in Workers : v # w => scratch'[v] = scratch[v]
        /\ UNCHANGED <<results, reports, attFile>>
    BY <1>0, <1>5 DEF ClaimJob, IsNextFor
  <2>2. results[j] = NoRow
    BY <2>1
  <2> QED
    BY <1>0, <2>1, <2>2
<1>6. ASSUME NEW w \in Workers,
             VerifyManifest(w) \/ LoadInputs(w) \/ \E o \in Outcomes : Execute(w, o)
      PROVE  StoredInv'
  <2>1. /\ \E to \in {"verified", "loaded", "executed"} : pc' = [pc EXCEPT ![w] = to]
        /\ pc[w] \in {"claimed", "verified", "loaded"}
        /\ \A v \in Workers : v # w => scratch'[v] = scratch[v]
        /\ UNCHANGED <<jobStatus, results, reports, attFile, claimed>>
    BY <1>0, <1>6 DEF VerifyManifest, LoadInputs, Execute
  <2> QED
    BY <1>0, <2>1
<1>7. ASSUME NEW w \in Workers, WriteInternal(w) \/ WritePublic(w)
      PROVE  StoredInv'
  <2>1. /\ pc[w] \in {"executed", "wrote_internal"} /\ claimed[w] \in Jobs
        /\ \E to \in {"wrote_internal", "wrote_public"} : pc' = [pc EXCEPT ![w] = to]
        /\ \A k \in Jobs : k # claimed[w] => reports'[k] = reports[k]
        /\ UNCHANGED <<jobStatus, results, attFile, claimed, scratch>>
    BY <1>0, <1>7 DEF WriteInternal, WritePublic, WriteReport
  <2>2. results[claimed[w]] = NoRow
    BY <2>1
  <2>3. \A v \in Workers : pc'[v] = "attested" =>
            v # w /\ pc[v] = "attested" /\ reports'[claimed[v]] = reports[claimed[v]]
    BY <1>0, <2>1
  <2>4. \A k \in Jobs : results[k] # NoRow => reports'[k] = reports[k]
    BY <2>1, <2>2
  <2>5. PublishedIsLeftAlone'
    BY <1>0, <2>1, <2>2
  <2>6. AttestedMatchesFiles'
    BY <2>1, <2>3
  <2>7. StoredResultVerifies'
    BY <2>1, <2>4
  <2> QED
    BY <2>5, <2>6, <2>7
<1>8. ASSUME NEW w \in Workers, Attest(w)
      PROVE  StoredInv'
  <2>0. pc[w] = "wrote_public" /\ claimed[w] \in Jobs
    BY <1>0, <1>8 DEF Attest
  <2>1. /\ pc' = [pc EXCEPT ![w] = "attested"]
        /\ scratch' = [scratch EXCEPT ![w] = [scratch[w] EXCEPT
               !.internal = reports[claimed[w]].internal,
               !.public = reports[claimed[w]].public]]
        /\ attFile' = [attFile EXCEPT ![claimed[w]] = scratch[w].report.attempt]
        /\ UNCHANGED <<jobStatus, results, reports, claimed>>
    BY <1>8, ZenonT(60) DEF Attest
  <2>2. /\ scratch'[w].internal = reports[claimed[w]].internal
        /\ scratch'[w].public = reports[claimed[w]].public
        /\ scratch'[w].report = scratch[w].report
    BY <1>0, <2>0, <2>1 DEF Scratch
  <2>3. results[claimed[w]] = NoRow
    BY <2>0
  <2> QED
    BY <1>0, <2>0, <2>1, <2>2, <2>3
<1>9. ASSUME NEW w \in Workers, InsertResult(w)
      PROVE  StoredInv'
  <2>1. /\ pc[w] = "attested" /\ claimed[w] \in Jobs
        /\ results' = [results EXCEPT ![claimed[w]] = ResultOf(w)]
        /\ pc' = [pc EXCEPT ![w] = "inserted"]
        /\ UNCHANGED <<jobStatus, reports, attFile, claimed, scratch>>
    BY <1>0, <1>9 DEF InsertResult
  <2>2. /\ ResultOf(w).id = scratch[w].report.attempt
        /\ ResultOf(w).internal_digest = scratch[w].internal
        /\ ResultOf(w).public_digest = scratch[w].public
    BY DEF ResultOf
  <2> QED
    BY <1>0, <2>1, <2>2
<1>10. ASSUME NEW w \in Workers, Raise(w)
       PROVE  StoredInv'
  <2>1. /\ pc' = [pc EXCEPT ![w] = "raised"]
        /\ UNCHANGED <<jobStatus, results, reports, attFile, claimed, scratch>>
    BY <1>10 DEF Raise
  <2> QED
    BY <1>0, <2>1
<1>11. ASSUME NEW w \in Workers, FinishSucceeded(w) \/ FinishFailed(w) \/ Crash(w)
       PROVE  StoredInv'
  <2>1. /\ \/ jobStatus' = jobStatus
           \/ \E st \in {"succeeded", "failed"} :
                 jobStatus' = [jobStatus EXCEPT ![claimed[w]] = st]
        /\ pc' = [pc EXCEPT ![w] = "idle"]
        /\ claimed' = [claimed EXCEPT ![w] = NoRow]
        /\ \A v \in Workers : v # w => scratch'[v] = scratch[v]
        /\ UNCHANGED <<results, reports, attFile>>
    BY <1>0, <1>11 DEF FinishSucceeded, FinishFailed, FinishJob, Crash
  <2> QED
    BY <1>0, <2>1
<1>12. ~RequeueRunningJobs
  BY DEF RequeueRunningJobs, NeverRecovered
<1> QED
  BY <1>1, <1>2, <1>3, <1>4, <1>5, <1>6, <1>7, <1>8, <1>9, <1>10, <1>11, <1>12
  DEF Next, Enqueue, Claim, Proceed

\* The report files and the attestation of a job with a stored result are the
\* ones its row was signed for, whatever crashes, raises or is edited, as long
\* as recover-running is not called: a second evaluation of the job would
\* overwrite them.
THEOREM StoredResultsVerify ==
  {"recover", "recover_live"} \cap Faults = {} => (Spec => []StoredResultVerifies)
<1> SUFFICES ASSUME NeverRecovered
             PROVE  Spec => []StoredResultVerifies
  BY DEF NeverRecovered
<1>0. "recover_live" \notin Faults
  BY DEF NeverRecovered
<1>1. Init => StoredInv
  BY DEF Init, StoredInv, PublishedIsLeftAlone, AttestedMatchesFiles,
         StoredResultVerifies
<1>2. TypeInv /\ ClaimInv /\ [Next]_vars => ClaimInv'
  BY <1>0, StepClaimInv
<1>3. TypeInv /\ ClaimInv /\ StoredInv /\ [Next]_vars => StoredInv'
  BY StepStoredInv
<1>4. StoredInv => StoredResultVerifies
  BY DEF StoredInv
<1> QED
  BY <1>1, <1>2, <1>3, <1>4, InitClaimInv, TypeInvariant, PTL DEF Spec

----------------------------------------------------------------------------
(* Results come from what the manifest was signed for, while no bound file   *)
(* changes between the check of the digests and the use of the files        *)

\* The bound contents i agree with the manifest of job j on everything that the
\* worker verifies.
Signed(i, j) ==
    \A k \in {"spec", "store", "profile"} : i[k] = manifest[j].digest[k]

\* What the files that the job of worker w names hold now.
OnDisk(w) == Contents(manifest[claimed[w]].submission, manifest[claimed[w]].cycle)

\* What a worker loads differs from the files in the Runner only.
LEMMA LoadedFromDisk ==
  ASSUME NEW w \in Workers
  PROVE  \A k \in {"spec", "store", "profile"} : Loaded(w)[k] = OnDisk(w)[k]
  BY DEF Loaded, OnDisk, Contents

\* What a worker has verified still holds of the files when it loads them, and
\* of what it has loaded.
WorkerSigned ==
    \A w \in Workers :
        /\ pc[w] = "verified" => Signed(OnDisk(w), claimed[w])
        /\ pc[w] \in HasInputs => Signed(scratch[w].inputs, claimed[w])

\* Only a job that was enqueued has a result.
ResultHasManifest == \A j \in Jobs : results[j] # NoRow => manifest[j] # NoRow

SignedInv == WorkerSigned /\ ResultHasManifest /\ ResultComesFromTheSignedJob

\* Every step of a worker passes on what was verified, and every other step
\* leaves it alone.
LEMMA StepSignedInv ==
  ASSUME "edit_live" \notin Faults, TypeInv, SignedInv, [Next]_vars
  PROVE  SignedInv'
<1> USE DEF SignedInv, WorkerSigned, ResultHasManifest, GoTo, registryVars, jobVars,
            fileVars, workerVars, callVars
<1>0. /\ results \in [Jobs -> ResultRow \cup {NoRow}]
      /\ manifest \in [Jobs -> Manifest \cup {NoRow}]
      /\ scratch \in [Workers -> Scratch]
      /\ pc \in [Workers -> Stages] /\ claimed \in [Workers -> Jobs \cup {NoRow}]
      /\ \A w \in Workers : pc[w] # "idle" =>
            claimed[w] \in Jobs /\ manifest[claimed[w]] # NoRow
  BY DEF TypeInv, TypeOK, WorkerOK
<1> DEFINE \* What worker v has verified and loaded is what its job was signed for.
           Holds(v) == /\ pc[v] = "verified" => Signed(OnDisk(v), claimed[v])
                       /\ pc[v] \in HasInputs => Signed(scratch[v].inputs, claimed[v])
           Untouched(v) == UNCHANGED <<pc[v], claimed[v], scratch[v]>>
           Same == UNCHANGED <<disk, manifest, results, pc, claimed, scratch>>
<1>a. UNCHANGED <<disk, manifest>> =>
          \A v \in Workers : Untouched(v) => (Holds(v) => Holds(v)')
  BY DEF Signed, OnDisk, Contents
<1>b. UNCHANGED <<manifest, results>> => ResultHasManifest' /\ ResultComesFromTheSignedJob'
  BY DEF ResultComesFromTheSignedJob
<1>c. \A v \in Workers : Holds(v)
  OBVIOUS
<1>1. CASE Same
  BY <1>1, <1>a, <1>b, <1>c
<1>2. ASSUME \/ Register \/ RequeueRunningJobs \/ UNCHANGED vars
             \/ \E w \in Workers : Restart(w)
      PROVE  Same
  BY <1>2 DEF Register, RegisterSubmission, RegisterCycle, ReadCycleToActivate,
              ActivateCycle, RequeueRunningJobs, Restart, vars
<1>3. ASSUME NEW e \in Clients,
             (\E s \in Submissions : EnqueueReadSubmission(e, s)) \/ EnqueueInCycle(e)
      PROVE  Same
  BY <1>3 DEF EnqueueReadSubmission, EnqueueInCycle, EnqueueReadCycle, EnqueueRefuse
<1>4. ASSUME EditFile
      PROVE  SignedInv'
  <2>1. \A w \in Workers : pc[w] # "verified"
    BY <1>4 DEF EditFile, MayEdit
  <2>2. UNCHANGED <<manifest, results, pc, claimed, scratch>>
    BY <1>4 DEF EditFile
  <2>3. ASSUME NEW v \in Workers PROVE Holds(v)'
    BY <1>c, <2>1, <2>2 DEF Signed
  <2> QED
    BY <1>b, <2>2, <2>3
<1>5. ASSUME NEW e \in Clients, NEW j \in Jobs, NEW b \in Backends, CreateJob(e, j, b)
      PROVE  SignedInv'
  <2>1. manifest[j] = NoRow
    BY <1>5 DEF CreateJob, TypeInv, JobOK
  <2>2. /\ \A k \in Jobs : k # j => manifest'[k] = manifest[k]
        /\ UNCHANGED <<disk, results, pc, claimed, scratch>>
    BY <1>0, <1>5 DEF CreateJob
  <2>3. results[j] = NoRow
    BY <2>1
  <2>4. ASSUME NEW v \in Workers PROVE Holds(v)'
    <3>1. CASE pc[v] = "idle"
      BY <2>2, <3>1 DEF HasInputs
    <3>2. CASE pc[v] # "idle"
      <4>1. manifest'[claimed[v]] = manifest[claimed[v]]
        BY <1>0, <2>1, <2>2, <3>2
      <4> QED
        BY <1>c, <2>2, <4>1 DEF Signed, OnDisk, Contents
    <3> QED
      BY <3>1, <3>2
  <2>5. ResultHasManifest' /\ ResultComesFromTheSignedJob'
    BY <2>2, <2>3 DEF ResultComesFromTheSignedJob
  <2> QED
    BY <2>4, <2>5
<1>6. ASSUME NEW w \in Workers,
             \/ \E j \in Jobs, b \in Backends : ClaimJob(w, j, b)
             \/ FinishSucceeded(w) \/ FinishFailed(w) \/ Crash(w) \/ Raise(w)
      PROVE  SignedInv'
  <2>1. \E to \in {"idle", "claimed", "raised"} : pc' = [pc EXCEPT ![w] = to]
    BY <1>6 DEF ClaimJob, FinishSucceeded, FinishFailed, FinishJob, Crash, Raise
  <2>2. /\ \A v \in Workers : v # w => scratch'[v] = scratch[v] /\ claimed'[v] = claimed[v]
        /\ UNCHANGED <<disk, manifest, results>>
    BY <1>0, <1>6 DEF ClaimJob, FinishSucceeded, FinishFailed, FinishJob, Crash, Raise
  <2>3. Holds(w)'
    BY <1>0, <2>1 DEF HasInputs
  <2>4. \A v \in Workers : v # w => Untouched(v)
    BY <1>0, <2>1, <2>2
  <2> QED
    BY <1>a, <1>b, <1>c, <2>2, <2>3, <2>4
<1>7. ASSUME NEW w \in Workers, VerifyManifest(w)
      PROVE  SignedInv'
  <2>1. /\ Verified(claimed[w]) /\ pc' = [pc EXCEPT ![w] = "verified"]
        /\ \A v \in Workers : v # w => scratch'[v] = scratch[v]
        /\ UNCHANGED <<disk, manifest, results, claimed>>
    BY <1>0, <1>7, SMTT(60) DEF VerifyManifest
  <2>2. Signed(OnDisk(w), claimed[w])
    BY <2>1 DEF Verified, DigestsMatch, Signed, OnDisk
  <2>3. Holds(w)'
    BY <1>0, <2>1, <2>2 DEF HasInputs, Signed, OnDisk, Contents
  <2>4. \A v \in Workers : v # w => Untouched(v)
    BY <1>0, <2>1
  <2> QED
    BY <1>a, <1>b, <1>c, <2>1, <2>3, <2>4
<1>8. ASSUME NEW w \in Workers, LoadInputs(w)
      PROVE  SignedInv'
  <2>1. /\ pc[w] = "verified" /\ pc' = [pc EXCEPT ![w] = "loaded"]
        /\ scratch' = [scratch EXCEPT ![w] =
               [scratch[w] EXCEPT !.inputs = Loaded(w)]]
        /\ UNCHANGED <<disk, manifest, results, claimed>>
    BY <1>8 DEF LoadInputs
  <2>2. scratch'[w].inputs = Loaded(w)
    BY <1>0, <2>1 DEF Scratch
  <2>3. Signed(Loaded(w), claimed[w])
    BY <1>c, <2>1, LoadedFromDisk DEF Signed
  <2>4. Holds(w)'
    BY <1>0, <2>1, <2>2, <2>3 DEF Signed
  <2>5. \A v \in Workers : v # w => Untouched(v)
    BY <1>0, <2>1
  <2> QED
    BY <1>a, <1>b, <1>c, <2>1, <2>4, <2>5
<1>9. ASSUME NEW w \in Workers,
             \/ \E o \in Outcomes : Execute(w, o)
             \/ WriteInternal(w) \/ WritePublic(w) \/ Attest(w)
      PROVE  SignedInv'
  <2>1. /\ pc[w] \in HasInputs
        /\ \E to \in HasInputs : pc' = [pc EXCEPT ![w] = to]
        /\ UNCHANGED <<disk, manifest, results, claimed>>
    BY <1>9 DEF Execute, WriteInternal, WritePublic, WriteReport, Attest, HasInputs
  <2>2. \A v \in Workers : v # w => scratch'[v] = scratch[v]
    BY <1>0, <1>9 DEF Execute, WriteInternal, WritePublic, WriteReport, Attest
  <2>3. scratch'[w].inputs = scratch[w].inputs
    BY <1>0, <1>9 DEF Execute, WriteInternal, WritePublic, WriteReport, Attest, Scratch
  <2>4. Holds(w)'
    BY <1>0, <1>c, <2>1, <2>3 DEF HasInputs, Signed
  <2>5. \A v \in Workers : v # w => Untouched(v)
    BY <1>0, <2>1, <2>2
  <2> QED
    BY <1>a, <1>b, <1>c, <2>1, <2>4, <2>5
<1>10. ASSUME NEW w \in Workers, InsertResult(w)
       PROVE  SignedInv'
  <2>1. /\ pc[w] = "attested" /\ pc' = [pc EXCEPT ![w] = "inserted"]
        /\ results' = [results EXCEPT ![claimed[w]] = ResultOf(w)]
        /\ UNCHANGED <<disk, manifest, claimed, scratch>>
    BY <1>10 DEF InsertResult
  <2>2. ResultOf(w).inputs = scratch[w].inputs
    BY DEF ResultOf
  <2>3. claimed[w] \in Jobs /\ manifest[claimed[w]] # NoRow /\ pc[w] \in HasInputs
    BY <1>0, <2>1 DEF HasInputs
  <2>4. Signed(scratch[w].inputs, claimed[w])
    BY <1>c, <2>3
  <2>5. ResultHasManifest'
    BY <1>0, <2>1, <2>3
  <2>6. ResultComesFromTheSignedJob'
    BY <1>0, <2>1, <2>2, <2>3, <2>4 DEF ResultComesFromTheSignedJob, Signed
  <2>7. Holds(w)'
    BY <1>0, <2>1, <2>4 DEF Signed
  <2>8. \A v \in Workers : v # w => Untouched(v)
    BY <1>0, <2>1
  <2> QED
    BY <1>a, <1>c, <2>1, <2>5, <2>6, <2>7, <2>8
<1> QED
  BY <1>1, <1>2, <1>3, <1>4, <1>5, <1>6, <1>7, <1>8, <1>9, <1>10
  DEF Next, Enqueue, Claim, Proceed

\* A stored result was computed from the spec, store and Profile that the
\* manifest of its job was signed for, whatever is edited, registered again,
\* recovered or run twice, as long as no bound file changes between the check of
\* the digests and the use of the files.
THEOREM ResultsComeFromTheSignedJob ==
  "edit_live" \notin Faults => (Spec => []ResultComesFromTheSignedJob)
<1> SUFFICES ASSUME "edit_live" \notin Faults
             PROVE  Spec => []ResultComesFromTheSignedJob
  OBVIOUS
<1>1. Init => SignedInv
  BY DEF Init, SignedInv, WorkerSigned, ResultHasManifest, ResultComesFromTheSignedJob,
         HasInputs
<1>2. TypeInv /\ SignedInv /\ [Next]_vars => SignedInv'
  BY StepSignedInv
<1>3. SignedInv => ResultComesFromTheSignedJob
  BY DEF SignedInv
<1> QED
  BY <1>1, <1>2, <1>3, TypeInvariant, PTL DEF Spec

============================================================================
