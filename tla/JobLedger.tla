----------------------------- MODULE JobLedger -----------------------------
(***************************************************************************)
(* What the job queue of the evaluation service promises: a job is         *)
(* evaluated once, publishes at most one result, and ends as succeeded     *)
(* exactly when it published one.  EvaluationService implements it as long *)
(* as nothing is recovered and no worker's database call fails; with       *)
(* recovery a job whose result was committed may be evaluated again and    *)
(* end as failed.                                                          *)
(***************************************************************************)
CONSTANT Jobs

VARIABLES
    status,      \* where each job is
    published    \* the jobs that have a result

ledger == <<status, published>>

Statuses == {"none", "queued", "running", "succeeded", "failed"}

Init ==
    /\ status = [j \in Jobs |-> "none"]
    /\ published = {}

Move(j, from, to) ==
    /\ status[j] = from
    /\ status' = [status EXCEPT ![j] = to]

Submit(j) == Move(j, "none", "queued") /\ UNCHANGED published
Start(j) == Move(j, "queued", "running") /\ UNCHANGED published

Publish(j) ==
    /\ status[j] = "running"
    /\ j \notin published
    /\ published' = published \cup {j}
    /\ UNCHANGED status

Succeed(j) ==
    /\ j \in published
    /\ Move(j, "running", "succeeded")
    /\ UNCHANGED published

Fail(j) ==
    /\ j \notin published
    /\ Move(j, "running", "failed")
    /\ UNCHANGED published

Next ==
    \E j \in Jobs : Submit(j) \/ Start(j) \/ Publish(j) \/ Succeed(j) \/ Fail(j)

Spec == Init /\ [][Next]_ledger

============================================================================
