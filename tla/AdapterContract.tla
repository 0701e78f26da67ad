-------------------------- MODULE AdapterContract --------------------------
(***************************************************************************)
(* The evidence a run of the Runner carries about its Agent's lifecycle,   *)
(* and the checks every reader of the run makes of it                      *)
(* (adapter_contract.py).  Pure operators.                                 *)
(*                                                                         *)
(* Left out: the digest over the evidence and the cost snapshots.  A       *)
(* receipt's sequence number is its place in the sequence.                 *)
(***************************************************************************)
EXTENDS Integers, Sequences, FiniteSets

CONSTANT NoDescriptor   \* describe failed, or did not answer with an object

\* The operations whose answer must acknowledge that they were carried out.
Acknowledged == {"reset", "observe", "maintain", "session_boundary", "restore"}

\* required_capabilities: what a scenario needs its Agent to declare, from what
\* it states itself, the deliveries of its probes and the events it shows.
RequiredCapabilities(stated, timeline, probes) ==
    LET Asks(delivery) == \E i \in DOMAIN probes : probes[i].delivery = delivery
        Shown == {timeline[i].type : i \in {k \in DOMAIN timeline : timeline[k].visible}}
    IN  {IF c = "tools" THEN "runner_managed_tools" ELSE c : c \in stated}
        \cup {c \in {"respond", "act"} : Asks(c)}
        \cup {c \in {"spontaneous_emissions"} : Asks("observe_only")}
        \cup {c \in {"act", "runner_managed_tools"} : "task" \in Shown}
        \cup {c \in {"observe"} : Shown \ {"task", "harness"} # {}}
        \cup {c \in {"session_boundary"} : c \in Shown}

\* check_descriptor: the protocol is ours and every required capability is
\* declared true, in so many words.
DescriptorAccepted(descriptor, required) ==
    /\ descriptor # NoDescriptor
    /\ descriptor.protocol
    /\ \A c \in required :
          c \in DOMAIN descriptor.capabilities /\ descriptor.capabilities[c]

Declares(descriptor, c, value) ==
    /\ descriptor # NoDescriptor
    /\ c \in DOMAIN descriptor.capabilities
    /\ descriptor.capabilities[c] = value

Failed(receipts) == \E i \in DOMAIN receipts : receipts[i].outcome = "failure"

\* The planned and the reported (probe, weight) rows, in any order.
SameDenominator(actual, scheduled) ==
    LET Times(row, rows) ==
            Cardinality({i \in DOMAIN rows : /\ rows[i].probe = row.probe
                                             /\ rows[i].weight = row.weight})
    IN  /\ Len(actual) = Len(scheduled)
        /\ \A i \in DOMAIN scheduled :
              Times(scheduled[i], actual) = Times(scheduled[i], scheduled)

ExecutionFailed(rows) == \E i \in DOMAIN rows : rows[i].outcome = "execution_failure"

\* The status a run without a lifecycle failure must have.
StatusOf(rows) == IF ExecutionFailed(rows) THEN "failed" ELSE "succeeded"

\* Each error verify_run_contract may report of a run, and whether it does.
ContractErrors(run, required) ==
    LET r == run.receipts
        n == Len(r)
        failed == Failed(r)
    IN  [acceptance |-> \E i \in 1..n : /\ r[i].operation \in Acknowledged
                                        /\ r[i].outcome = "success"
                                        /\ ~r[i].accepted,
         skip |-> \E i \in 1..n : /\ r[i].outcome = "skipped"
                                  /\ \/ r[i].operation # "maintain"
                                     \/ ~Declares(run.descriptor, "maintenance", FALSE),
         describe_first |-> r[1].operation # "describe",
         close_last |-> required /\ r[n].operation # "close",
         validity |-> run.valid = failed,
         capabilities |-> ~failed /\ ~DescriptorAccepted(run.descriptor, run.required),
         describe_outcome |-> ~failed /\ r[1].outcome # "success",
         reset_second |-> ~failed /\ (\/ n < 2
                                      \/ r[2].operation # "reset"
                                      \/ r[2].outcome # "success"),
         close_outcome |-> ~failed /\ required /\ r[n].outcome # "success",
         runner_valid |-> run.runner_valid = failed,
         denominator |-> ~SameDenominator(run.rows, run.scheduled),
         invalidation |-> failed /\ (\/ run.status # "invalid"
                                     \/ \E i \in DOMAIN run.rows :
                                           \/ run.rows[i].outcome # "execution_failure"
                                           \/ run.rows[i].score # 0),
         status |-> ~failed /\ run.status # StatusOf(run.rows)]

VerifyRunContract(run, required) ==
    IF run.receipts = <<>> THEN {"missing_evidence"}
    ELSE LET errors == ContractErrors(run, required)
         IN  {e \in DOMAIN errors : errors[e]}

============================================================================
