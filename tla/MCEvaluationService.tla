------------------------ MODULE MCEvaluationService ------------------------
(***************************************************************************)
(* Constants for model-checking EvaluationService: two Profiles of two     *)
(* families, and scores that may or may not be ranked.                     *)
(***************************************************************************)
EXTENDS EvaluationService, TLC

CONSTANTS core, transfer, r1, r2, high, low, void

Core1 == [id |-> core, version |-> 1, rev |-> 1, track |-> "integrated_agent"]
Transfer1 == [id |-> transfer, version |-> 1, rev |-> 1, track |-> "integrated_agent"]

MCProfileIds == {core, transfer}
MCFamilyOf == core :> "core" @@ transfer :> "transfer_diagnostic"
MCRevs == {r1, r2}
OneRev == {r1}
MCOutcomes == {high, void}
OneOutcome == {high}
TwoScores == {high, low}

TwoDocs == {Core1, Transfer1}
OneDoc == {Core1}

HostedTracks == {"integrated_agent", "memory_system"}
Local == {"local_namespace"}
LocalAndOci == {"local_namespace", "oci_command"}

MCInitialDisk ==
    [spec |-> [s \in Submissions |-> r1],
     store |-> [c \in Cycles |-> r1],
     profile |-> [c \in Cycles |-> Core1],
     scenario_schema |-> r1, report_schema |-> r1, runner |-> r1]

\* Jobs, workers and cycles are interchangeable; so are submissions, where there are two.
Symmetry == Permutations(Jobs) \cup Permutations(Workers) \cup Permutations(Cycles)
AllSymmetry == Symmetry \cup Permutations(Submissions)

============================================================================
