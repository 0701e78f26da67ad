----------------------------- MODULE MCScenario -----------------------------
(* Scenarios for TLC. *)
EXTENDS Scenario, TLC

Of_(programs, branches, sessions, isolations, agents) ==
    [program : programs, branch : branches, session : sessions, isolation : isolations, agent : agents]
AllPrograms == {"recall", "temporal", "epistemic", "forgetting", "relearning", "bitemporal",
                "authority", "prospective", "cancelled", "experience", "skill"}
Branching == {"temporal", "epistemic", "authority", "prospective", "cancelled", "experience", "skill"}
Perfect ==
    Of_(AllPrograms \ Branching, {FALSE}, {TRUE}, {"persisted_state"}, {"structured"})
    \cup Of_(Branching, BOOLEAN, {TRUE}, {"persisted_state"}, {"structured"})
Habitual ==
    Of_({"skill"}, BOOLEAN, {TRUE}, {"persisted_state"}, {"overgeneralizing"})
    \cup Of_({"recall", "temporal", "epistemic"}, {FALSE}, {TRUE}, {"acknowledged"}, {"recency"})
Forgetful ==
    Of_(AllPrograms \ Branching, {FALSE}, {FALSE}, {"acknowledged"}, MemoryFree)
    \cup Of_(Branching, BOOLEAN, {FALSE}, {"acknowledged"}, MemoryFree)
Consolidating ==
    Of_({"recall", "temporal", "epistemic", "forgetting"}, {FALSE}, {TRUE},
        {"acknowledged", "persisted_state"}, {"consolidating"})
Every == Perfect \cup Habitual \cup Forgetful \cup Consolidating
=============================================================================
