------------------------------ MODULE MCRunner ------------------------------
(***************************************************************************)
(* A scenario for model-checking Runner: an observation, a maintenance     *)
(* window, a session boundary, a lived task and an update of the harness,  *)
(* with a probe of every delivery, and the kinds of condition it is run in.*)
(***************************************************************************)
EXTENDS Runner

Event(id, type, visible, n) ==
    [id |-> id, type |-> type, visible |-> visible, sequence |-> n,
     updates |-> IF type = "harness" \/ id = "fact" THEN <<id>> ELSE <<>>,
     anchor |-> "base"]

Inject(id, anchor, n) ==
    [id |-> id, type |-> "observation", visible |-> TRUE, sequence |-> n,
     updates |-> <<>>, anchor |-> anchor]

Ask(id, delivery, after, conditional_on) ==
    [id |-> id, delivery |-> delivery, after |-> after, conditional_on |-> conditional_on]

MCTimeline == <<Event("fact", "observation", TRUE, 10),
                Event("upkeep", "maintenance_window", TRUE, 15),
                Event("boundary", "session_boundary", TRUE, 20),
                Event("trial", "task", TRUE, 30),
                Event("update", "harness", FALSE, 40)>>
MCProbes == <<Ask("recall", "respond", "update", {}),
              Ask("remind", "observe_only", "boundary", {"do"}),
              Ask("do", "act", "update", {"recall"})>>

AllProbes(probes) == {probes[i].id : i \in DOMAIN probes}

Full(probes) ==
    [removed |-> {}, policyUpdates |-> <<>>, injections |-> <<>>, past |-> {},
     before |-> {}, executed |-> AllProbes(probes), scored |-> AllProbes(probes),
     isolation |-> "acknowledged", closes |-> TRUE]

Sessions(c) == [c EXCEPT !.isolation = "persisted_state"]
PolicyTwin(c) == [c EXCEPT !.policyUpdates = [e \in {"fact"} |-> <<"twin">>]]
\* The evidence is replaced.
Harmful(c) == [c EXCEPT !.injections = <<Inject("anchored", "fact", 0),
                                         Inject("floating", "none", 15)>>,
                        !.removed = {"fact"}, !.scored = {"recall"}]
Diagnostic(c) == [c EXCEPT !.removed = {"fact"}, !.past = {"fact"}, !.before = {"recall"},
                           !.executed = {"recall"}, !.scored = {"recall"},
                           !.closes = FALSE]

Declared(caps, maintenance) ==
    [protocol |-> TRUE,
     capabilities |-> [c \in caps |-> TRUE] @@ maintenance]

\* The twin is the full condition but for one more update of the world.
MCConditions == {PolicyTwin(Sessions(Full(MCProbes))), Harmful(Full(MCProbes)),
                 Diagnostic(Sessions(Full(MCProbes)))}
Needed == RequiredCapabilities({}, MCTimeline, MCProbes)
MCDescriptors == {Declared(Needed, "maintenance" :> v) : v \in BOOLEAN}
                  \cup {Declared(Needed, <<>>), Declared(Needed \ {"session_boundary"}, <<>>)}

============================================================================
