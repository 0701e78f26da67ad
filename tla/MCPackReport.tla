----------------------------- MODULE MCPackReport ----------------------------
(* Two Templates over three Dimensions, two rungs, two repetitions. *)
EXTENDS PackReport

MCTemplates ==
    <<[dims |-> {"recall", "causal"},
       weights |-> [recall |-> 1, time |-> 0, causal |-> 1],
       probes |-> [p |-> [weight |-> 1, dims |-> {"recall"}], q |-> [weight |-> 2, dims |-> {}]],
       ablations |-> [one |-> "relevant", two |-> "relevant", other |-> "irrelevant",
                      injected |-> "harmful", twin |-> "twin"],
       reference |-> [injected |-> "other"], tolerance |-> Q(1, 10), needs |-> {}],
      [dims |-> {"recall", "time"}, weights |-> [recall |-> 2, time |-> 1, causal |-> 0],
       probes |-> [p |-> [weight |-> 1, dims |-> {"time"}]],
       ablations |-> [none |-> "no_memory", twin |-> "twin", idle |-> "no_maintenance"],
       reference |-> <<>>, tolerance |-> Zero, needs |-> {"tools"}]>>
MCProfile ==
    [dims |-> [recall |-> 2, time |-> 1, causal |-> 0], canonical |-> 1,
     minInstances |-> 1, floor |-> Q(1, 5), maxFailures |-> Q(1, 20), minUnits |-> 1]
Evaluation(agent, capable, bootstrap, aliases, ablate) ==
    [agent |-> agent, capable |-> capable, bootstrap |-> bootstrap, aliases |-> aliases,
     ablate |-> ablate, official |-> TRUE]
MCConfigs ==
    {Evaluation("remembers", {"tools", "maintenance"}, TRUE, <<3, 4>>, TRUE),
     Evaluation("remembers", {"tools"}, FALSE, <<2, 1>>, TRUE),
     Evaluation("blind", {"tools", "maintenance"}, FALSE, <<1, 2>>, TRUE),
     Evaluation("useless", {"tools"}, FALSE, <<1, 2>>, TRUE),
     Evaluation("uneven", {"tools"}, TRUE, <<3, 4>>, TRUE),
     Evaluation("remembers", {}, TRUE, <<1, 2>>, TRUE),
     Evaluation("remembers", {"tools"}, FALSE, <<1, 2>>, FALSE)}

=============================================================================
