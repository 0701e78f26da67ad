-------------------------- MODULE MCAgentTransport --------------------------
(* Two runs of two observations each. *)
EXTENDS AgentTransport

MCRuns == <<"run_a", "run_b">>
MCRequestIds == <<"1", "2">>

============================================================================
