-------------------------- MODULE MCSameModelAgent --------------------------
(* One experiment cell per memory condition and client, over two runs. *)
EXTENDS SameModelAgent

============================================================================
