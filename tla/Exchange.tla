------------------------------ MODULE Exchange ------------------------------
(***************************************************************************)
(* What a caller of an Agent or of a model may rely on, whatever carries   *)
(* its calls: one call at a time, and each of them comes back, with the    *)
(* answer to that very call or as a failure.                               *)
(***************************************************************************)
VARIABLES
    asking,    \* a call is out
    got        \* what the last call brought: "nothing", its "own" answer, "failure"

Init == ~asking /\ got = "nothing"

Ask == ~asking /\ asking' = TRUE /\ got' = "nothing"

Return == asking /\ asking' = FALSE /\ got' \in {"own", "failure"}

\* A call that fails before it is sent, or that has nothing to ask.
AtOnce == ~asking /\ asking' = FALSE /\ got' \in {"nothing", "failure"}

Next == Ask \/ Return \/ AtOnce

exchange == <<asking, got>>

\* What may happen, and that a call comes back.
Safe == Init /\ [][Next]_exchange
Spec == Safe /\ WF_exchange(Return)

============================================================================
