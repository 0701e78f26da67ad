------------------------------- MODULE Absent -------------------------------
(* What the code writes None: no value, no status, no event. *)
CONSTANT None
=============================================================================
