----------------------------- MODULE MCMainTask -----------------------------
(* MainTask with the timeouts of constants.rs and short intervals. *)
EXTENDS MainTask
=============================================================================
