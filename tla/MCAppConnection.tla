-------------------------- MODULE MCAppConnection --------------------------
(***************************************************************************)
(* One central, and a procedure with room for the timers it can lose.      *)
(***************************************************************************)
EXTENDS AppConnection
=============================================================================
