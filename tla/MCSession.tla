------------------------------ MODULE MCSession ------------------------------
(* TLC values of the constants of Session. *)
EXTENDS Session

TwoTypes == {"rooms", "run_state"}
=============================================================================
