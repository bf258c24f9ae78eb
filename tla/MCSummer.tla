------------------------------ MODULE MCSummer ------------------------------
(* TLC values of the constants of Summer. *)
EXTENDS Summer
=============================================================================
