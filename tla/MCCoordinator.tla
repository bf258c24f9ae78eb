---------------------------- MODULE MCCoordinator ----------------------------
(* Coordinator for TLC.  Polls among themselves, and calls that may or may   *)
(* not be cancelled alike, are interchangeable in the safety runs.           *)
EXTENDS Coordinator

TaskSymmetry == Permutations(Pollers) \cup Permutations(Calls)
=============================================================================
