-------------------------- MODULE MCTelemetryCache --------------------------
(* TLC values of the constants of Entities and TelemetryCache. *)
EXTENDS Entities

CONSTANTS spot, comfoAir
=============================================================================
