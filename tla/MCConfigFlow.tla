---------------------------- MODULE MCConfigFlow ----------------------------
(* TLC values of the constants of ConfigFlow. *)
EXTENDS ConfigFlow, TLC

FlowSymmetry == Permutations(Flows)
HostSymmetry == Permutations(Hosts)
GatewaySymmetry == Permutations(Gateways)
Symmetry == FlowSymmetry \cup HostSymmetry \cup GatewaySymmetry
=============================================================================
