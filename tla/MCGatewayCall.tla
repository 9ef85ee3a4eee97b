----------------------------- MODULE MCGatewayCall -----------------------------
(* Bounds of GatewayCall for TLC. *)
EXTENDS GatewayCall, TLC

CallSymmetry == Permutations(Calls)
=============================================================================
