------------------------- MODULE MC_GatewayServing -------------------------
(* Instances of GatewayServing for TLC. *)
EXTENDS GatewayServing, TLC

Symmetry == Permutations(Owners) \cup Permutations(Servers)
            \cup Permutations(Sessions) \cup Permutations(Connections)
=============================================================================
