------------------------ MODULE MC_ContainerRuntime ------------------------
(* Instances of ContainerRuntime for TLC. *)
EXTENDS ContainerRuntime, TLC

RunSymmetry == Permutations(Runs)
=============================================================================
