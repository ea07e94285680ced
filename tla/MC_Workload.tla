----------------------------- MODULE MC_Workload -----------------------------
(* Instances of Workload: two long requests and two backends that are       *)
(* interchangeable.                                                         *)
EXTENDS Workload, TLC

BackendSymmetry == Permutations(Backends)
=============================================================================
