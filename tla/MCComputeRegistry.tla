-------------------------- MODULE MCComputeRegistry --------------------------
(***************************************************************************)
(* Instances of ComputeRegistry.                                           *)
(***************************************************************************)
EXTENDS ComputeRegistry, TLC

AllFaults == FaultKinds
NoFaults == {}

Symmetry == Permutations(Engines) \cup Permutations(Runs)
=============================================================================
