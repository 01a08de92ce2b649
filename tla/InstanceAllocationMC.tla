------------------------ MODULE InstanceAllocationMC ------------------------
(***************************************************************************)
(* InstanceAllocation for TLC.  Instances and hosts are interchangeable;   *)
(* runs of safety properties use that.                                     *)
(***************************************************************************)
EXTENDS InstanceAllocation, TLC

Symmetry == Permutations(Instances) \cup Permutations(Hosts)
=============================================================================
