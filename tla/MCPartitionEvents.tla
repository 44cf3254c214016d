---------------------------- MODULE MCPartitionEvents ----------------------------
(* The instances of PartitionEvents that TLC checks.                       *)
EXTENDS PartitionEvents, TLC

Symmetry == Permutations(Ports) \union Permutations(Delayed)
================================================================================
