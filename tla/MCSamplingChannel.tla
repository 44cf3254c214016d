--------------------------- MODULE MCSamplingChannel ---------------------------
(* Two contents tell any two messages that are sent one after the other     *)
(* apart, and two words show a torn message.                               *)
EXTENDS SamplingChannel, TLC

Symmetry == Permutations(Messages)
================================================================================
