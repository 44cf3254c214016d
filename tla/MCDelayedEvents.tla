----------------------------- MODULE MCDelayedEvents -----------------------------
(* The delayed events of a partition are interchangeable.                  *)
EXTENDS DelayedEvents, TLC

Symmetry == Permutations(DelayedEvent)
================================================================================
