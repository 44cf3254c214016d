---------------------------- MODULE MCQueuingChannel ----------------------------
(* Two message contents are enough to tell any two neighbours of a queue    *)
(* apart; they are interchangeable.                                        *)
EXTENDS QueuingChannel, TLC

Symmetry == Permutations(Messages)
================================================================================
