---------------------------- MODULE MCModuleScheduler ----------------------------
(* A frame of three windows: two of one partition, the second of which does *)
(* not release its periodic processes, around one of the other.            *)
EXTENDS ModuleScheduler

CONSTANTS P1, P2

MCTable == << [duration |-> 2, partition |-> P1, start |-> TRUE],
              [duration |-> 3, partition |-> P2, start |-> TRUE],
              [duration |-> 2, partition |-> P1, start |-> FALSE] >>
================================================================================
