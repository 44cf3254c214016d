------------------------------ MODULE WaitingLine -------------------------------
(***************************************************************************)
(* The line in which the threads of a partition wait for an object: by      *)
(* arrival, or by the priority that each had when it came.                 *)
(***************************************************************************)
EXTENDS Integers, SequencesExt

(* The line, with a thread at its end or behind those that it may not pass. *)
InLine(line, w, byPriority) ==
  LET ahead == IF byPriority
               THEN Len(SelectSeq(line, LAMBDA v : v.priority >= w.priority))
               ELSE Len(line)
  IN  InsertAt(line, ahead + 1, w)

Waits(line, t) == \E i \in DOMAIN line : line[i].thread = t
Left(line, t) == SelectSeq(line, LAMBDA w : w.thread # t)
Place(t, p) == [thread |-> t, priority |-> p]
================================================================================
