------------------------------ MODULE DelayedQueue ------------------------------
(***************************************************************************)
(* What a queue of delayed events promises (kernel/include/core/           *)
(* delayed_event.h): events leave it in the order of their times, those     *)
(* with equal times in the order in which they were added, and a check      *)
(* lets out every event whose time has come.                               *)
(***************************************************************************)
EXTENDS Naturals, Sequences

CONSTANTS Events, Times

VARIABLES queue,    \* the events that wait, with their times
          checking, \* the time of the check in progress, or 0
          fired     \* the events that the check in progress let out

vars == <<queue, checking, fired>>

Init == queue = <<>> /\ checking = 0 /\ fired = <<>>

Without(e) ==
  IF \E i \in DOMAIN queue : queue[i].event = e
  THEN LET i == CHOOSE i \in DOMAIN queue : queue[i].event = e
       IN  SubSeq(queue, 1, i - 1) \o SubSeq(queue, i + 1, Len(queue))
  ELSE queue

(* Behind those whose time is not later, before the others.               *)
Add(e, t) ==
  LET rest == Without(e) IN
  \E k \in 0 .. Len(rest) :
    /\ \A i \in DOMAIN rest : i <= k <=> rest[i].time <= t
    /\ queue' = SubSeq(rest, 1, k) \o <<[event |-> e, time |-> t]>> \o SubSeq(rest, k + 1, Len(rest))
    /\ UNCHANGED <<checking, fired>>

Remove(e) == queue' = Without(e) /\ UNCHANGED <<checking, fired>>

Start(t) == checking = 0 /\ checking' = t /\ UNCHANGED <<queue, fired>>

Fire ==
  /\ queue # <<>> /\ Head(queue).time <= checking
  /\ queue' = Tail(queue)
  /\ fired' = Append(fired, Head(queue).event)
  /\ UNCHANGED checking

Finish ==
  /\ checking # 0
  /\ \A i \in DOMAIN queue : queue[i].time > checking
  /\ checking' = 0 /\ fired' = <<>>
  /\ UNCHANGED queue

Next ==
  \/ \E e \in Events, t \in Times : Add(e, t)
  \/ \E e \in Events : Remove(e)
  \/ \E t \in Times : Start(t)
  \/ Fire \/ Finish

Spec == Init /\ [][Next]_vars
================================================================================
