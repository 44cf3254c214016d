------------------------------- MODULE NoticeBoard -------------------------------
(***************************************************************************)
(* What the blackboards and the events of libpok promise: a notice is up or  *)
(* not; a thread waits only while none is, and the next one that is put up   *)
(* is given to all those that wait, even if it is taken down before they    *)
(* run.  For an event, the notice says only that it has been set.          *)
(***************************************************************************)

CONSTANTS Boards, Threads, Notices, None

VARIABLES notice,   \* of each board, or None
          waiters,  \* the threads that wait there
          blocked,  \* those that wait, or have waited and are not back yet
          hand      \* the notice that a thread which waited has been given

vars == <<notice, waiters, blocked, hand>>

Init ==
  /\ notice = [b \in Boards |-> None] /\ waiters = [b \in Boards |-> {}]
  /\ blocked = {} /\ hand = [t \in Threads |-> None]

PutUp(b, n) ==
  /\ notice' = [notice EXCEPT ![b] = n] /\ waiters' = [waiters EXCEPT ![b] = {}]
  /\ hand' = [t \in Threads |-> IF t \in waiters[b] THEN n ELSE hand[t]]
  /\ UNCHANGED blocked

TakeDown(b) ==
  /\ notice[b] # None /\ notice' = [notice EXCEPT ![b] = None]
  /\ UNCHANGED <<waiters, blocked, hand>>

Wait(b, t) ==
  /\ notice[b] = None
  /\ t \notin blocked /\ blocked' = blocked \union {t}
  /\ waiters' = [waiters EXCEPT ![b] = @ \union {t}]
  /\ UNCHANGED <<notice, hand>>

GiveUp(b, t) ==
  /\ t \in waiters[b]
  /\ waiters' = [waiters EXCEPT ![b] = @ \ {t}]
  /\ UNCHANGED <<notice, blocked, hand>>

Finish(t) ==
  /\ \A b \in Boards : t \notin waiters[b]
  /\ t \in blocked /\ blocked' = blocked \ {t}
  /\ hand' = [hand EXCEPT ![t] = None]
  /\ UNCHANGED <<notice, waiters>>

Next ==
  \/ \E b \in Boards :
       \/ TakeDown(b) \/ \E n \in Notices : PutUp(b, n)
       \/ \E t \in Threads : Wait(b, t) \/ GiveUp(b, t)
  \/ \E t \in Threads : Finish(t)

Spec == Init /\ [][Next]_vars
================================================================================
