---------------------------- MODULE CountingSemaphore ----------------------------
(***************************************************************************)
(* What the semaphores of libpok promise: a value that WAIT takes from when *)
(* it is positive, and a line of threads that SIGNAL serves, each by its     *)
(* arrival or by its priority when it came, before it adds to the value.   *)
(***************************************************************************)
EXTENDS WaitingLine

CONSTANTS Semaphores, Threads, Priorities, MaxValue

VARIABLES byPriority,  \* the queuing discipline, chosen when it is created
          value,       \* of each semaphore
          line         \* its waiting threads, with their priorities

vars == <<byPriority, value, line>>

Init ==
  /\ byPriority \in [Semaphores -> BOOLEAN]
  /\ value \in [Semaphores -> 0 .. MaxValue]
  /\ line = [s \in Semaphores |-> <<>>]

Take(s) ==
  /\ value[s] > 0
  /\ value' = [value EXCEPT ![s] = @ - 1]
  /\ UNCHANGED <<byPriority, line>>

Block(s, t, p) ==
  /\ value[s] = 0
  /\ line' = [line EXCEPT ![s] = InLine(@, Place(t, p), byPriority[s])]
  /\ UNCHANGED <<byPriority, value>>

Serve(s) ==
  /\ line[s] # <<>>
  /\ line' = [line EXCEPT ![s] = Tail(@)]
  /\ UNCHANGED <<byPriority, value>>

Add(s) ==
  /\ line[s] = <<>> /\ value[s] < MaxValue
  /\ value' = [value EXCEPT ![s] = @ + 1]
  /\ UNCHANGED <<byPriority, line>>

(* A thread gives up: its time is over, or it is stopped.                  *)
GiveUp(s, t) ==
  /\ Waits(line[s], t)
  /\ line' = [line EXCEPT ![s] = Left(@, t)]
  /\ UNCHANGED <<byPriority, value>>

Next ==
  \E s \in Semaphores :
    \/ Take(s) \/ Serve(s) \/ Add(s)
    \/ \E t \in Threads : GiveUp(s, t) \/ \E p \in Priorities : Block(s, t, p)

Spec == Init /\ [][Next]_vars
================================================================================
