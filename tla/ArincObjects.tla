------------------------------ MODULE ArincObjects ------------------------------
(***************************************************************************)
(* What the ARINC-653 objects of a partition have in common (semaphores,     *)
(* buffers, blackboards and events: libpok/arinc653): an operation enters   *)
(* the critical section of its object, changes the object, perhaps waits    *)
(* there or lets others go on, and leaves.  Meanwhile threads sleep, are     *)
(* suspended, stopped and started again.                                   *)
(*                                                                         *)
(* The body of an operation is one step between two calls of the kernel: it  *)
(* reads and writes what its section protects.                             *)
(***************************************************************************)
EXTENDS Msection

CONSTANTS Messages,
          Capacity,  \* of a buffer: MAX_NB_MESSAGE
          MaxValue,  \* of a semaphore: MAXIMUM_VALUE
          Programs   \* the kinds of object, with the calls about threads that
                     \* a program may make together

ASSUME Capacity \in Nat \ {0} /\ MaxValue \in Nat

VARIABLES kind,        \* of the objects of this program
          calls,       \* what it may call
          byPriority,  \* the discipline of each object
          object,      \* the state of each object
          parcel       \* wq_buffer of each thread: the message that it waits to
                       \* send, or the place for the one it waits for
objects == <<kind, calls, byPriority, object, parcel>>
objVars == <<vars, library, objects>>

Keep == UNCHANGED objects
KeepBut == UNCHANGED <<kind, calls, byPriority>>

(* An operation changes its object, in its section.                        *)
Change(t, new) == object' = [object EXCEPT ![using[t]] = new]

Body(t, new) ==
  /\ Step(t, "body", "release") /\ Change(t, new)
  /\ UNCHANGED <<shared, using, queue, parcel>> /\ KeepBut

--------------------------------------------------------------------------------
(* What the operation needs is not there: it fails, or waits.              *)
NotAvailable(t) ==
  /\ Step(t, "body", "release")
  /\ UNCHANGED <<shared, using, queue>> /\ Keep

Block(t, discipline, message) ==
  /\ Step(t, "body", "wait")
  /\ queue' = AddToQueue(using[t], t, discipline)
  /\ parcel' = [parcel EXCEPT ![t] = message]
  /\ UNCHANGED <<shared, using, object>> /\ KeepBut

BlockWaits(t, timed) ==
  WaitDenied(t) \/ WaitCancelled(t) \/ ((timed => "timeout" \in calls) /\ Wait(t, timed))

(* The thread is back: it was notified and is out of the queue, or it       *)
(* leaves it.                                                              *)
LeavesQueue(t) == pc[t] = "denied" \/ waitResult[t] # "ok"

Back(t) ==
  /\ ~disabled /\ current = t
  /\ GoTo(t, IF pc[t] = "denied" THEN "denied" ELSE "result", "release")
  /\ queue' = IF LeavesQueue(t) THEN WqDel(queue, using[t], t) ELSE queue
  /\ waitResult' = [waitResult EXCEPT ![t] = "ok"]    \* it is not read again
  /\ parcel' = [parcel EXCEPT ![t] = None]            \* nor is this
  /\ UNCHANGED <<state, suspended, priority, delayed, entering, eligible, stops, lock, choice,
                 recheck, disabled, shared, using, object>> /\ KeepBut

(* The first thread of the queue has been awoken: it leaves the queue.      *)
FirstOut(t) == WqDel(queue, using[t], queue.first[using[t]])
FirstIn(t) == queue.first[using[t]]

(* The status of an object counts its waiting threads.                     *)
Status(t) == Size(t) /\ Keep

--------------------------------------------------------------------------------
(* Calls about threads, outside of any section.                            *)
InQueue(t) == state[t] = "waiting" /\ entering[t] # None

ThreadCall(t) ==
  /\ pc[t] = "idle" /\ Keep
  /\ \/ "sleep" \in calls /\ Sleep(t) /\ (delayed'[t] = "none" => "forever" \in calls)
     \/ "lock" \in calls /\ (Lock(t) \/ Unlock(t))
     \/ \E u \in Threads :
          \/ "stop" \in calls /\ (InQueue(u) => "timeout" \in calls) /\ Stop(t, u)
          \/ "stop" \in calls /\ Start(t, u, FALSE)
          \/ "priority" \in calls /\ \E p \in Priorities : SetPriority(t, u, p)
          \/ "suspend" \in calls /\ (Suspend(t, u) \/ Resume(t, u))
  /\ GoOut(Stopped) /\ UNCHANGED queue

(* Events, and the end of sched_arinc.                                     *)
Event == Interrupt /\ Keep /\ UNCHANGED library

SelectNext == Select /\ Keep /\ UNCHANGED library

ExpireNext(t) == (InQueue(t) => "timeout" \in calls) /\ Expire(t) /\ Keep /\ UNCHANGED library

Operate(t) ==
  /\ \/ \E s \in Sections : Enter(t, s)
     \/ EnterStep(t) \/ LeaveStep(t)
     \/ \E timed \in BOOLEAN : BlockWaits(t, timed)
  /\ Keep

ObjectStep(t) == Operate(t) \/ Back(t) \/ Status(t) \/ ThreadCall(t) \/ ExpireNext(t)

(* The threads that wait for an object, in the order of its queue.          *)
line ==
  [s \in Sections |->
    LET q == SelectSeq(Queued(s), LAMBDA t : Waiting(t) \/ pc[t] = "wait")
    IN  [i \in DOMAIN q |-> [thread |-> q[i],
                             priority |-> IF byPriority[s] THEN queue.priority[q[i]] ELSE 0]]]
================================================================================
