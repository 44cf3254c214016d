--------------------------------- MODULE Msection --------------------------------
(***************************************************************************)
(* Critical sections in the memory of a partition: libpok/core/msection.c   *)
(* and the second half of kernel/core/thread.c.                            *)
(*                                                                         *)
(* A thread enters a free section, and leaves one, without the kernel, in a *)
(* few accesses to shared memory between which it can be preempted; each    *)
(* access is a step here.  The kernel finishes an interrupted entry for the *)
(* thread when it selects it again, and lets the owner of a busy section    *)
(* run in the place of a thread that wants to enter.  A thread may wait in   *)
(* a section, which it then leaves, in a wait queue that the library and    *)
(* the kernel both change.                                                 *)
(***************************************************************************)
EXTENDS Threads

VARIABLES
  pc,      \* where each thread is in the library
  using,   \* the section of its operation
  queue    \* the wait queue of each section, linked through the threads

kernel == <<state, suspended, priority, delayed, waitResult, entering, eligible, stops, lock,
            choice, recheck, disabled>>
library == <<pc, using, queue>>

(* In the body of an operation, in a call of the kernel, or after one.      *)
Inside == {"body", "wait", "denied", "woken", "nobody", "refill", "release"}

(* The partition is in the mode NORMAL, and its processes are ready.        *)
AllReady ==
  /\ mode = "normal" /\ created = Threads /\ handler = None /\ errors = <<>>
  /\ state = [t \in Threads |-> "runnable"] /\ priority = BasePriority
  /\ suspended = [t \in Threads |-> FALSE] /\ delayed = [t \in Threads |-> "none"]
  /\ waitResult = [t \in Threads |-> "ok"] /\ entering = [t \in Threads |-> None]
  /\ \E q \in SetToSeqs(Threads) : eligible = ReadyAll(<<>>, q)
  /\ donateTarget = [t \in Threads |-> None]
  /\ firstDonator = [t \in Threads |-> None] /\ nextDonator = [t \in Threads |-> None]
  /\ lockLevel = 0 /\ locked = None
  /\ current = None /\ selected = None /\ waitingSection = None /\ isErrorHandler = FALSE
  /\ recheck = TRUE /\ disabled = TRUE

(* msection_init, msection_wq_init.                                        *)
LibraryInit ==
  /\ AllReady
  /\ owner = [s \in Sections |-> None] /\ reschedAfterLeave = [s \in Sections |-> FALSE]
  /\ msectionCount = [t \in Threads |-> 0] /\ killed = [t \in Threads |-> FALSE]
  /\ userEntering = [t \in Threads |-> None]
  /\ pc = [t \in Threads |-> "idle"]
  /\ using = [t \in Threads |-> None]
  /\ queue = [first |-> [s \in Sections |-> None], last |-> [s \in Sections |-> None],
              next |-> [t \in Threads |-> None], prev |-> [t \in Threads |-> None],
              priority |-> [t \in Threads |-> None]]

GoTo(t, from, to) == pc[t] = from /\ pc' = [pc EXCEPT ![t] = to]

(* A step of the thread that runs, outside of the kernel.                  *)
Step(t, from, to) == ~disabled /\ current = t /\ GoTo(t, from, to) /\ UNCHANGED kernel

--------------------------------------------------------------------------------
(* msection_enter.                                                         *)
Enter(t, s) ==
  /\ Step(t, "idle", "announce")
  /\ using' = [using EXCEPT ![t] = s]
  /\ msectionCount' = [msectionCount EXCEPT ![t] = @ + 1]
  /\ UNCHANGED <<owner, reschedAfterLeave, userEntering, killed, queue>>

NotAnnounced(t) == None            \* mutant: the kernel is not told
Announced(t) == using[t]

Announce(t) ==
  /\ Step(t, "announce", "test")
  /\ userEntering' = [userEntering EXCEPT ![t] = Announced(t)]
  /\ UNCHANGED <<owner, reschedAfterLeave, msectionCount, killed, using, queue>>

(* The two tests of the owner, which the compiler may do with one load; the  *)
(* kernel looks at it again.                                               *)
Test(t) ==
  /\ Step(t, "test", CASE owner[using[t]] = None -> "claim"
                       [] owner[using[t]] = t -> "entered"
                       [] OTHER -> "help")
  /\ UNCHANGED <<shared, using, queue>>

Claim(t) ==
  /\ Step(t, "claim", "entered")
  /\ owner' = [owner EXCEPT ![using[t]] = t]
  /\ UNCHANGED <<reschedAfterLeave, msectionCount, userEntering, killed, using, queue>>

StillAnnounced(t) == using[t]      \* mutant: the mark is not cleared
Unannounced(t) == None

Entered(t) ==
  /\ Step(t, "entered", "body")
  /\ userEntering' = [userEntering EXCEPT ![t] = Unannounced(t)]
  /\ UNCHANGED <<owner, reschedAfterLeave, msectionCount, killed, using, queue>>

(* jet_msection_enter_helper.                                              *)
Help(t) ==
  /\ SysCall(t) /\ GoTo(t, "help", "entered")
  /\ IF owner[using[t]] \notin {None, t}
     THEN entering' = [entering EXCEPT ![t] = using[t]] /\ recheck' = TRUE
     ELSE UNCHANGED <<entering, recheck>>
  /\ UNCHANGED <<state, suspended, priority, delayed, waitResult, eligible, stops, lock, choice,
                 shared, using, queue>>

(* msection_leave.                                                         *)
Release(t) ==
  /\ Step(t, "release", "uncount")
  /\ owner' = [owner EXCEPT ![using[t]] = None]
  /\ UNCHANGED <<reschedAfterLeave, msectionCount, userEntering, killed, using, queue>>

MustNotStop(t) == FALSE            \* mutant: the flag is not looked at
MustStop(t) == msectionCount[t] = 1 /\ killed[t]

(* The flag is set only while the count is positive: they are read as one.  *)
Uncount(t) ==
  /\ Step(t, "uncount", IF MustStop(t) THEN "resched" ELSE "testFlag")
  /\ msectionCount' = [msectionCount EXCEPT ![t] = @ - 1]
  /\ UNCHANGED <<owner, reschedAfterLeave, userEntering, killed, using, queue>>

TestFlag(t) ==
  /\ Step(t, "testFlag", IF reschedAfterLeave[using[t]] THEN "resched" ELSE "idle")
  /\ using' = [using EXCEPT ![t] = IF reschedAfterLeave[@] THEN @ ELSE None]
  /\ UNCHANGED <<shared, queue>>

(* A thread that is stopped starts again at its entry point.               *)
Stopped == {u \in Threads : state'[u] = "stopped"}

GoOut(S) ==
  /\ pc' = [u \in Threads |-> IF u \in S THEN "idle" ELSE pc[u]]
  /\ using' = [u \in Threads |-> IF u \in S THEN None ELSE using[u]]

Reschedule(t) ==
  /\ pc[t] = "resched"
  /\ ReschedStays(t) \/ ReschedStops(t)
  /\ GoOut({t} \union Stopped)
  /\ UNCHANGED queue

--------------------------------------------------------------------------------
(* The linked wait queue: msection_wq_add, msection_wq_add_after, and the    *)
(* msection_wq_del of the library and of the kernel.                       *)
SetNext(q, s, t, next) ==
  IF t = None THEN [q EXCEPT !.first[s] = next] ELSE [q EXCEPT !.next[t] = next]

SetPrev(q, s, t, prev) ==
  IF t = None THEN [q EXCEPT !.last[s] = prev] ELSE [q EXCEPT !.prev[t] = prev]

WqAdd(q, s, t, prev, next) ==
  LET linked == [q EXCEPT !.next[t] = next, !.prev[t] = prev]
  IN  SetNext(SetPrev(linked, s, next, t), s, prev, t)

(* A thread out of the queue keeps its wq_priority in the code, where       *)
(* nothing reads it.                                                       *)
WqDel(q, s, t) ==
  LET linked == SetNext(SetPrev(q, s, q.next[t], q.prev[t]), s, q.prev[t], q.next[t])
  IN  [linked EXCEPT !.next[t] = None, !.prev[t] = None, !.priority[t] = None]

(* Several threads leave it.                                               *)
DelAll(s, q) ==
  LET after[n \in 0 .. Len(q)] == IF n = 0 THEN queue ELSE WqDel(after[n - 1], s, q[n])
  IN  after[Len(q)]

(* The threads of a queue, along the links in one direction.               *)
Walk(start, link) ==
  LET at[i \in 1 .. Cardinality(Threads)] ==
        IF i = 1 THEN start ELSE IF at[i - 1] = None THEN None ELSE link[at[i - 1]]
  IN  Without(at, {None})

Queued(s) == Walk(queue.first[s], queue.next)

(* arinc_process_queue_add_common: at the end, or behind the last thread    *)
(* whose priority is not lower.                                            *)
StaysAheadIfHigher(u, t) == queue.priority[u] > priority[t]   \* mutant
StaysAhead(u, t) == queue.priority[u] >= priority[t]

AddByPriority(s, t) ==
  LET back == Walk(queue.last[s], queue.prev)
      i == SelectInSeq(back, LAMBDA u : StaysAhead(u, t))
      prev == IF i = 0 THEN None ELSE back[i]
      next == IF prev = None THEN queue.first[s] ELSE queue.next[prev]
  IN  [WqAdd(queue, s, t, prev, next) EXCEPT !.priority[t] = priority[t]]

AddToQueue(s, t, byPriority) ==
  IF byPriority THEN AddByPriority(s, t) ELSE WqAdd(queue, s, t, queue.last[s], None)

--------------------------------------------------------------------------------
(* jet_msection_wait: refused when preemption is locked, cancelled when the  *)
(* thread is to stop.                                                      *)
WaitDenied(t) ==
  /\ Step(t, "wait", "denied") /\ ~WaitingAllowed
  /\ UNCHANGED <<shared, using, queue>>

WaitCancelled(t) ==
  /\ SysCall(t) /\ GoTo(t, "wait", "result") /\ WaitingAllowed
  /\ firstDonator[t] # None
  /\ waitResult' = [waitResult EXCEPT ![t] = "cancelled"]
  /\ UNCHANGED <<state, suspended, priority, delayed, entering, eligible, recheck, stops, lock,
                 choice, shared, using, queue>>

Wait(t, timed) ==
  /\ SysCall(t) /\ GoTo(t, "wait", "result") /\ WaitingAllowed
  /\ firstDonator[t] = None
  /\ entering' = [entering EXCEPT ![t] = using[t]]
  /\ owner' = [owner EXCEPT ![using[t]] = None]
  /\ state' = [state EXCEPT ![t] = "waiting"]
  /\ delayed' = [delayed EXCEPT ![t] = IF timed THEN "wake" ELSE "none"]
  /\ Requeue(Without(eligible, {t}), TRUE)
  /\ UNCHANGED <<suspended, priority, waitResult, stops, lock, choice, reschedAfterLeave,
                 msectionCount, userEntering, killed, using, queue>>

(* jet_msection_wq_notify and jet_msection_wq_size: the threads passed that  *)
(* do not wait any more leave the queue.                                   *)
Waiting(t) == state[t] = "waiting"
Leavers(q) == Without(q, {t \in Threads : Waiting(t)})
Purged(s, q) == DelAll(s, Leavers(q))

(* The threads that a notification of one thread passes, to the first that  *)
(* waits.                                                                  *)
Passed(s, all) ==
  LET i == SelectInSeq(Queued(s), Waiting)
  IN  IF all \/ i = 0 THEN Queued(s) ELSE SubSeq(Queued(s), 1, i)

Notify(t, all, ifSome, ifNone) ==
  LET passed == Passed(using[t], all)
      woken == Without(passed, {u \in Threads : ~Waiting(u)})
  IN  /\ SysCall(t)
      /\ GoTo(t, "body", IF woken = <<>> THEN ifNone ELSE ifSome)
      /\ queue' = Purged(using[t], passed)
      /\ WakeUp(woken, "ok", FALSE)
      /\ UNCHANGED <<stops, lock, choice, shared, using>>

(* The assertion of their loops: for the kernel, each thread in the queue is  *)
(* entering the section.                                                   *)
QueuedEnter(t) == \A u \in ToSet(Queued(using[t])) : entering[u] = using[t]

Size(t) ==
  /\ SysCall(t) /\ GoTo(t, "body", "release")
  /\ queue' = Purged(using[t], Queued(using[t]))
  /\ UNCHANGED <<state, suspended, priority, delayed, waitResult, entering, eligible, recheck,
                 stops, lock, choice, shared, using>>

EnterStep(t) ==
  \/ Announce(t) \/ Test(t) \/ Claim(t) \/ Help(t) \/ Entered(t)

LeaveStep(t) ==
  \/ Release(t) \/ Uncount(t) \/ TestFlag(t) \/ Reschedule(t)

--------------------------------------------------------------------------------
(* A thread that runs inside a section owns it, however its entry was        *)
(* interrupted and finished: two threads are never inside the same section. *)
Alone ==
  \A t \in Threads :
    pc[t] \in Inside \/ (pc[t] \in {"entered", "result"} /\ current = t /\ ~disabled)
      => owner[using[t]] = t
================================================================================
