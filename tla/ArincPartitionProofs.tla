-------------------------- MODULE ArincPartitionProofs --------------------------
(***************************************************************************)
(* The safety of the scheduler of a partition, for every set of threads and  *)
(* sections, every choice of priorities, periods and time capacities, and    *)
(* every depth of the preemption lock.                                     *)
(*                                                                         *)
(* PartitionInv is inductive.  It adds to the invariants that the runs check  *)
(* what they rest on: there is no critical section in these programs         *)
(* (NoSections), the roles of the main thread and of the error handler       *)
(* (Created), that before the mode NORMAL only the main thread runs, with    *)
(* the lock (Beginning), that in it every change of the choice has requested *)
(* a recheck (Running), and that in the mode IDLE preemption is disabled     *)
(* (Resting).  A step is first cut down to its cases (StepCases); then each  *)
(* part of the invariant has a lemma of its own, with a step per action.      *)
(*                                                                         *)
(* ErrorInv, on top of it, is inductive where errors are read before a       *)
(* process starts again and pok_error_get is not interrupted.              *)
(***************************************************************************)
EXTENDS ArincPartition, ThreadsProofs

(* The main thread and the error handler never wait, a thread that was not *)
(* created is stopped, and the handler is none of the processes with a time*)
(* capacity.                                                               *)
Created ==
  /\ Main \in created /\ state[Main] # "waiting"
  /\ \A t \in Threads \ created : state[t] = "stopped"
  /\ handler # None => /\ handler \in created \ ({Main} \union Limited)
                       /\ state[handler] # "waiting"

(* Only a process with a time capacity has a deadline.                     *)
OnlyLimited == \A t \in Threads : deadline[t] # "none" => t \in Limited

(* Before the mode NORMAL no process runs, nothing is pending, and the main*)
(* thread holds the preemption lock until it stops; then nothing runs.     *)
Beginning ==
  mode \in {"cold", "warm"} =>
    /\ eligible = <<>> /\ errors = <<>>
    /\ \A t \in Threads : delayed[t] = "none" /\ deadline[t] = "none"
    /\ \A t \in Threads \ {Main} : state[t] # "runnable"
    /\ handler # None => state[handler] = "stopped"
    /\ current \in {Main, None}
    /\ state[Main] # "stopped" => lockLevel = 1 /\ locked = Main
    /\ ~recheck \/ ~disabled => current = Choice

(* In the mode NORMAL, what the scheduler has chosen is what it would choose*)
(* now, unless a recheck is pending; outside of the kernel none is. A      *)
(* handler that has been chosen has been started.                          *)
Running ==
  mode = "normal" =>
    /\ ~disabled => ~recheck
    /\ ~recheck => /\ current = Choice /\ selected = Choice
                   /\ isErrorHandler = (handler # None /\ selected = handler)
                   /\ handler # None /\ selected = handler => state[handler] = "runnable"

(* In the mode IDLE preemption stays disabled.                             *)
Resting == mode = "idle" => disabled

(* An error is listed only when there is a handler to read it.             *)
Handled == errors # <<>> => handler # None

(* The type invariants of both modules.                                    *)
TypeInv == TypeOK /\ HealthTypeOK

(* The inductive invariant.                                                *)
PartitionInv ==
  /\ TypeInv /\ NoSections /\ Created /\ EligibleQueue /\ EventsOfActive /\ OnlyLimited
  /\ Beginning /\ Running /\ LockHolderRuns /\ Resting /\ Handled

--------------------------------------------------------------------------------
(* The part of a step of Threads that is in ArincPartition.                *)
HealthFollows == Deadlines /\ UNCHANGED <<partition, errorBits, unlinking>>

(* A missed deadline is reported to the error handler ...                  *)
Reported(t) ==
  /\ disabled /\ mode = "normal" /\ deadline[t] = "armed"
  /\ HandlerSees /\ AddErrorBit(t, "deadline")
  /\ deadline' = [deadline EXCEPT ![t] = "none"]
  /\ UNCHANGED <<state, suspended, priority, delayed, waitResult, entering, eligible,
                 stops, lock, choice, disabled, mode, created, handler, shared, unlinking>>

(* ... or ignored, as the table of the partition says.                     *)
NotReported(t) ==
  /\ disabled /\ mode = "normal" /\ deadline[t] = "armed"
  /\ deadline' = [deadline EXCEPT ![t] = "none"]
  /\ UNCHANGED <<vars, errorBits, unlinking>>

(* No process with a time capacity is started.                             *)
NotLimited == \A u \in Limited : state[u] = "stopped" => state'[u] = "stopped"

(* A call of the running thread, by what it does.                          *)
CallCase(t) ==
  \/ ThreadStep(t) /\ HealthFollows /\ NotLimited
  \/ PeriodicWait(t) \/ SetModeNormal(t) \/ Replenish(t) \/ RaiseSync(t)
  \/ GetError(t) \/ Unlink(t) \/ StopHandler(t)
  \/ \E u \in Threads : CreateThread(t, u) \/ \E later \in BOOLEAN : StartLimited(t, u, later)

(* Every step is a call, a change of mode, a missed deadline, or a step of *)
(* the scheduler.                                                          *)
LEMMA StepCases ==
  ASSUME [PartitionNext]_partitionVars
  PROVE  \/ \E t \in Threads : CallCase(t) /\ (unlinking # None => Unlink(t))
         \/ Idle \/ \E m \in {"cold", "warm"} : Restart(m)
         \/ \E t \in Threads : Reported(t) \/ NotReported(t)
         \/ Select /\ mode # "idle" /\ HealthFollows
         \/ Interrupt /\ mode # "idle" /\ HealthFollows
         \/ \E t \in Threads : Expire(t) /\ mode # "idle" /\ HealthFollows
         \/ UNCHANGED partitionVars
<1>1. CASE \E t \in Threads : (unlinking # None => Unlink(t)) /\ Call(t)
  BY <1>1 DEF Call, CallCase, ThreadCalls, SetMode, HealthFollows, NotLimited
<1>2. CASE \E t \in Threads : DeadlineMissed(t)
  BY <1>2 DEF DeadlineMissed, Reported, NotReported, FixedAction
<1>3. CASE Kernel
  BY <1>3 DEF Kernel, HealthFollows
<1>4. CASE PartitionError \/ ModuleReset \/ IdleLoop \/ UNCHANGED partitionVars
  BY <1>4 DEF PartitionError, FixedAction, ModuleReset, IdleLoop
<1> QED
  BY <1>1, <1>2, <1>3, <1>4 DEF PartitionNext

--------------------------------------------------------------------------------
(* The thread that makes a call is the main thread, before the mode NORMAL;*)
BeginningCaller(t) ==
  /\ mode \in {"cold", "warm"} /\ t = Main /\ state[t] = "runnable"
  /\ lockLevel = 1 /\ locked = Main

(* or the error handler;                                                   *)
HandlerCalls(t) == mode = "normal" /\ t = handler /\ state[t] = "runnable"

(* or a process: no error is then waiting for the handler, the process is  *)
(* eligible, and it holds the lock or is the first of the list.            *)
ProcessCalls(t) ==
  /\ mode = "normal" /\ ~HandlerRuns /\ t \in Processes /\ t \in ToSet(eligible)
  /\ state[t] = "runnable" /\ ~suspended[t]
  /\ lockLevel > 0 => locked = t
  /\ lockLevel = 0 => First(eligible) = t

(* The first thread of a list is in it.                                    *)
LEMMA FirstMember ==
  ASSUME NEW q \in Seq(Threads), q # <<>>
  PROVE  First(q) \in ToSet(q)
BY Members DEF First

(* One of these makes any call, and in the mode NORMAL it is the thread that*)
(* the scheduler chose and would choose again.                             *)
LEMMA Caller ==
  ASSUME PartitionInv, NEW t \in Threads, ~disabled, current = t
  PROVE  /\ BeginningCaller(t) \/ HandlerCalls(t) \/ ProcessCalls(t)
         /\ mode = "normal" => ~recheck /\ Choice = t /\ selected = t
<1>1. /\ state \in [Threads -> {"stopped", "runnable", "waiting"}] /\ lockLevel \in Nat
      /\ eligible \in Seq(Threads) /\ mode \in {"cold", "warm", "normal", "idle"}
      /\ handler \in Thread0 /\ Main \in Threads
      /\ errors \in Seq(Threads)
  BY LimitedAssumption, ThreadsAssumption DEF PartitionInv, TypeInv, TypeOK
<1>2. mode # "idle"
  BY DEF PartitionInv, Resting
<1>3. t # None
  BY ThreadsAssumption
<1>4. CASE mode \in {"cold", "warm"}
  <2>1. t = Main /\ current = Choice
    BY <1>3, <1>4 DEF PartitionInv, Beginning
  <2>2. state[Main] # "stopped"
    BY <1>3, <1>4, <2>1 DEF Choice
  <2>3. state[Main] = "runnable"
    BY <1>1, <2>2 DEF PartitionInv, Created
  <2> QED
    BY <1>4, <2>1, <2>2, <2>3 DEF PartitionInv, Beginning, BeginningCaller
<1>5. CASE mode = "normal"
  <2>1. ~recheck /\ Choice = t /\ selected = t
    BY <1>5 DEF PartitionInv, Running
  <2>2. CASE HandlerRuns
    <3>1. t = handler
      BY <1>5, <2>1, <2>2 DEF Choice
    <3> QED
      BY <1>3, <1>5, <2>1, <3>1 DEF PartitionInv, Running, HandlerCalls
  <2>3. CASE ~HandlerRuns
    <3>1. lockLevel > 0 => locked = t /\ t \in ToSet(eligible)
      BY <1>5, <2>1, <2>3 DEF Choice, PartitionInv, LockHolderRuns
    <3>2. lockLevel = 0 => First(eligible) = t
      BY <1>5, <2>1, <2>3 DEF Choice
    <3>3. t \in ToSet(eligible)
      BY <1>1, <1>3, <3>1, <3>2, FirstMember DEF First
    <3> QED
      BY <1>5, <2>1, <2>3, <3>1, <3>2, <3>3 DEF PartitionInv, EligibleQueue, ProcessCalls
  <2> QED
    BY <2>1, <2>2, <2>3
<1> QED
  BY <1>1, <1>2, <1>4, <1>5

--------------------------------------------------------------------------------
(* The processes that may run: what EligibleQueue says the list holds.     *)
Runnable == {t \in Processes : state[t] = "runnable" /\ ~suspended[t]}

(* Before a step the list is sorted and holds these.                       *)
LEMMA QueueInOrder ==
  ASSUME PartitionInv
  PROVE  InOrder /\ ToSet(eligible) = Runnable /\ Typed
<1>1. /\ eligible \in Seq(Threads) /\ priority \in [Threads -> Nat]
      /\ suspended \in [Threads -> BOOLEAN]
  BY DEF PartitionInv, TypeInv, TypeOK
<1>2. Sorted(eligible, priority) /\ ToSet(eligible) = Runnable
  BY <1>1, SortedIndices DEF PartitionInv, EligibleQueue, Runnable
<1> QED
  BY <1>1, <1>2 DEF InOrder, Typed

(* A step that leaves the list and what it depends on as they are.         *)
SameQueue ==
  UNCHANGED <<state, suspended, priority, eligible, created, handler>>

(* Then the list is still right.                                           *)
LEMMA QueueSame ==
  ASSUME PartitionInv, SameQueue
  PROVE  Moves /\ ToSet(eligible') = Runnable'
<1>1. Runnable' = Runnable
  BY DEF SameQueue, Runnable, Processes
<1> QED
  BY <1>1, QueueInOrder, MoveSame DEF SameQueue

(* thread_stop of one thread removes it from the list and from the processes*)
(* that may run.                                                           *)
LEMMA QueueStop ==
  ASSUME PartitionInv, NEW t \in Threads, NEW invalidate \in BOOLEAN,
         StopAll({t}, invalidate), UNCHANGED <<created, handler>>
  PROVE  Moves /\ ToSet(eligible') = Runnable'
<1>1. /\ eligible' = Without(eligible, {t}) /\ UNCHANGED <<priority, suspended>>
      /\ state' = [u \in Threads |-> IF u \in {t} THEN "stopped" ELSE state[u]]
  BY DEF StopAll, Requeue
<1>2. Runnable' = Runnable \ {t}
  BY <1>1 DEF Runnable, Processes, PartitionInv, TypeInv, TypeOK
<1> QED
  BY <1>1, <1>2, QueueInOrder, MoveWithout

(* A thread that is suspended, or waits, leaves both.                      *)
LEMMA QueueRemove ==
  ASSUME PartitionInv, NEW t \in Threads, eligible' = Without(eligible, {t}),
         \A u \in Threads \ {t} : state'[u] = state[u] /\ suspended'[u] = suspended[u],
         state'[t] # "runnable" \/ suspended'[t],
         UNCHANGED <<priority, created, handler>>
  PROVE  Moves /\ ToSet(eligible') = Runnable'
<1>1. Runnable' = Runnable \ {t}
  BY DEF Runnable, Processes, PartitionInv, TypeInv, TypeOK
<1> QED
  BY <1>1, QueueInOrder, MoveWithout

(* A process that could not run and now can, or not yet, is added to both, *)
(* or to neither.                                                          *)
LEMMA QueueAdd ==
  ASSUME PartitionInv, NEW t \in Processes, state[t] # "runnable" \/ suspended[t],
         \A u \in Threads \ {t} : /\ state'[u] = state[u] /\ suspended'[u] = suspended[u]
                                 /\ priority'[u] = priority[u],
         priority' \in [Threads -> Nat], UNCHANGED <<created, handler>>,
         IF state'[t] = "runnable" /\ ~suspended'[t]
         THEN eligible' = Enqueue(eligible, t, priority')
         ELSE eligible' = eligible
  PROVE  Moves /\ ToSet(eligible') = Runnable'
<1>1. t \in Threads /\ Processes' = Processes /\ Processes \subseteq Threads
  BY DEF Processes, PartitionInv, TypeInv, TypeOK
<1>2. t \notin ToSet(eligible) /\ ToSet(eligible) \subseteq Threads
  BY <1>1, QueueInOrder DEF Runnable
<1>3. CASE state'[t] = "runnable" /\ ~suspended'[t]
  <2>1. Runnable' = Runnable \union {t}
    BY <1>1, <1>3 DEF Runnable
  <2>2. Moves /\ ToSet(eligible') = ToSet(eligible) \union {t}
    BY <1>1, <1>2, <1>3, QueueInOrder, MoveEnqueue
  <2> QED
    BY <2>1, <2>2, QueueInOrder
<1>4. CASE ~(state'[t] = "runnable" /\ ~suspended'[t])
  <2>1. Runnable' = Runnable
    BY <1>1, <1>4 DEF Runnable
  <2>2. Moves /\ eligible' = eligible
    BY <1>2, <1>4, QueueInOrder, MoveSame
  <2> QED
    BY <2>1, <2>2, QueueInOrder
<1> QED
  BY <1>3, <1>4

(* A thread that yields, or whose priority changes, moves in the list if it*)
(* is there.                                                               *)
LEMMA QueueYield ==
  ASSUME PartitionInv, NEW t \in Threads, priority' \in [Threads -> Nat],
         \A u \in Threads \ {t} : priority'[u] = priority[u],
         IF t \in ToSet(eligible) THEN eligible' = Yielded(t, priority') ELSE eligible' = eligible,
         UNCHANGED <<state, suspended, created, handler>>
  PROVE  Moves /\ ToSet(eligible') = Runnable'
<1>1. Runnable' = Runnable
  BY DEF Runnable, Processes
<1>2. ToSet(eligible) \subseteq Threads
  BY QueueInOrder, Members DEF InOrder
<1>3. CASE t \in ToSet(eligible)
  BY <1>1, <1>3, QueueInOrder, MoveYield
<1>4. CASE t \notin ToSet(eligible)
  BY <1>1, <1>2, <1>4, QueueInOrder, MoveSame
<1> QED
  BY <1>3, <1>4

(* A thread that waits is a process.                                       *)
LEMMA PendingProcess ==
  ASSUME PartitionInv, NEW t \in Threads, state[t] = "waiting"
  PROVE  t \in Processes
BY ThreadsAssumption DEF PartitionInv, Created, Processes

(* The threads that wait for the mode NORMAL are processes.                *)
LEMMA StartedProcesses ==
  ASSUME PartitionInv, mode \in {"cold", "warm"}
  PROVE  Started \subseteq Processes /\ \A u \in Started : state[u] = "waiting"
<1>1. /\ created \subseteq Threads /\ None \notin Threads
      /\ state \in [Threads -> {"stopped", "runnable", "waiting"}]
  BY ThreadsAssumption DEF PartitionInv, TypeInv, TypeOK
<1>2. /\ handler # None => state[handler] = "stopped"
      /\ \A t \in Threads \ {Main} : state[t] # "runnable"
  BY DEF PartitionInv, Beginning
<1> QED
  BY <1>1, <1>2 DEF Started, Processes

(* Every step keeps the list sorted, with exactly the processes that may   *)
(* run, and lets no thread pass another without reason: EligibleQueue and  *)
(* PlacesKept.                                                             *)
LEMMA QueueStep ==
  ASSUME PartitionInv, [PartitionNext]_partitionVars
  PROVE  Moves /\ ToSet(eligible') = Runnable'
<1> USE DEF Requeue
<1>1. /\ state \in [Threads -> {"stopped", "runnable", "waiting"}]
      /\ suspended \in [Threads -> BOOLEAN] /\ priority \in [Threads -> Nat]
      /\ delayed \in [Threads -> {"none", "wake", "resume"}]
      /\ BasePriority \in [Threads -> Nat] /\ Priorities \subseteq Nat
  BY ThreadsAssumption DEF PartitionInv, TypeInv, TypeOK
<1>2. ASSUME NEW t \in Threads, CallCase(t)
      PROVE  Moves /\ ToSet(eligible') = Runnable'
  <2>1. CASE ThreadStep(t) /\ HealthFollows
    <3>1. UNCHANGED <<created, handler>>
      BY <2>1 DEF HealthFollows, partition
    <3>2. CASE NoEffect(t) \/ Lock(t) \/ Unlock(t)
      <4>1. SameQueue
        BY <3>1, <3>2 DEF NoEffect, Lock, Unlock, SameQueue
      <4> QED
        BY <4>1, QueueSame
    <3>3. CASE StopSelf(t)
      BY <3>1, <3>3, QueueStop DEF StopSelf
    <3>4. CASE Sleep(t)
      BY <1>1, <3>1, <3>4, QueueRemove DEF Sleep, WaitUntil
    <3>5. CASE \E flag \in BOOLEAN : SuspendSelf(t, flag)
      BY <1>1, <3>1, <3>5, QueueRemove DEF SuspendSelf
    <3>6. CASE Yield(t)
      BY <1>1, <3>1, <3>6, QueueYield DEF Yield
    <3>7. ASSUME NEW u \in Threads, StopNow(t, u)
          PROVE  Moves /\ ToSet(eligible') = Runnable'
      BY <3>1, <3>7, QueueStop DEF StopNow
    <3>8. ASSUME NEW u \in Threads, Suspend(t, u)
          PROVE  Moves /\ ToSet(eligible') = Runnable'
      BY <1>1, <3>1, <3>8, QueueRemove DEF Suspend
    <3>9. ASSUME NEW u \in Threads, Resume(t, u)
          PROVE  Moves /\ ToSet(eligible') = Runnable'
      <4>1. u \in Processes /\ suspended[u]
        BY <3>9 DEF Resume, Target
      <4> QED
        BY <1>1, <3>1, <3>9, <4>1, QueueAdd DEF Resume
    <3>10. ASSUME NEW u \in Threads, NEW flag \in BOOLEAN, Start(t, u, flag)
           PROVE  Moves /\ ToSet(eligible') = Runnable'
      BY <1>1, <3>1, <3>10, QueueAdd DEF Start
    <3>11. ASSUME NEW u \in Threads, NEW p \in Priorities, SetPriority(t, u, p)
           PROVE  Moves /\ ToSet(eligible') = Runnable'
      BY <1>1, <3>1, <3>11, QueueYield DEF SetPriority
    <3> QED
      BY <2>1, <3>2, <3>3, <3>4, <3>5, <3>6, <3>7, <3>8, <3>9, <3>10, <3>11 DEF ThreadStep
  <2>2. CASE PeriodicWait(t)
    BY <1>1, <2>2, QueueRemove DEF PeriodicWait, WaitUntil, partition
  <2>3. CASE SetModeNormal(t)
    <3>a. PICK later \in SUBSET Started :
            /\ state' = [u \in Threads |-> IF u \in Started \ later THEN "runnable" ELSE state[u]]
            /\ \E q \in SetToSeqs(Started \ later) : eligible' = ReadyAll(eligible, q)
      BY <2>3 DEF SetModeNormal
    <3>1. PICK ts \in SetToSeqs(Started \ later) : eligible' = ReadyAll(eligible, ts)
      BY <3>a
    <3>2. /\ UNCHANGED <<suspended, priority, created, handler>> /\ mode \in {"cold", "warm"}
      BY <2>3 DEF SetModeNormal
    <3>3. /\ eligible = <<>> /\ Started \subseteq Processes /\ Processes \subseteq Threads
          /\ \A u \in Processes : state[u] # "runnable"
      BY <3>2, StartedProcesses DEF PartitionInv, Beginning, Processes, TypeInv, TypeOK
    <3>4. ts \in Seq(Threads) /\ OnceEach(ts) /\ ToSet(ts) = Started \ later
      BY <3>1, <3>3, SeqsOK, <3>a
    <3>5. Woken(eligible', <<>>, ts, Len(ts))
      BY <3>1, <3>3, <3>4, EmptySorted, ReadyAllOK, QueueInOrder
    <3>6. NotSuspended(ts, Len(ts)) = {u \in Threads : ~suspended[u] /\ u \in ToSet(ts)}
      BY <3>4, Members DEF NotSuspended
    <3>7. Runnable' = {u \in Threads : ~suspended[u] /\ u \in ToSet(ts)}
      <4>1. Processes' = Processes
        BY <3>2 DEF Processes
      <4>2. \A u \in Processes : state'[u] = "runnable" <=> u \in ToSet(ts)
        BY <3>a, <3>3, <3>4
      <4> QED
        BY <3>2, <3>3, <3>4, <4>1, <4>2 DEF Runnable
    <3>8. /\ eligible' \in Seq(Threads) /\ Sorted(eligible', priority')
          /\ ToSet(eligible') = Runnable'
      BY <3>2, <3>5, <3>6, <3>7, EmptySorted DEF Woken
    <3> QED
      BY <3>3, <3>8, MoveEmpty
  <2>4. CASE Replenish(t) \/ RaiseSync(t) \/ GetError(t) \/ Unlink(t)
    <3>1. SameQueue
      BY <2>4 DEF Replenish, RaiseSync, GetError, Unlink, SameQueue, partition, vars
    <3> QED
      BY <3>1, QueueSame
  <2>5. CASE StopHandler(t)
    BY <2>5, QueueStop DEF StopHandler
  <2>6. ASSUME NEW u \in Threads, CreateThread(t, u)
        PROVE  Moves /\ ToSet(eligible') = Runnable'
    <3>1. /\ u \notin created /\ created' = created \union {u}
          /\ UNCHANGED <<state, suspended, priority, eligible>>
          /\ handler' # handler => handler = None /\ handler' = u
      BY <2>6 DEF CreateThread, Create, CreateHandler
    <3>2. state[u] = "stopped" /\ None \notin Threads
      BY <3>1, ThreadsAssumption DEF PartitionInv, Created
    <3>3. Runnable' = Runnable
      BY <3>1, <3>2, ThreadsAssumption DEF Runnable, Processes, PartitionInv, TypeInv, TypeOK
    <3> QED
      BY <3>1, <3>3, QueueInOrder, MoveSame
  <2>7. ASSUME NEW u \in Threads, NEW later \in BOOLEAN, StartLimited(t, u, later)
        PROVE  Moves /\ ToSet(eligible') = Runnable'
    BY <1>1, <2>7, QueueAdd DEF StartLimited, Start, partition
  <2> QED
    BY <1>2, <2>1, <2>2, <2>3, <2>4, <2>5, <2>6, <2>7 DEF CallCase
<1>3. CASE Idle \/ UNCHANGED partitionVars \/ \E t \in Threads : Reported(t) \/ NotReported(t)
  <2>1. SameQueue
    BY <1>3 DEF Idle, Reported, NotReported, SameQueue, partitionVars, vars, partition
  <2> QED
    BY <2>1, QueueSame
<1>4. ASSUME NEW m, Restart(m) PROVE Moves /\ ToSet(eligible') = Runnable'
  <2>1. eligible' = <<>> /\ created' = {Main}
    BY <1>4 DEF Restart
  <2>2. Runnable' = {}
    BY <2>1 DEF Runnable, Processes
  <2> QED
    BY <2>1, <2>2, EmptySorted, MoveEmpty
<1>5. CASE Select /\ HealthFollows
  <2>1. /\ UNCHANGED <<suspended, priority, eligible, created, handler>>
        /\ \A t \in Threads \ {handler} : state'[t] = state[t]
    BY <1>5 DEF Select, HealthFollows, partition
  <2>2. Runnable' = Runnable
    BY <2>1 DEF Runnable, Processes, PartitionInv, TypeInv, TypeOK
  <2> QED
    BY <2>1, <2>2, QueueInOrder, MoveSame
<1>6. CASE Interrupt /\ HealthFollows
  <2>1. SameQueue
    BY <1>6 DEF Interrupt, SameQueue, HealthFollows, partition
  <2> QED
    BY <2>1, QueueSame
<1>7. ASSUME NEW t \in Threads, Expire(t), HealthFollows
      PROVE  Moves /\ ToSet(eligible') = Runnable'
  <2>1. UNCHANGED <<created, handler>> /\ delayed[t] # "none"
    BY <1>7 DEF Expire, HealthFollows, partition
  <2>2. state[t] = "waiting" /\ t \in Processes
    BY <2>1, PendingProcess DEF PartitionInv, EventsOfActive
  <2>3. CASE delayed[t] = "wake"
    <3>1. /\ state' = [u \in Threads |-> IF u \in ToSet(<<t>>) THEN "runnable" ELSE state[u]]
          /\ eligible' = ReadyAll(eligible, <<t>>) /\ UNCHANGED <<suspended, priority>>
      BY <1>7, <2>3 DEF Expire, WakeUp
    <3>2. ToSet(<<t>>) = {t}
      BY DEF ToSet
    <3>3. eligible' = Ready(eligible, t)
      BY <3>1, <3>2, ReadyOne, QueueInOrder DEF InOrder
    <3> QED
      BY <1>1, <2>1, <2>2, <3>1, <3>2, <3>3, QueueAdd DEF Ready
  <2>4. CASE delayed[t] = "resume"
    BY <1>1, <1>7, <2>1, <2>2, <2>4, QueueAdd DEF Expire
  <2> QED
    BY <1>1, <2>1, <2>3, <2>4
<1> QED
  BY <1>2, <1>3, <1>4, <1>5, <1>6, <1>7, StepCases

--------------------------------------------------------------------------------
(* The types of the fields of the threads,                                 *)
ThreadTypes ==
  /\ state \in [Threads -> {"stopped", "runnable", "waiting"}]
  /\ suspended \in [Threads -> BOOLEAN] /\ priority \in [Threads -> Nat]
  /\ delayed \in [Threads -> {"none", "wake", "resume"}]

(* of the scheduler,                                                       *)
SchedulerTypes ==
  /\ lockLevel \in 0 .. MaxLock /\ locked \in Thread0
  /\ current \in Thread0 /\ selected \in Thread0
  /\ recheck \in BOOLEAN /\ disabled \in BOOLEAN /\ isErrorHandler \in BOOLEAN

(* of what belongs to critical sections,                                   *)
SectionTypes ==
  /\ waitResult \in [Threads -> {"ok", "timeout", "cancelled"}]
  /\ entering \in [Threads -> Section0] /\ userEntering \in [Threads -> Section0]
  /\ donateTarget \in [Threads -> Thread0] /\ firstDonator \in [Threads -> Thread0]
  /\ nextDonator \in [Threads -> Thread0] /\ waitingSection \in Section0
  /\ owner \in [Sections -> Thread0] /\ reschedAfterLeave \in [Sections -> BOOLEAN]
  /\ msectionCount \in [Threads -> Nat] /\ killed \in [Threads -> BOOLEAN]

(* and of the partition.                                                   *)
PartitionTypes ==
  /\ mode \in {"cold", "warm", "normal", "idle"}
  /\ created \subseteq Threads /\ handler \in Thread0 /\ errors \in Seq(Threads)

(* These are the whole type invariant,                                     *)
LEMMA TypeParts ==
  TypeInv <=> /\ ThreadTypes /\ SchedulerTypes /\ SectionTypes /\ PartitionTypes
              /\ eligible \in Seq(Threads) /\ HealthTypeOK
BY DEF TypeInv, TypeOK, ThreadTypes, SchedulerTypes, SectionTypes, PartitionTypes

(* and so they are in the next state.                                      *)
LEMMA TypePartsNext ==
  TypeInv' <=> /\ ThreadTypes' /\ SchedulerTypes' /\ SectionTypes' /\ PartitionTypes'
               /\ eligible' \in Seq(Threads) /\ HealthTypeOK'
BY DEF TypeInv, TypeOK, ThreadTypes, SchedulerTypes, SectionTypes, PartitionTypes

(* What the assumptions say of the constants.                              *)
LEMMA ConstantTypes ==
  /\ MaxLock \in Nat \ {0} /\ BasePriority \in [Threads -> Nat] /\ Priorities \subseteq Nat
  /\ Main \in Threads /\ Main \in Thread0 /\ None \in Thread0 /\ None \in Section0
  /\ Threads \subseteq Thread0 /\ None \notin Threads
BY ThreadsAssumption, LimitedAssumption DEF Thread0, Section0

(* Every step keeps the types of the fields of the threads.                *)
LEMMA ThreadTypesStep ==
  ASSUME ThreadTypes, [PartitionNext]_partitionVars
  PROVE  ThreadTypes'
<1> USE ConstantTypes DEF ThreadTypes
<1>1. ASSUME NEW t \in Threads, CallCase(t) PROVE ThreadTypes'
  <2>1. CASE NoEffect(t) \/ Yield(t) \/ Lock(t) \/ Unlock(t) \/ Replenish(t) \/ RaiseSync(t)
             \/ GetError(t) \/ Unlink(t) \/ \E u \in Threads : CreateThread(t, u)
    BY <2>1 DEF NoEffect, Yield, Lock, Unlock, Replenish, RaiseSync, GetError, Unlink, CreateThread, vars
  <2>2. CASE StopSelf(t) \/ StopHandler(t) \/ \E u \in Threads : StopNow(t, u)
    <3>1. PICK S, invalidate : StopAll(S, invalidate)
      BY <2>2 DEF StopSelf, StopHandler, StopNow
    <3> QED
      BY <3>1 DEF StopAll, DelayedWithout
  <2>3. CASE Sleep(t) \/ PeriodicWait(t)
    BY <2>3 DEF Sleep, WaitUntil, PeriodicWait
  <2>4. CASE \E flag \in BOOLEAN : SuspendSelf(t, flag)
    BY <2>4 DEF SuspendSelf
  <2>5. CASE \E u \in Threads : Suspend(t, u)
    BY <2>5 DEF Suspend
  <2>6. CASE \E u \in Threads : Resume(t, u)
    BY <2>6 DEF Resume
  <2>7. ASSUME NEW u \in Threads, NEW later \in BOOLEAN, Start(t, u, later)
        PROVE  ThreadTypes'
    BY <2>7 DEF Start
  <2>8. CASE \E u \in Threads, p \in Priorities : SetPriority(t, u, p)
    BY <2>8 DEF SetPriority
  <2>9. CASE SetModeNormal(t)
    BY <2>9 DEF SetModeNormal
  <2> QED
    BY <1>1, <2>1, <2>2, <2>3, <2>4, <2>5, <2>6, <2>7, <2>8, <2>9
    DEF CallCase, ThreadStep, StartLimited
<1>2. CASE \/ Idle \/ UNCHANGED partitionVars \/ Interrupt
           \/ \E t \in Threads : Reported(t) \/ NotReported(t)
  BY <1>2 DEF Idle, partitionVars, vars, Interrupt, Reported, NotReported
<1>3. ASSUME NEW m, Restart(m) PROVE ThreadTypes'
  BY <1>3 DEF Restart, OnlyMain, Everywhere
<1>4. CASE Select
  BY <1>4 DEF Select
<1>5. ASSUME NEW t \in Threads, Expire(t) PROVE ThreadTypes'
  BY <1>5 DEF Expire, WakeUp
<1> QED
  BY <1>1, <1>2, <1>3, <1>4, <1>5, StepCases

(* The scheduler chooses a thread or none.                                 *)
LEMMA ChoiceTyped ==
  ASSUME TypeInv
  PROVE  Choice \in Thread0
BY ConstantTypes, FirstMember, Members DEF Choice, First, TypeInv, TypeOK

(* What Select does when there is no critical section: nothing if no recheck*)
(* is needed, else it runs the choice, and starts the handler if that is the*)
(* choice.                                                                 *)
LEMMA Selection ==
  ASSUME TypeInv, NoSections, Select
  PROVE  \/ ~recheck /\ UNCHANGED <<recheck, choice, state, entering, owner, reschedAfterLeave>>
         \/ /\ recheck /\ ~recheck' /\ current' = Choice /\ selected' = Choice
            /\ isErrorHandler' = (mode = "normal" /\ handler # None /\ Choice = handler)
            /\ state' = [t \in Threads |-> IF isErrorHandler' /\ t = handler THEN "runnable"
                                          ELSE state[t]]
            /\ waitingSection' = None /\ UNCHANGED <<owner, entering>>
            /\ reschedAfterLeave' \in [Sections -> BOOLEAN]
<1>1. CASE ~recheck
  BY <1>1 DEF Select
<1>2. CASE recheck
  <2>1. /\ recheck' = FALSE /\ current' = Runner(Choice) /\ selected' = Choice
        /\ isErrorHandler' = (mode = "normal" /\ handler # None /\ Choice = handler)
        /\ state' = [t \in Threads |-> IF isErrorHandler' /\ t = handler THEN "runnable"
                                      ELSE state[t]]
        /\ waitingSection' = WaitedSection(Choice)
    BY <1>2 DEF Select
  <2>2. Choice \in Thread0 /\ Runner(Choice) = Choice /\ WaitedSection(Choice) = None
    BY ChoiceTyped, RunsItself
  <2>3. /\ reschedAfterLeave' = [s \in Sections |->
             s = waitingSection' \/ (s # waitingSection /\ reschedAfterLeave[s])]
        /\ IF current' # None /\ entering[current'] # None
           THEN /\ owner' = [owner EXCEPT ![entering[current']] = current']
                /\ entering' = [entering EXCEPT ![current'] = None]
           ELSE UNCHANGED <<owner, entering>>
    BY <1>2 DEF Select
  <2>4. current' = None \/ entering[current'] = None
    BY <2>1, <2>2 DEF NoSections, Thread0
  <2>5. reschedAfterLeave' \in [Sections -> BOOLEAN]
    BY <2>3 DEF TypeInv, TypeOK
  <2> QED
    BY <1>2, <2>1, <2>2, <2>3, <2>4, <2>5
<1> QED
  BY <1>1, <1>2 DEF TypeInv, TypeOK

(* Every step keeps the types of the scheduler's variables: the level of the*)
(* lock stays within MaxLock.                                              *)
LEMMA SchedulerTypesStep ==
  ASSUME TypeInv, NoSections, [PartitionNext]_partitionVars
  PROVE  SchedulerTypes'
<1> USE ConstantTypes
<1>a. SchedulerTypes /\ SectionTypes
  BY TypeParts
<1>1. ASSUME NEW t \in Threads, CallCase(t) PROVE SchedulerTypes'
  <2>1. CASE GetError(t) \/ Unlink(t)
    BY <1>a, <2>1 DEF GetError, Unlink, vars, lock, choice, SchedulerTypes
  <2> DEFINE Called == disabled' = TRUE /\ UNCHANGED choice
  <2>a. ASSUME Called, recheck' \in BOOLEAN, lockLevel' \in 0 .. MaxLock, locked' \in Thread0
        PROVE  SchedulerTypes'
    BY <1>a, <2>a DEF choice, SchedulerTypes
  <2>b. ASSUME Called, recheck' \in BOOLEAN, UNCHANGED lock PROVE SchedulerTypes'
    BY <1>a, <2>a, <2>b DEF lock, SchedulerTypes
  <2>c. ASSUME NEW q, NEW invalidate \in BOOLEAN, Requeue(q, invalidate) PROVE recheck' \in BOOLEAN
    BY <1>a, <2>c DEF Requeue, FirstChanges, SchedulerTypes
  <2> HIDE DEF Called
  <2>2. CASE NoEffect(t) \/ Replenish(t) \/ \E u \in Threads : CreateThread(t, u)
    BY <1>a, <2>2, <2>b DEF Called, NoEffect, Replenish, CreateThread, Create, CreateHandler, SysCall, SchedulerTypes
  <2>3. CASE Yield(t)
    BY <1>a, <2>3, <2>b, <2>c DEF Called, Yield, SysCall, SchedulerTypes
  <2>4. CASE Sleep(t) \/ PeriodicWait(t)
    BY <1>a, <2>4, <2>b, <2>c DEF Called, Sleep, WaitUntil, PeriodicWait, SysCall, SchedulerTypes
  <2>5. CASE RaiseSync(t)
    BY <1>a, <2>5, <2>b DEF Called, RaiseSync, AddErrorBit, SysCall, SchedulerTypes
  <2>6. CASE StopSelf(t) \/ StopHandler(t) \/ \E u \in Threads : StopNow(t, u)
    <3>1. PICK S, invalidate : StopAll(S, invalidate)
      BY <2>6 DEF StopSelf, StopHandler, StopNow
    <3>2. Called
      BY <2>6 DEF StopSelf, StopHandler, StopNow, SysCall, Called
    <3>3. lockLevel' \in 0 .. MaxLock /\ locked' \in Thread0
      BY <1>a, <3>1 DEF StopAll, SchedulerTypes
    <3>4. recheck' \in BOOLEAN
      BY <1>a, <3>1 DEF StopAll, StopsLocked, Requeue, FirstChanges, SchedulerTypes
    <3> QED
      BY <2>a, <3>2, <3>3, <3>4
  <2>7. CASE Lock(t)
    <3>1. lockLevel' \in 0 .. MaxLock /\ locked' \in Thread0
      BY <1>a, <2>7 DEF Lock, SchedulerTypes
    <3> QED
      BY <1>a, <2>7, <2>a, <3>1 DEF Called, Lock, SysCall, SchedulerTypes
  <2>8. CASE Unlock(t)
    <3>1. lockLevel' \in 0 .. MaxLock /\ locked' \in Thread0
      BY <1>a, <2>8 DEF Unlock, SchedulerTypes
    <3>2. recheck' \in BOOLEAN
      BY <1>a, <2>8 DEF Unlock, Requeue, FirstChanges, SchedulerTypes
    <3> QED
      BY <2>8, <2>a, <3>1, <3>2 DEF Called, Unlock, SysCall
  <2>9. CASE \E flag \in BOOLEAN : SuspendSelf(t, flag)
    BY <2>9, <2>b, <2>c DEF Called, SuspendSelf, SysCall
  <2>10. CASE \E u \in Threads : Suspend(t, u)
    BY <2>10, <2>b, <2>c DEF Called, Suspend, SysCall
  <2>11. CASE \E u \in Threads : Resume(t, u)
    BY <2>11, <2>b, <2>c DEF Called, Resume, SysCall
  <2>12. CASE \E u \in Threads : \E p \in Priorities : SetPriority(t, u, p)
    BY <1>a, <2>12, <2>b, <2>c DEF Called, SetPriority, SysCall, SchedulerTypes
  <2>13. ASSUME NEW u \in Threads, NEW later \in BOOLEAN, Start(t, u, later)
         PROVE  SchedulerTypes'
    BY <1>a, <2>13, <2>b, <2>c DEF Called, Start, SysCall, SchedulerTypes
  <2>14. CASE SetModeNormal(t)
    BY <2>14, <2>a DEF Called, SetModeNormal, SysCall
  <2> QED
    BY <1>1, <2>1, <2>2, <2>3, <2>4, <2>5, <2>6, <2>7, <2>8, <2>9, <2>10, <2>11, <2>12, <2>13, <2>14
    DEF CallCase, ThreadStep, StartLimited
<1>2. CASE Idle \/ UNCHANGED partitionVars \/ Interrupt
  BY <1>2, <1>a DEF Idle, partitionVars, vars, Interrupt, lock, choice, SchedulerTypes
<1>3. ASSUME NEW m, Restart(m) PROVE SchedulerTypes'
  <2>1. 1 \in 0 .. MaxLock
    OBVIOUS
  <2> QED
    BY <1>3, <1>a, <2>1 DEF Restart, SchedulerTypes
<1>4. CASE Select
  <2>a. CASE ~recheck /\ UNCHANGED <<recheck, choice>>
    BY <1>4, <1>a, <2>a DEF Select, choice, lock, SchedulerTypes
  <2>b. CASE recheck /\ ~recheck' /\ current' = Choice /\ selected' = Choice
    <3>1. recheck' = FALSE /\ disabled' = FALSE /\ UNCHANGED lock
      BY <1>4, <2>b DEF Select
    <3>2. isErrorHandler' = (mode = "normal" /\ handler # None /\ Choice = handler)
      BY <1>4, <2>b DEF Select
    <3>3. isErrorHandler' \in BOOLEAN
      BY <3>2
    <3> QED
      BY <1>a, <2>b, <3>1, <3>3, ChoiceTyped DEF lock, SchedulerTypes
  <2> QED
    BY <1>4, <2>a, <2>b, Selection
<1>5. ASSUME NEW t \in Threads, Reported(t) \/ NotReported(t) PROVE SchedulerTypes'
  BY <1>5, <1>a DEF Reported, NotReported, vars, lock, choice, AddErrorBit, SchedulerTypes
<1>6. ASSUME NEW t \in Threads, Expire(t) PROVE SchedulerTypes'
  <2>1. recheck' \in BOOLEAN
    BY <1>6, <1>a DEF Expire, WakeUp, Requeue, FirstChanges, SchedulerTypes
  <2> QED
    BY <1>6, <1>a, <2>1 DEF Expire, lock, choice, SchedulerTypes
<1> QED
  BY <1>1, <1>2, <1>3, <1>4, <1>5, <1>6, StepCases

(* No step enters a critical section.                                      *)
LEMMA SectionTypesStep ==
  ASSUME TypeInv, NoSections, [PartitionNext]_partitionVars
  PROVE  SectionTypes' /\ NoSections'
<1> USE ConstantTypes
<1>a. /\ entering = [t \in Threads |-> None] /\ userEntering = [t \in Threads |-> None]
      /\ msectionCount = [t \in Threads |-> 0]
  BY TypeParts DEF SectionTypes, NoSections
<1>c. SectionTypes
  BY TypeParts
<1> DEFINE Same == UNCHANGED <<waitResult, entering, stops, waitingSection, shared>>
<1>b. ASSUME Same PROVE SectionTypes' /\ NoSections'
  BY <1>b, <1>c DEF stops, shared, SectionTypes, NoSections
<1> HIDE DEF Same
<1>1. ASSUME NEW t \in Threads, CallCase(t) PROVE SectionTypes' /\ NoSections'
  <2>1. CASE NoEffect(t) \/ Yield(t) \/ Lock(t) \/ Unlock(t) \/ Replenish(t) \/ RaiseSync(t)
             \/ GetError(t) \/ Unlink(t) \/ (\E u \in Threads : CreateThread(t, u))
             \/ Sleep(t) \/ PeriodicWait(t) \/ SetModeNormal(t)
    BY <2>1, <1>b DEF Same, choice, NoEffect, Yield, Lock, Unlock, Replenish, RaiseSync, GetError,
       Unlink, CreateThread, Sleep, WaitUntil, PeriodicWait, SetModeNormal, vars
  <2>2. CASE \/ \E flag \in BOOLEAN : SuspendSelf(t, flag)
             \/ \E u \in Threads : \/ Suspend(t, u) \/ Resume(t, u)
                                  \/ \E p \in Priorities : SetPriority(t, u, p)
    BY <2>2, <1>b DEF Same, choice, SuspendSelf, Suspend, Resume, SetPriority
  <2>3. CASE StopSelf(t) \/ StopHandler(t) \/ \E u \in Threads : StopNow(t, u)
    <3>1. PICK S, invalidate : StopAll(S, invalidate)
      BY <2>3 DEF StopSelf, StopHandler, StopNow
    <3>2. entering' = entering
      BY <1>a, <3>1 DEF StopAll
    <3>3. UNCHANGED <<waitResult, stops, choice, shared>>
      BY <2>3, <3>1 DEF StopSelf, StopHandler, StopNow, StopAll
    <3> QED
      BY <1>b, <3>2, <3>3 DEF Same, choice
  <2>4. ASSUME NEW u \in Threads, NEW later \in BOOLEAN, Start(t, u, later)
        PROVE  SectionTypes' /\ NoSections'
    BY <1>a, <1>c, <2>4 DEF Start, stops, choice, SectionTypes, NoSections
  <2> QED
    BY <1>1, <2>1, <2>2, <2>3, <2>4 DEF CallCase, ThreadStep, StartLimited
<1>2. CASE \/ Idle \/ UNCHANGED partitionVars
           \/ \E t \in Threads : Reported(t) \/ NotReported(t)
  BY <1>2, <1>b DEF Same, choice, Idle, partitionVars, vars, Reported, NotReported
<1>3. ASSUME NEW m, Restart(m) PROVE SectionTypes' /\ NoSections'
  <2>1. waitingSection = None
    BY DEF NoSections
  <2> QED
    BY <1>3, <1>c, <2>1 DEF Restart, Everywhere, SectionTypes, NoSections
<1>4. CASE Select
  <2>1. UNCHANGED <<waitResult, stops, userEntering, msectionCount, killed>>
    BY <1>4 DEF Select
  <2>2. /\ UNCHANGED <<owner, entering>> /\ waitingSection' = None
        /\ reschedAfterLeave' \in [Sections -> BOOLEAN]
    BY <1>4, <1>c, Selection DEF choice, SectionTypes, NoSections
  <2> QED
    BY <1>c, <2>1, <2>2 DEF stops, SectionTypes, NoSections
<1>5. CASE Interrupt
  <2>1. entering' = entering
    BY <1>5, <1>a DEF Interrupt
  <2> QED
    BY <1>5, <1>b, <2>1 DEF Interrupt, Same, choice
<1>6. ASSUME NEW t \in Threads, Expire(t) PROVE SectionTypes' /\ NoSections'
  <2>1. UNCHANGED <<entering, stops, choice, shared>>
    BY <1>6 DEF Expire, WakeUp
  <2>2. waitResult' = waitResult \/ waitResult' = [u \in Threads |-> waitResult[u]]
    BY <1>6, <1>a DEF Expire, WakeUp
  <2> QED
    BY <1>c, <2>1, <2>2 DEF stops, choice, shared, SectionTypes, NoSections
<1> QED
  BY <1>1, <1>2, <1>3, <1>4, <1>5, <1>6, StepCases

(* Every step keeps the types of the partition's variables.                *)
LEMMA PartitionTypesStep ==
  ASSUME TypeInv, [PartitionNext]_partitionVars
  PROVE  PartitionTypes' /\ HealthTypeOK'
<1> USE ConstantTypes
<1>a. PartitionTypes /\ HealthTypeOK /\ errors \in Seq(Threads)
  BY TypeParts DEF PartitionTypes
<1>b. ASSUME NEW d \in [Threads -> {"none", "armed", "later"}]
      PROVE  DeadlinesFollow(d) \in [Threads -> {"none", "armed", "later"}]
  BY DEF DeadlinesFollow
<1>c. ASSUME HealthFollows PROVE PartitionTypes' /\ HealthTypeOK'
  BY <1>a, <1>b, <1>c DEF HealthFollows, Deadlines, partition, PartitionTypes, HealthTypeOK
<1>d. ASSUME NEW t \in Threads PROVE Listed(t) \in Seq(Threads)
  BY <1>a DEF Listed
<1>e. ASSUME UNCHANGED <<partition, errorBits, unlinking>>,
             deadline' \in [Threads -> {"none", "armed", "later"}]
      PROVE  PartitionTypes' /\ HealthTypeOK'
  BY <1>a, <1>e DEF partition, PartitionTypes, HealthTypeOK
<1>f. ASSUME NEW t \in Threads, NEW bit \in {"sync", "deadline"}, AddErrorBit(t, bit)
      PROVE  errors' \in Seq(Threads) /\ errorBits' \in [Threads -> SUBSET {"sync", "deadline"}]
  BY <1>a, <1>d, <1>f DEF AddErrorBit, HealthTypeOK
<1>1. ASSUME NEW t \in Threads, CallCase(t) PROVE PartitionTypes' /\ HealthTypeOK'
  <2>1. CASE PeriodicWait(t) \/ Replenish(t)
    BY <1>a, <1>e, <2>1 DEF PeriodicWait, Replenish, HealthTypeOK
  <2>2. CASE SetModeNormal(t)
    <3>1. PICK later : deadline' = [u \in Threads |-> IF u \notin Started \intersect Limited THEN "none"
                                         ELSE IF u \in later THEN "later" ELSE "armed"]
      BY <2>2 DEF SetModeNormal
    <3> QED
      BY <1>a, <2>2, <3>1 DEF SetModeNormal, PartitionTypes, HealthTypeOK
  <2>3. CASE RaiseSync(t)
    <3>1. errors' \in Seq(Threads) /\ errorBits' \in [Threads -> SUBSET {"sync", "deadline"}]
      BY <1>f, <2>3 DEF RaiseSync
    <3> QED
      BY <1>a, <2>3, <3>1 DEF RaiseSync, PartitionTypes, HealthTypeOK
  <2>4. CASE GetError(t)
    <3>1. Head(errors) \in Threads /\ UNCHANGED <<partition, deadline>>
          /\ errorBits' = [errorBits EXCEPT ![Head(errors)] = @ \ {FirstBit(Head(errors))}]
          /\ unlinking' \in {Head(errors), None}
      BY <1>a, <2>4 DEF GetError, vars
    <3> QED
      BY <1>a, <3>1 DEF partition, PartitionTypes, HealthTypeOK
  <2>5. CASE Unlink(t)
    <3>1. errors' \in Seq(Threads)
      BY <1>a, <2>5, WithoutOK DEF Unlink
    <3> QED
      BY <1>a, <2>5, <3>1 DEF Unlink, PartitionTypes, HealthTypeOK
  <2>6. CASE StopHandler(t)
    <3>1. errors' \in Seq(Threads)
      BY <1>a, <2>6 DEF StopHandler, Ignored
    <3>2. errorBits' \in [Threads -> SUBSET {"sync", "deadline"}]
      BY <1>a, <2>6 DEF StopHandler, HealthTypeOK
    <3> QED
      BY <1>a, <2>6, <3>1, <3>2 DEF StopHandler, PartitionTypes, HealthTypeOK
  <2>7. ASSUME NEW u \in Threads, CreateThread(t, u) PROVE PartitionTypes' /\ HealthTypeOK'
    BY <1>a, <2>7 DEF CreateThread, Create, CreateHandler, health, PartitionTypes, HealthTypeOK
  <2>8. ASSUME NEW u \in Threads, NEW later \in BOOLEAN, StartLimited(t, u, later)
        PROVE  PartitionTypes' /\ HealthTypeOK'
    BY <1>a, <1>e, <2>8 DEF StartLimited, HealthTypeOK
  <2> QED
    BY <1>1, <1>c, <2>1, <2>2, <2>3, <2>4, <2>5, <2>6, <2>7, <2>8 DEF CallCase
<1>2. CASE Idle
  BY <1>2, <1>a DEF Idle, health, PartitionTypes, HealthTypeOK
<1>3. CASE UNCHANGED partitionVars
  BY <1>3, <1>a DEF partitionVars, vars, health, partition, PartitionTypes, HealthTypeOK
<1>4. ASSUME NEW m \in {"cold", "warm"}, Restart(m) PROVE PartitionTypes' /\ HealthTypeOK'
  BY <1>4, <1>a DEF Restart, Everywhere, PartitionTypes, HealthTypeOK
<1>5. ASSUME NEW t \in Threads, Reported(t) PROVE PartitionTypes' /\ HealthTypeOK'
  <2>1. errors' \in Seq(Threads) /\ errorBits' \in [Threads -> SUBSET {"sync", "deadline"}]
    BY <1>f, <1>5 DEF Reported
  <2> QED
    BY <1>5, <1>a, <2>1 DEF Reported, PartitionTypes, HealthTypeOK
<1>6. ASSUME NEW t \in Threads, NotReported(t) PROVE PartitionTypes' /\ HealthTypeOK'
  BY <1>6, <1>a DEF NotReported, vars, partition, PartitionTypes, HealthTypeOK
<1> QED
  BY <1>1, <1>2, <1>3, <1>4, <1>5, <1>6, <1>c, StepCases

(* Every step keeps all types.                                             *)
LEMMA TypeInvStep ==
  ASSUME PartitionInv, [PartitionNext]_partitionVars
  PROVE  TypeInv' /\ NoSections'
<1>1. TypeInv /\ NoSections /\ ThreadTypes
  BY TypeParts DEF PartitionInv
<1> QED
  BY <1>1, ThreadTypesStep, SchedulerTypesStep, SectionTypesStep, PartitionTypesStep, QueueStep,
     TypePartsNext DEF Moves

--------------------------------------------------------------------------------
(* What a step may do to the state of a thread: stop it, let a created one *)
(* run, or change that of a process.                                       *)
StateMoves ==
  \A u \in Threads : state'[u] # state[u] =>
    \/ state'[u] = "stopped"
    \/ state'[u] = "runnable" /\ u \in created
    \/ u \in Processes

(* A call does no more,                                                    *)
LEMMA CallMoves ==
  ASSUME PartitionInv, NEW t \in Threads, CallCase(t)
  PROVE  StateMoves
<1> USE ConstantTypes
<1>1. ThreadTypes /\ created \subseteq Threads /\ handler \in Thread0
  BY TypeParts DEF PartitionInv, PartitionTypes
<1>2. CASE NoEffect(t) \/ Yield(t) \/ Lock(t) \/ Unlock(t) \/ Replenish(t) \/ RaiseSync(t)
           \/ GetError(t) \/ Unlink(t) \/ (\E u \in Threads : CreateThread(t, u))
           \/ \E u \in Threads : Suspend(t, u) \/ \E p \in Priorities : SetPriority(t, u, p)
  BY <1>2 DEF StateMoves, NoEffect, Yield, Lock, Unlock, Replenish, RaiseSync, GetError, Unlink,
     CreateThread, Suspend, SetPriority, vars
<1>3. CASE StopSelf(t) \/ StopHandler(t) \/ \E u \in Threads : StopNow(t, u)
  <2>1. PICK S, invalidate : StopAll(S, invalidate)
    BY <1>3 DEF StopSelf, StopHandler, StopNow
  <2> QED
    BY <2>1 DEF StopAll, StateMoves
<1>4. CASE Sleep(t) \/ PeriodicWait(t) \/ \E flag \in BOOLEAN : SuspendSelf(t, flag)
  <2>1. ~disabled /\ current = t /\ lockLevel = 0 /\ t # handler
    BY <1>4 DEF Sleep, WaitUntil, PeriodicWait, SuspendSelf, SysCall, WaitingAllowed
  <2>2. t \in Processes
    BY <2>1, Caller DEF BeginningCaller, HandlerCalls, ProcessCalls
  <2>3. \A u \in Threads \ {t} : state'[u] = state[u]
    BY <1>1, <1>4 DEF Sleep, WaitUntil, PeriodicWait, SuspendSelf, ThreadTypes
  <2> QED
    BY <2>2, <2>3 DEF StateMoves
<1>5. ASSUME NEW u \in Threads, Resume(t, u) PROVE StateMoves
  BY <1>1, <1>5 DEF Resume, Target, Processes, StateMoves, ThreadTypes
<1>6. ASSUME NEW u \in Threads, NEW later \in BOOLEAN, Start(t, u, later) PROVE StateMoves
  BY <1>1, <1>6 DEF Start, StateMoves, ThreadTypes
<1>7. CASE SetModeNormal(t)
  <2>1. PICK later :
          state' = [u \in Threads |-> IF u \in Started \ later THEN "runnable" ELSE state[u]]
    BY <1>7 DEF SetModeNormal
  <2> QED
    BY <1>1, <2>1 DEF Started, StateMoves, ThreadTypes
<1> QED
  BY <1>2, <1>3, <1>4, <1>5, <1>6, <1>7 DEF CallCase, ThreadStep, StartLimited

(* and neither does the scheduler.                                         *)
LEMMA KernelMoves ==
  ASSUME PartitionInv, Select \/ \E t \in Threads : Expire(t)
  PROVE  StateMoves
<1> USE ConstantTypes
<1>1. ThreadTypes /\ created \subseteq Threads /\ handler \in Thread0
      /\ (handler # None => handler \in created)
  BY TypeParts DEF PartitionInv, PartitionTypes, Created
<1>2. CASE Select
  BY <1>1, <1>2 DEF Select, StateMoves, ThreadTypes
<1>3. ASSUME NEW t \in Threads, Expire(t) PROVE StateMoves
  <2>1. t \in Processes
    BY <1>3, PendingProcess DEF PartitionInv, EventsOfActive, Expire
  <2>a. ToSet(<<t>>) = {t}
    BY DEF ToSet
  <2>2. \A u \in Threads \ {t} : state'[u] = state[u]
    <3>1. CASE delayed[t] = "wake"
      <4>1. state' = [u \in Threads |-> IF u \in ToSet(<<t>>) THEN "runnable" ELSE state[u]]
        BY <1>3, <3>1 DEF Expire, WakeUp
      <4> QED
        BY <2>a, <4>1
    <3>2. CASE delayed[t] = "resume"
      BY <1>1, <1>3, <3>2 DEF Expire, ThreadTypes
    <3> QED
      BY <1>3, <3>1, <3>2 DEF Expire
  <2> QED
    BY <2>1, <2>2 DEF StateMoves
<1> QED
  BY <1>2, <1>3

(* So the main thread and the handler keep their roles.                    *)
LEMMA CreatedStep ==
  ASSUME PartitionInv, [PartitionNext]_partitionVars
  PROVE  Created'
<1> USE ConstantTypes, LimitedAssumption
<1>1. ThreadTypes /\ PartitionTypes /\ Created
  BY TypeParts DEF PartitionInv
<1>2. ASSUME StateMoves, UNCHANGED <<created, handler>> PROVE Created'
  BY <1>1, <1>2 DEF StateMoves, Created, Processes, PartitionTypes, Thread0
<1>3. ASSUME NEW t \in Threads, CallCase(t) PROVE Created'
  <2>1. CASE \E u \in Threads : CreateThread(t, u)
    <3>1. PICK u \in Threads : CreateThread(t, u)
      BY <2>1
    <3>2. /\ u \notin created /\ created' = created \union {u} /\ state' = state
          /\ handler' = handler \/ (handler' = u /\ u \notin Limited)
      BY <3>1 DEF CreateThread, Create, CreateHandler
    <3>3. state[u] = "stopped" /\ u # Main
      BY <1>1, <3>2 DEF Created
    <3> QED
      BY <1>1, <3>2, <3>3 DEF Created, PartitionTypes
  <2>2. CASE ~\E u \in Threads : CreateThread(t, u)
    <3>1. UNCHANGED <<created, handler>>
      BY <1>3, <2>2 DEF CallCase, HealthFollows, PeriodicWait, SetModeNormal, Replenish, RaiseSync,
         GetError, Unlink, StopHandler, StartLimited, partition, vars
    <3> QED
      BY <1>2, <1>3, <3>1, CallMoves
  <2> QED
    BY <2>1, <2>2
<1>4. CASE Idle \/ UNCHANGED partitionVars \/ \E t \in Threads : Reported(t) \/ NotReported(t)
  <2>1. UNCHANGED <<state, created, handler>>
    BY <1>4 DEF Idle, Reported, NotReported, partitionVars, vars, partition
  <2> QED
    BY <1>1, <2>1 DEF Created
<1>5. ASSUME NEW m, Restart(m) PROVE Created'
  BY <1>5 DEF Restart, OnlyMain, Created
<1>6. CASE Select /\ HealthFollows
  BY <1>2, <1>6, KernelMoves DEF HealthFollows, partition
<1>8. CASE Interrupt /\ HealthFollows
  BY <1>2, <1>8 DEF Interrupt, HealthFollows, StateMoves, partition
<1>7. ASSUME NEW t \in Threads, Expire(t), HealthFollows PROVE Created'
  BY <1>2, <1>7, KernelMoves DEF HealthFollows, partition
<1> QED
  BY <1>3, <1>4, <1>5, <1>6, <1>7, <1>8, StepCases

(* A deadline is only given to a process with a time capacity: by START, the*)
(* start of the mode NORMAL, REPLENISH or the end of a period.             *)
LEMMA OnlyLimitedStep ==
  ASSUME PartitionInv, [PartitionNext]_partitionVars
  PROVE  OnlyLimited'
<1> USE ConstantTypes, LimitedAssumption
<1>1. HealthTypeOK /\ OnlyLimited
  BY TypeParts DEF PartitionInv
<1>2. ASSUME Deadlines PROVE OnlyLimited'
  BY <1>1, <1>2 DEF Deadlines, DeadlinesFollow, OnlyLimited
<1>3. ASSUME NEW t \in Threads, CallCase(t) PROVE OnlyLimited'
  <2>1. CASE UNCHANGED deadline
    BY <1>1, <2>1 DEF OnlyLimited
  <2>2. ASSUME NEW u \in Limited, NEW d, deadline' = [deadline EXCEPT ![u] = d] PROVE OnlyLimited'
    BY <1>1, <2>2 DEF OnlyLimited, HealthTypeOK
  <2>3. CASE SetModeNormal(t)
    <3>1. \A u \in Threads \ Limited : deadline'[u] = "none"
      BY <2>3 DEF SetModeNormal
    <3> QED
      BY <3>1 DEF OnlyLimited
  <2>4. CASE PeriodicWait(t) \/ Replenish(t) \/ \E u \in Threads, later \in BOOLEAN : StartLimited(t, u, later)
    BY <2>2, <2>4 DEF PeriodicWait, Replenish, StartLimited
  <2> QED
    BY <1>2, <1>3, <2>1, <2>3, <2>4 DEF CallCase, HealthFollows, RaiseSync, GetError, Unlink, StopHandler, CreateThread, health
<1>4. CASE Idle \/ UNCHANGED partitionVars
  BY <1>1, <1>4 DEF Idle, partitionVars, health, OnlyLimited
<1>5. ASSUME NEW m, Restart(m) PROVE OnlyLimited'
  BY <1>5 DEF Restart, Everywhere, OnlyLimited
<1>6. ASSUME NEW t \in Threads, Reported(t) \/ NotReported(t) PROVE OnlyLimited'
  BY <1>1, <1>6 DEF Reported, NotReported, OnlyLimited, HealthTypeOK
<1> QED
  BY <1>2, <1>3, <1>4, <1>5, <1>6, StepCases DEF HealthFollows

(* A call is made by the running thread with preemption enabled, and changes*)
(* the mode to NORMAL only.                                                *)
LEMMA CallFacts ==
  ASSUME NEW t \in Threads, CallCase(t)
  PROVE  ~disabled /\ current = t /\ mode' \in {mode, "normal"}
<1>1. ~disabled /\ current = t
  BY DEF CallCase, ThreadStep, SysCall, NoEffect, StopSelf, Sleep, WaitUntil, Yield, Lock, Unlock, SuspendSelf,
     StopNow, Suspend, Resume, Start, SetPriority, PeriodicWait, SetModeNormal, Replenish,
     RaiseSync, GetError, Unlink, StopHandler, CreateThread, Create, CreateHandler, StartLimited
<1>2. mode' \in {mode, "normal"}
  BY DEF CallCase, HealthFollows, PeriodicWait, SetModeNormal, Replenish, RaiseSync,
     GetError, Unlink, StopHandler, StartLimited, CreateThread, Create, CreateHandler, partition, vars
<1> QED
  BY <1>1, <1>2

(* Only set_mode IDLE and a fixed action lead to the mode IDLE, and both   *)
(* disable preemption; no call is made from there.                         *)
LEMMA RestingStep ==
  ASSUME PartitionInv, [PartitionNext]_partitionVars
  PROVE  Resting'
<1>1. Resting
  BY DEF PartitionInv
<1>2. ASSUME NEW t \in Threads, CallCase(t) PROVE Resting'
  <2> QED
    BY <1>1, <1>2, CallFacts DEF Resting
<1>3. CASE Idle \/ \E m \in {"cold", "warm"} : Restart(m)
  BY <1>3 DEF Idle, Restart, Resting
<1>4. CASE mode # "idle" /\ HealthFollows
  BY <1>4 DEF HealthFollows, partition, Resting
<1>5. CASE UNCHANGED partitionVars
  BY <1>1, <1>5 DEF partitionVars, vars, partition, Resting
<1>6. ASSUME NEW t \in Threads, Reported(t) \/ NotReported(t) PROVE Resting'
  BY <1>1, <1>6 DEF Reported, NotReported, vars, partition, Resting
<1> QED
  BY <1>2, <1>3, <1>4, <1>5, <1>6, StepCases

(* The list of errors grows only when there is a handler, and a restart    *)
(* empties it.                                                             *)
LEMMA HandledStep ==
  ASSUME PartitionInv, [PartitionNext]_partitionVars
  PROVE  Handled'
<1> USE ConstantTypes
<1>1. Handled /\ errors \in Seq(Threads)
  BY TypeParts DEF PartitionInv, PartitionTypes
<1>2. CASE UNCHANGED <<handler, errors>>
  BY <1>1, <1>2 DEF Handled
<1>3. ASSUME NEW t \in Threads, CallCase(t) PROVE Handled'
  <2>1. CASE RaiseSync(t) \/ Unlink(t) \/ StopHandler(t)
    BY <2>1 DEF RaiseSync, HandlerSees, Unlink, StopHandler, Handled
  <2>2. CASE \E u \in Threads : CreateThread(t, u)
    BY <1>1, <2>2 DEF CreateThread, Create, CreateHandler, Handled
  <2> QED
    BY <1>2, <1>3, <2>1, <2>2 DEF CallCase, HealthFollows, PeriodicWait, SetModeNormal, Replenish,
       GetError, StartLimited, partition, vars
<1>4. CASE \E m \in {"cold", "warm"} : Restart(m)
  BY <1>4 DEF Restart, Handled
<1>5. CASE \E t \in Threads : Reported(t)
  BY <1>5 DEF Reported, HandlerSees, Handled
<1> QED
  BY <1>2, <1>3, <1>4, <1>5, StepCases DEF Idle, NotReported, HealthFollows, partitionVars, vars, partition

--------------------------------------------------------------------------------
(* What a step may do to a thread and its delayed events.                  *)
Pending(u) ==
  /\ delayed'[u] # "none" => state'[u] = "waiting"
  /\ delayed'[u] = "resume" => suspended'[u]
  /\ deadline[u] = "later" => delayed'[u] = "wake" \/ state'[u] # "waiting"

(* A thread whose state, delayed event and suspension do not change still  *)
(* satisfies it.                                                           *)
LEMMA PendingSame ==
  ASSUME PartitionInv, NEW u, u \in Threads, UNCHANGED <<state[u], delayed[u], suspended[u]>>
  PROVE  Pending(u)
BY DEF PartitionInv, EventsOfActive, Pending

(* Such a step, with the deadlines that follow it, keeps EventsOfActive.   *)
LEMMA EventsFollow ==
  ASSUME PartitionInv, ThreadTypes', Deadlines, mode' = mode, \A u \in Threads : Pending(u)
  PROVE  EventsOfActive'
<1>1. /\ \A u \in Threads : state'[u] \in {"stopped", "runnable", "waiting"}
      /\ HealthTypeOK
  BY TypeParts DEF PartitionInv, ThreadTypes
<1>2. \A u \in Threads : deadline'[u] = IF state'[u] = "stopped" THEN "none"
        ELSE IF deadline[u] = "later" /\ state'[u] = "runnable" THEN "armed" ELSE deadline[u]
  BY DEF Deadlines, DeadlinesFollow
<1> QED
  BY <1>1, <1>2 DEF Pending, EventsOfActive

(* Every call that changes threads is such a step: a thread that waits has *)
(* not been waiting, a stopped one loses its event.                        *)
LEMMA CallPending ==
  ASSUME PartitionInv, NEW t \in Threads, ThreadStep(t), mode' = mode
  PROVE  \A u \in Threads : Pending(u)
<1> USE ConstantTypes
<1>1. ThreadTypes /\ HealthTypeOK /\ EventsOfActive
  BY TypeParts DEF PartitionInv
<1>0. ASSUME NEW u \in Threads, Pending(u),
             \A v \in Threads \ {u} : UNCHANGED <<state[v], delayed[v], suspended[v]>>
      PROVE  \A v \in Threads : Pending(v)
  BY <1>0, PendingSame
<1>2. CASE NoEffect(t) \/ Yield(t) \/ Lock(t) \/ Unlock(t)
           \/ \E u \in Threads : \E p \in Priorities : SetPriority(t, u, p)
  <2>1. UNCHANGED <<state, delayed, suspended>>
    BY <1>2 DEF NoEffect, Yield, Lock, Unlock, SetPriority
  <2> QED
    BY <2>1, PendingSame
<1>3. ASSUME NEW u \in Threads, StopAll({u}, TRUE) \/ StopAll({u}, FALSE)
      PROVE  \A v \in Threads : Pending(v)
  <2>1. UNCHANGED suspended
        /\ state' = [v \in Threads |-> IF v \in {u} THEN "stopped" ELSE state[v]]
        /\ delayed' = [v \in Threads |-> IF v \in {u} THEN "none" ELSE delayed[v]]
    BY <1>3 DEF StopAll, DelayedWithout
  <2>2. Pending(u)
    BY <2>1 DEF Pending
  <2> QED
    BY <1>0, <2>1, <2>2
<1>4. CASE Sleep(t) \/ \E flag \in BOOLEAN : SuspendSelf(t, flag)
  <2>1. ~disabled /\ current = t /\ lockLevel = 0 /\ t # handler
    BY <1>4 DEF Sleep, WaitUntil, SuspendSelf, SysCall, WaitingAllowed
  <2>2. state[t] = "runnable"
    BY <2>1, Caller DEF BeginningCaller, HandlerCalls, ProcessCalls
  <2>3. delayed[t] = "none" /\ deadline[t] # "later"
    BY <1>1, <2>2 DEF EventsOfActive
  <2>4. CASE Sleep(t)
    <3>1. Pending(t)
      BY <1>1, <2>3, <2>4 DEF Sleep, WaitUntil, Pending, ThreadTypes
    <3> QED
      BY <1>0, <1>1, <2>4, <3>1 DEF Sleep, WaitUntil, ThreadTypes
  <2>5. ASSUME NEW flag \in BOOLEAN, SuspendSelf(t, flag) PROVE \A v \in Threads : Pending(v)
    <3>1. Pending(t)
      BY <1>1, <2>2, <2>3, <2>5 DEF SuspendSelf, Pending, ThreadTypes
    <3> QED
      BY <1>0, <1>1, <2>5, <3>1 DEF SuspendSelf, ThreadTypes
  <2> QED
    BY <1>4, <2>4, <2>5
<1>5. ASSUME NEW u \in Threads, Suspend(t, u) PROVE \A v \in Threads : Pending(v)
  <2>1. Pending(u)
    BY <1>1, <1>5 DEF Suspend, Pending, EventsOfActive, ThreadTypes
  <2> QED
    BY <1>0, <1>1, <1>5, <2>1 DEF Suspend, ThreadTypes
<1>6. ASSUME NEW u \in Threads, Resume(t, u) PROVE \A v \in Threads : Pending(v)
  <2>1. Pending(u)
    BY <1>1, <1>6 DEF Resume, Pending, EventsOfActive, ThreadTypes
  <2> QED
    BY <1>0, <1>1, <1>6, <2>1 DEF Resume, ThreadTypes
<1>7. ASSUME NEW u \in Threads, NEW later \in BOOLEAN, Start(t, u, later)
      PROVE  \A v \in Threads : Pending(v)
  <2>1. state[u] = "stopped" /\ delayed[u] = "none" /\ deadline[u] = "none"
    BY <1>1, <1>7 DEF Start, EventsOfActive
  <2>2. Pending(u)
    BY <1>1, <1>7, <2>1 DEF Start, Pending, ThreadTypes
  <2> QED
    BY <1>0, <1>1, <1>7, <2>2 DEF Start, ThreadTypes
<1> QED
  BY <1>2, <1>3, <1>4, <1>5, <1>6, <1>7 DEF ThreadStep, StopSelf, StopNow

(* And so is every step of the scheduler.                                  *)
LEMMA KernelPending ==
  ASSUME PartitionInv, Select \/ Interrupt \/ \E t \in Threads : Expire(t)
  PROVE  \A u \in Threads : Pending(u)
<1> USE ConstantTypes
<1>1. ThreadTypes /\ HealthTypeOK /\ EventsOfActive /\ Created
  BY TypeParts DEF PartitionInv
<1>0. ASSUME NEW u \in Threads, Pending(u),
             \A v \in Threads \ {u} : UNCHANGED <<state[v], delayed[v], suspended[v]>>
      PROVE  \A v \in Threads : Pending(v)
  BY <1>0, PendingSame
<1>2. CASE Interrupt
  BY <1>2, PendingSame DEF Interrupt
<1>3. CASE Select /\ state' = state
  BY <1>3, PendingSame DEF Select
<1>4. CASE Select /\ state' # state
  <2>1. state' = [t \in Threads |-> IF isErrorHandler' /\ t = handler THEN "runnable" ELSE state[t]]
        /\ UNCHANGED <<delayed, suspended>>
    BY <1>4 DEF Select
  <2>2. handler \in Threads
    BY <1>1, <1>4, <2>1 DEF ThreadTypes
  <2>3. delayed[handler] = "none" /\ deadline[handler] # "later"
    BY <1>1, <2>2 DEF Created, EventsOfActive
  <2>4. Pending(handler)
    BY <1>1, <1>4, <2>1, <2>2, <2>3 DEF Pending, ThreadTypes
  <2> QED
    BY <1>0, <2>1, <2>2, <2>4
<1>5. ASSUME NEW t \in Threads, Expire(t) PROVE \A u \in Threads : Pending(u)
  <2>a. ToSet(<<t>>) = {t}
    BY DEF ToSet
  <2>1. CASE delayed[t] = "wake"
    <3>1. /\ state' = [u \in Threads |-> IF u \in ToSet(<<t>>) THEN "runnable" ELSE state[u]]
          /\ delayed' = [u \in Threads |-> IF u \in ToSet(<<t>>) THEN "none" ELSE delayed[u]]
          /\ suspended' = suspended
      BY <1>5, <2>1 DEF Expire, WakeUp
    <3>2. Pending(t)
      BY <2>a, <3>1 DEF Pending
    <3> QED
      BY <1>0, <2>a, <3>1, <3>2
  <2>2. CASE delayed[t] = "resume"
    <3>1. Pending(t)
      BY <1>1, <1>5, <2>2 DEF Expire, Pending, ThreadTypes
    <3> QED
      BY <1>0, <1>1, <1>5, <2>2, <3>1 DEF Expire, ThreadTypes
  <2> QED
    BY <1>5, <2>1, <2>2 DEF Expire
<1> QED
  BY <1>2, <1>3, <1>4, <1>5

(* Every step keeps EventsOfActive; the calls that set a deadline by       *)
(* themselves have a case each.                                            *)
LEMMA EventsOfActiveStep ==
  ASSUME PartitionInv, [PartitionNext]_partitionVars
  PROVE  EventsOfActive'
<1> USE ConstantTypes, LimitedAssumption
<1>1. ThreadTypes /\ HealthTypeOK /\ PartitionTypes /\ EventsOfActive
  BY TypeParts DEF PartitionInv
<1>2. ThreadTypes'
  BY <1>1, ThreadTypesStep
<1>3. CASE UNCHANGED <<state, delayed, suspended, deadline, mode>>
  BY <1>1, <1>3 DEF EventsOfActive
<1>4. ASSUME NEW t \in Threads, CallCase(t) PROVE EventsOfActive'
  <2>1. CASE ThreadStep(t) /\ HealthFollows
    BY <1>2, <2>1, CallPending, EventsFollow DEF HealthFollows, partition
  <2>2. CASE PeriodicWait(t)
    <3>1. WaitUntil(t, "wake") /\ deadline' = [deadline EXCEPT ![t] = "later"] /\ mode' = mode
      BY <2>2 DEF PeriodicWait, partition
    <3> QED
      BY <1>1, <3>1 DEF WaitUntil, EventsOfActive, ThreadTypes, HealthTypeOK
  <2>3. CASE SetModeNormal(t)
    <3>1. PICK later \in SUBSET Started :
            /\ state' = [u \in Threads |-> IF u \in Started \ later THEN "runnable" ELSE state[u]]
            /\ delayed' = [u \in Threads |-> IF u \in later THEN "wake" ELSE delayed[u]]
            /\ deadline' = [u \in Threads |-> IF u \notin Started \intersect Limited THEN "none"
                                              ELSE IF u \in later THEN "later" ELSE "armed"]
      BY <2>3 DEF SetModeNormal
    <3>2. mode \in {"cold", "warm"} /\ mode' = "normal"
      BY <2>3 DEF SetModeNormal
    <3>3. \A u \in Threads : delayed[u] = "none"
      BY <3>2 DEF PartitionInv, Beginning
    <3>4. \A u \in Started : state[u] = "waiting"
      BY <3>2, StartedProcesses
    <3>5. \A u \in Threads : state[u] = "waiting" => u \in Started
      BY <1>1, PendingProcess DEF Started, Processes
    <3> QED
      BY <3>1, <3>2, <3>3, <3>4, <3>5 DEF EventsOfActive
  <2>4. CASE Replenish(t)
    <3>1. ~disabled /\ current = t /\ t # handler /\ mode = "normal"
      BY <2>4 DEF Replenish, SysCall
    <3>2. state[t] = "runnable"
      BY <3>1, Caller DEF BeginningCaller, HandlerCalls, ProcessCalls
    <3>3. PICK d \in {"armed", "none"} : deadline' = [deadline EXCEPT ![t] = d]
      BY <2>4 DEF Replenish
    <3>4. UNCHANGED <<state, delayed, suspended, mode>>
      BY <2>4 DEF Replenish, partition
    <3> QED
      BY <1>1, <3>2, <3>3, <3>4 DEF EventsOfActive, HealthTypeOK
  <2>5. CASE StopHandler(t)
    <3>1. t = handler /\ StopAll({t}, TRUE) /\ UNCHANGED <<deadline, mode>>
      BY <2>5 DEF StopHandler
    <3>2. /\ state' = [u \in Threads |-> IF u \in {t} THEN "stopped" ELSE state[u]]
          /\ delayed' = [u \in Threads |-> IF u \in {t} THEN "none" ELSE delayed[u]]
          /\ suspended' = suspended
      BY <3>1 DEF StopAll, DelayedWithout
    <3>3. deadline[t] = "none"
      BY <3>1 DEF PartitionInv, Created, OnlyLimited
    <3> QED
      BY <1>1, <3>1, <3>2, <3>3 DEF EventsOfActive
  <2>6. ASSUME NEW u \in Threads, NEW later \in BOOLEAN, StartLimited(t, u, later)
        PROVE  EventsOfActive'
    <3>1. /\ Start(t, u, later) /\ mode' = mode
          /\ deadline' = [deadline EXCEPT ![u] =
               IF mode # "normal" THEN "none" ELSE IF later THEN "later" ELSE "armed"]
      BY <2>6 DEF StartLimited, partition
    <3>2. state[u] = "stopped" /\ delayed[u] = "none"
      BY <1>1, <3>1 DEF Start, EventsOfActive
    <3>3. /\ suspended' = suspended /\ (mode # "normal" => later)
          /\ state'[u] = IF later THEN "waiting" ELSE "runnable"
          /\ delayed'[u] = IF later /\ mode = "normal" THEN "wake" ELSE "none"
          /\ deadline'[u] = IF mode # "normal" THEN "none" ELSE IF later THEN "later" ELSE "armed"
      BY <1>1, <3>1, <3>2 DEF Start, ThreadTypes, HealthTypeOK
    <3>4. \A v \in Threads \ {u} : UNCHANGED <<state[v], delayed[v], deadline[v]>>
      BY <1>1, <3>1 DEF Start, ThreadTypes, HealthTypeOK
    <3> QED
      BY <1>1, <3>1, <3>3, <3>4 DEF EventsOfActive
  <2> QED
    BY <1>3, <1>4, <2>1, <2>2, <2>3, <2>4, <2>5, <2>6
    DEF CallCase, RaiseSync, GetError, Unlink, CreateThread, Create, CreateHandler, health, vars, partition
<1>5. CASE Idle
  BY <1>1, <1>5 DEF Idle, health, EventsOfActive
<1>6. ASSUME NEW m, Restart(m) PROVE EventsOfActive'
  BY <1>6 DEF Restart, OnlyMain, Everywhere, EventsOfActive
<1>7. ASSUME NEW t \in Threads, Reported(t) \/ NotReported(t) PROVE EventsOfActive'
  BY <1>1, <1>7 DEF Reported, NotReported, vars, partition, EventsOfActive, HealthTypeOK
<1>8. CASE (Select \/ Interrupt) /\ HealthFollows
  BY <1>2, <1>8, KernelPending, EventsFollow DEF HealthFollows, partition
<1>9. ASSUME NEW t \in Threads, Expire(t), HealthFollows PROVE EventsOfActive'
  BY <1>2, <1>9, KernelPending, EventsFollow DEF HealthFollows, partition
<1> QED
  BY <1>3, <1>4, <1>5, <1>6, <1>7, <1>8, <1>9, StepCases DEF partitionVars, vars, partition, health

--------------------------------------------------------------------------------
(* A list that holds nothing is empty.                                     *)
LEMMA NoMembers ==
  ASSUME NEW q \in Seq(Threads), ToSet(q) = {}
  PROVE  q = <<>>
<1>1. Len(q) \in Nat
  OBVIOUS
<1>2. CASE Len(q) = 0
  BY <1>2
<1>3. CASE Len(q) # 0
  <2>1. 1 \in 1 .. Len(q)
    BY <1>1, <1>3
  <2>2. q[1] \in ToSet(q)
    BY <2>1 DEF ToSet
  <2> QED
    BY <2>2
<1> QED
  BY <1>2, <1>3

(* The invariant Beginning, but for the list of eligible threads, after a  *)
(* step.                                                                   *)
StillBeginning ==
  /\ errors' = <<>>
  /\ \A t \in Threads : delayed'[t] = "none" /\ deadline'[t] = "none"
  /\ \A t \in Threads \ {Main} : state'[t] # "runnable"
  /\ handler' # None => state'[handler'] = "stopped"
  /\ current' \in {Main, None}
  /\ state'[Main] # "stopped" => lockLevel' = 1 /\ locked' = Main
  /\ ~recheck' \/ ~disabled' => current' = Choice'

(* The list is then empty too, because it holds only what may run.         *)
LEMMA BeginningFollows ==
  ASSUME PartitionInv, [PartitionNext]_partitionVars, StillBeginning
  PROVE  Beginning'
<1>1. Main \in created'
  BY CreatedStep DEF Created
<1>2. Runnable' = {}
  BY TypeInvStep DEF StillBeginning, Runnable, Processes, TypeInv, TypeOK
<1>3. eligible' = <<>>
  BY <1>2, QueueStep, NoMembers DEF Moves
<1> QED
  BY <1>3 DEF StillBeginning, Beginning

(* What the main thread does before the mode NORMAL: it creates, starts and*)
(* stops processes, none of which runs, and keeps the lock.                *)
LEMMA BeginningCalls ==
  ASSUME PartitionInv, [PartitionNext]_partitionVars, mode \in {"cold", "warm"},
         NEW t \in Threads, CallCase(t), mode' \in {"cold", "warm"}
  PROVE  StillBeginning
<1> USE ConstantTypes, LimitedAssumption
<1>1. ThreadTypes /\ HealthTypeOK /\ PartitionTypes /\ SchedulerTypes
      /\ (handler # None => handler # Main) /\ NoSections
  BY TypeParts DEF PartitionInv, Created
<1>2. /\ eligible = <<>> /\ errors = <<>>
      /\ \A u \in Threads : delayed[u] = "none" /\ deadline[u] = "none"
      /\ \A u \in Threads \ {Main} : state[u] # "runnable"
      /\ handler # None => state[handler] = "stopped"
      /\ current \in {Main, None}
      /\ state[Main] # "stopped" => lockLevel = 1 /\ locked = Main
  BY DEF PartitionInv, Beginning
<1>a. CASE ~disabled /\ current = t
  <2>1. t = Main /\ state[t] = "runnable" /\ lockLevel = 1 /\ locked = Main /\ current = Choice
    BY <1>a, Caller DEF BeginningCaller, HandlerCalls, ProcessCalls, PartitionInv, Beginning
  <2>2. \A u \in Threads : deadline'[u] # "none" => ~Deadlines
    BY <1>2 DEF Deadlines, DeadlinesFollow
  <2>3. ASSUME errors' = errors, handler' = handler, current' = current, mode' = mode,
               disabled' = TRUE, \A u \in Threads : delayed'[u] = "none" /\ deadline'[u] = "none",
               \A u \in Threads \ {Main} : state'[u] # "runnable",
               handler # None => state'[handler] = state[handler],
               \/ state'[Main] = state[Main] /\ UNCHANGED <<lockLevel, locked>>
               \/ state'[Main] = "stopped" /\ recheck'
        PROVE  StillBeginning
    BY <1>2, <2>1, <2>3 DEF StillBeginning, Choice
  <2>4. CASE ThreadStep(t) /\ HealthFollows
    <3>1. /\ errors' = errors /\ handler' = handler /\ mode' = mode
          /\ \A u \in Threads : deadline'[u] = "none"
      BY <2>2, <2>4 DEF HealthFollows, partition
    <3>2. mode # "normal"
      OBVIOUS
    <3>3. CASE NoEffect(t) \/ Yield(t)
               \/ \E u \in Threads : \E p \in Priorities : SetPriority(t, u, p)
      <4>1. UNCHANGED <<state, delayed, current, lockLevel, locked>> /\ disabled' = TRUE
        BY <3>3 DEF NoEffect, Yield, SetPriority, SysCall, choice, lock
      <4> QED
        BY <1>2, <2>3, <3>1, <4>1
    <3>4. CASE Lock(t) \/ Unlock(t) \/ Sleep(t) \/ \E flag \in BOOLEAN : SuspendSelf(t, flag)
      BY <2>1, <3>4 DEF Lock, Unlock, Sleep, WaitUntil, SuspendSelf, LockAllowed, WaitingAllowed
    <3>5. CASE StopSelf(t)
      <4>1. /\ state' = [u \in Threads |-> IF u \in {t} THEN "stopped" ELSE state[u]]
            /\ delayed' = [u \in Threads |-> IF u \in {t} THEN "none" ELSE delayed[u]]
            /\ recheck' /\ disabled' = TRUE /\ current' = current
        BY <3>5 DEF StopSelf, StopAll, DelayedWithout, Requeue, SysCall, choice
      <4> QED
        BY <1>1, <1>2, <2>1, <2>3, <3>1, <4>1 DEF PartitionTypes, Thread0
    <3>6. ASSUME NEW u \in Threads, StopNow(t, u) PROVE StillBeginning
      <4>1. /\ state' = [v \in Threads |-> IF v \in {u} THEN "stopped" ELSE state[v]]
            /\ delayed' = [v \in Threads |-> IF v \in {u} THEN "none" ELSE delayed[v]]
            /\ disabled' = TRUE /\ current' = current /\ u # t /\ u # handler
            /\ lockLevel' = IF StopsLocked({u}) THEN 0 ELSE lockLevel
            /\ locked' = IF StopsLocked({u}) THEN None ELSE locked
        BY <3>6 DEF StopNow, StopAll, DelayedWithout, SysCall, choice, Target, Processes
      <4>2. ~StopsLocked({u})
        BY <2>1, <4>1 DEF StopsLocked
      <4>3. /\ \A v \in Threads : delayed'[v] = "none"
            /\ \A v \in Threads \ {Main} : state'[v] # "runnable"
            /\ state'[Main] = state[Main]
        BY <1>2, <2>1, <4>1
      <4>4. handler # None => state'[handler] = state[handler]
        BY <1>1, <4>1 DEF PartitionTypes, Thread0
      <4>5. UNCHANGED <<lockLevel, locked, current>>
        BY <4>1, <4>2
      <4> QED
        BY <2>3, <3>1, <4>1, <4>3, <4>4, <4>5
    <3>7. ASSUME NEW u \in Threads, Suspend(t, u) \/ Resume(t, u) PROVE StillBeginning
      <4>1. UNCHANGED <<state, delayed, current, lockLevel, locked>> /\ disabled' = TRUE
        BY <1>2, <3>7 DEF Suspend, Resume, SysCall, choice, lock
      <4> QED
        BY <1>2, <2>3, <3>1, <4>1
    <3>8. ASSUME NEW u \in Threads, NEW later \in BOOLEAN, Start(t, u, later) PROVE StillBeginning
      <4>1. /\ state' = [state EXCEPT ![u] = "waiting"]
            /\ delayed' = [delayed EXCEPT ![u] = "none"]
            /\ disabled' = TRUE /\ UNCHANGED <<lockLevel, locked, current>> /\ u # Main /\ u # handler
        BY <3>8, <3>2 DEF Start, SysCall, choice, lock, Processes
      <4>2. /\ \A v \in Threads : delayed'[v] = "none"
            /\ \A v \in Threads \ {Main} : state'[v] # "runnable"
            /\ state'[Main] = state[Main]
            /\ handler # None => state'[handler] = state[handler]
        BY <1>1, <1>2, <4>1 DEF ThreadTypes
      <4> QED
        BY <2>3, <3>1, <4>1, <4>2
    <3> QED
      BY <2>4, <3>3, <3>4, <3>5, <3>6, <3>7, <3>8 DEF ThreadStep
  <2>5. ASSUME NEW u \in Threads, NEW later \in BOOLEAN, StartLimited(t, u, later)
        PROVE  StillBeginning
    <3>1. Start(t, u, later) /\ deadline' = [deadline EXCEPT ![u] = "none"]
          /\ UNCHANGED <<mode, errors, handler>>
      BY <2>5 DEF StartLimited, partition
    <3>2. /\ state' = [state EXCEPT ![u] = "waiting"]
          /\ delayed' = [delayed EXCEPT ![u] = "none"]
          /\ disabled' = TRUE /\ UNCHANGED <<lockLevel, locked, current>> /\ u # Main /\ u # handler
      BY <3>1 DEF Start, SysCall, choice, lock, Processes
    <3>3. /\ \A v \in Threads : delayed'[v] = "none" /\ deadline'[v] = "none"
          /\ \A v \in Threads \ {Main} : state'[v] # "runnable"
          /\ state'[Main] = state[Main]
          /\ handler # None => state'[handler] = state[handler]
      BY <1>1, <1>2, <3>1, <3>2 DEF ThreadTypes, HealthTypeOK
    <3> QED
      BY <2>3, <3>1, <3>2, <3>3
  <2>6. CASE \E u \in Threads : CreateThread(t, u)
    <3>1. PICK u \in Threads : CreateThread(t, u)
      BY <2>6
    <3>2. /\ UNCHANGED <<state, delayed, lock, current, errors, deadline, mode>> /\ disabled' = TRUE
          /\ u \notin created /\ handler' \in {handler, u}
      BY <3>1 DEF CreateThread, Create, CreateHandler, SysCall, choice, health
    <3>3. state[u] = "stopped"
      BY <3>2 DEF PartitionInv, Created
    <3> QED
      BY <1>2, <2>1, <3>2, <3>3 DEF StillBeginning, Choice, lock
  <2>7. CASE \/ PeriodicWait(t) \/ SetModeNormal(t) \/ Replenish(t) \/ RaiseSync(t)
             \/ GetError(t) \/ Unlink(t) \/ StopHandler(t)
    BY <1>1, <1>2, <2>1, <2>7 DEF PeriodicWait, WaitUntil, WaitingAllowed, SetModeNormal, Replenish, RaiseSync,
       HandlerSees, GetError, Unlink, StopHandler
  <2> QED
    BY <2>4, <2>5, <2>6, <2>7 DEF CallCase
<1> QED
  BY <1>a, CallFacts

(* Every step keeps Beginning, and a restart establishes it.               *)
LEMMA BeginningStep ==
  ASSUME PartitionInv, [PartitionNext]_partitionVars
  PROVE  Beginning'
<1> USE ConstantTypes, LimitedAssumption
<1>1. ThreadTypes /\ HealthTypeOK /\ PartitionTypes /\ SchedulerTypes /\ NoSections /\ TypeInv
  BY TypeParts DEF PartitionInv
<1>2. CASE mode' \notin {"cold", "warm"}
  BY <1>2 DEF Beginning
<1>3. ASSUME NEW m \in {"cold", "warm"}, Restart(m) PROVE Beginning'
  <2>1. /\ state' = [t \in Threads |-> IF t = Main THEN "runnable" ELSE "stopped"]
        /\ delayed' = [t \in Threads |-> "none"] /\ deadline' = [t \in Threads |-> "none"]
        /\ errors' = <<>> /\ handler' = None /\ current' = Main /\ mode' = m
        /\ lockLevel' = 1 /\ locked' = Main
    BY <1>3 DEF Restart, OnlyMain, Everywhere
  <2>2. Choice' = Main
    BY <2>1 DEF Choice
  <2>3. StillBeginning
    BY <2>1, <2>2 DEF StillBeginning
  <2> QED
    BY <2>3, BeginningFollows
<1>4. CASE mode' \in {"cold", "warm"} /\ ~\E m \in {"cold", "warm"} : Restart(m)
  <2>1. mode \in {"cold", "warm"}
    <3>1. ASSUME NEW t \in Threads, CallCase(t) PROVE mode' \in {mode, "normal"}
      BY <3>1, CallFacts
    <3>2. CASE HealthFollows \/ UNCHANGED partitionVars
      BY <1>4, <3>2 DEF HealthFollows, partitionVars, vars, partition
    <3>3. CASE Idle \/ \E t \in Threads : Reported(t) \/ NotReported(t)
      BY <1>4, <3>3 DEF Idle, Reported, NotReported, vars, partition
    <3> QED
      BY <1>4, <3>1, <3>2, <3>3, StepCases
  <2>2. /\ eligible = <<>> /\ errors = <<>>
        /\ \A u \in Threads : delayed[u] = "none" /\ deadline[u] = "none"
        /\ \A u \in Threads \ {Main} : state[u] # "runnable"
        /\ handler # None => state[handler] = "stopped"
        /\ current \in {Main, None}
        /\ state[Main] # "stopped" => lockLevel = 1 /\ locked = Main
        /\ ~recheck \/ ~disabled => current = Choice
    BY <2>1 DEF PartitionInv, Beginning
  <2>3. ASSUME NEW t \in Threads, CallCase(t) PROVE Beginning'
    BY <1>4, <2>1, <2>3, BeginningCalls, BeginningFollows
  <2>4. ASSUME HealthFollows, UNCHANGED <<state, delayed, lock>>, current' \in {Main, None},
               ~recheck' \/ ~disabled' => current' = Choice
        PROVE  Beginning'
    <3>1. UNCHANGED <<mode, handler, errors>> /\ \A u \in Threads : deadline'[u] = "none"
      BY <2>2, <2>4 DEF HealthFollows, Deadlines, DeadlinesFollow, partition
    <3>2. StillBeginning
      BY <2>1, <2>2, <2>4, <3>1 DEF StillBeginning, lock, Choice
    <3> QED
      BY <3>2, BeginningFollows
  <2>5. CASE Select /\ HealthFollows
    <3>1. UNCHANGED <<delayed, lock>>
      BY <2>5 DEF Select
    <3>2. CASE ~recheck /\ UNCHANGED <<recheck, choice, state>>
      BY <2>2, <2>4, <2>5, <3>1, <3>2 DEF choice
    <3>3. CASE recheck /\ ~recheck' /\ current' = Choice
      <4>1. state' = [t \in Threads |-> IF isErrorHandler' /\ t = handler THEN "runnable" ELSE state[t]]
            /\ isErrorHandler' = (mode = "normal" /\ handler # None /\ Choice = handler)
        BY <2>5, <3>3 DEF Select
      <4>2. state' = state /\ current' \in {Main, None}
        BY <1>1, <2>1, <3>3, <4>1 DEF Choice, ThreadTypes
      <4> QED
        BY <2>4, <2>5, <3>1, <3>3, <4>2
    <3> QED
      BY <1>1, <2>5, <3>2, <3>3, Selection
  <2>6. CASE Interrupt /\ HealthFollows
    BY <2>2, <2>4, <2>6 DEF Interrupt, choice
  <2>7. CASE UNCHANGED partitionVars
    BY <2>7 DEF PartitionInv, partitionVars, vars, partition, health, lock, choice, Beginning, Choice
  <2>8. CASE Idle \/ \E t \in Threads : Reported(t) \/ NotReported(t) \/ Expire(t)
    BY <1>4, <2>1, <2>2, <2>8 DEF Idle, Reported, NotReported, Expire
  <2> QED
    BY <1>4, <2>3, <2>5, <2>6, <2>7, <2>8, StepCases
<1> QED
  BY <1>2, <1>3, <1>4

--------------------------------------------------------------------------------
(* The handler and its state do not change.                                *)
SameHandler == handler' = handler /\ (handler # None => state'[handler] = state[handler])
(* Nor do the scheduler's choice and the errors.                           *)
SameScheduler ==
  /\ mode' = "normal" /\ disabled' = TRUE
  /\ UNCHANGED <<current, selected, isErrorHandler, errors>>

(* If no recheck is pending after a step, and the choice is the same as    *)
(* before it, the thread that runs is still the right one.                 *)
LEMMA RunningKept ==
  ASSUME PartitionInv, mode = "normal", SameScheduler, SameHandler,
         ~recheck' => ~recheck /\ Choice' = Choice
  PROVE  Running'
<1>2. ~recheck => /\ current = Choice /\ selected = Choice
                  /\ isErrorHandler = (handler # None /\ selected = handler)
                  /\ handler # None /\ selected = handler => state[handler] = "runnable"
  BY DEF PartitionInv, Running
<1> QED
  BY <1>2 DEF SameScheduler, SameHandler, Running

(* The choice is the same when the lock and the first eligible thread are. *)
LEMMA ChoiceKept ==
  ASSUME mode = "normal", SameScheduler, SameHandler, UNCHANGED <<lockLevel, locked>>,
         First(eligible') = First(eligible)
  PROVE  Choice' = Choice
BY DEF SameScheduler, SameHandler, Choice, HandlerRuns

(* So it is enough that a change of the first eligible thread requests a   *)
(* recheck.                                                                *)
LEMMA QueueRunning ==
  ASSUME PartitionInv, mode = "normal", SameScheduler, SameHandler,
         UNCHANGED <<lockLevel, locked>>,
         \/ UNCHANGED <<eligible, recheck>>
         \/ \E q, invalidate : Requeue(q, invalidate)
  PROVE  Running'
<1>1. ~recheck' => ~recheck /\ First(eligible') = First(eligible)
  BY DEF Requeue, FirstChanges
<1> QED
  BY <1>1, RunningKept, ChoiceKept

(* Every call requests a recheck when it changes what the scheduler would  *)
(* choose: LOCK does not change it, UNLOCK compares, STOP of the lock holder*)
(* and a new error request one.                                            *)
LEMMA CallRuns ==
  ASSUME PartitionInv, NEW t \in Threads, CallCase(t), mode = "normal"
  PROVE  Running'
<1> USE ConstantTypes
<1>1. ThreadTypes /\ PartitionTypes /\ SchedulerTypes /\ errors \in Seq(Threads)
  BY TypeParts DEF PartitionInv, PartitionTypes
<1>2. ~disabled /\ current = t /\ ~recheck /\ Choice = t /\ selected = t
      /\ (HandlerCalls(t) \/ ProcessCalls(t))
  BY CallFacts, Caller DEF BeginningCaller
<1>3. ASSUME NEW u \in Threads, u # handler, handler' = handler,
             \A v \in Threads \ {u} : state'[v] = state[v]
      PROVE  SameHandler
  BY <1>1, <1>3 DEF SameHandler, PartitionTypes, Thread0
<1>4. CASE ThreadStep(t) /\ HealthFollows
  <2>1. mode' = "normal" /\ handler' = handler /\ errors' = errors
    BY <1>4 DEF HealthFollows, partition
  <2>2. CASE NoEffect(t) \/ Yield(t) \/ \E u \in Threads : \E p \in Priorities : SetPriority(t, u, p)
    <3>1. SameScheduler /\ SameHandler /\ UNCHANGED <<lockLevel, locked>>
      BY <2>1, <2>2 DEF NoEffect, Yield, SetPriority, SysCall, choice, lock, SameScheduler, SameHandler
    <3> QED
      BY <2>2, <3>1, QueueRunning DEF NoEffect, Yield, SetPriority
  <2>3. CASE StopSelf(t)
    BY <2>1, <2>3 DEF StopSelf, StopAll, Requeue, SysCall, Running
  <2>4. CASE Sleep(t) \/ \E flag \in BOOLEAN : SuspendSelf(t, flag)
    <3>1. t # handler /\ \A v \in Threads \ {t} : state'[v] = state[v]
      BY <1>1, <2>4 DEF Sleep, WaitUntil, SuspendSelf, WaitingAllowed, SysCall, ThreadTypes
    <3>2. SameScheduler /\ UNCHANGED <<lockLevel, locked>>
      BY <2>1, <2>4 DEF Sleep, WaitUntil, SuspendSelf, SysCall, choice, lock, SameScheduler
    <3>3. SameHandler
      BY <1>3, <2>1, <3>1
    <3> QED
      BY <2>4, <3>2, <3>3, QueueRunning DEF Sleep, WaitUntil, SuspendSelf
  <2>5. CASE Lock(t)
    <3>1. t # handler /\ lockLevel' = lockLevel + 1 /\ locked' = t /\ recheck' = recheck
          /\ SameScheduler /\ SameHandler
      BY <2>1, <2>5 DEF Lock, LockAllowed, SysCall, choice, SameScheduler, SameHandler
    <3>2. ~HandlerRuns /\ lockLevel' > 0
      BY <1>1, <1>2, <3>1 DEF HandlerCalls, ProcessCalls, SchedulerTypes
    <3>3. Choice' = Choice
      BY <1>2, <3>1, <3>2 DEF SameScheduler, SameHandler, Choice, HandlerRuns
    <3> QED
      BY <3>1, <3>3, RunningKept
  <2>6. CASE Unlock(t)
    <3>1. t # handler /\ lockLevel > 0 /\ lockLevel' = lockLevel - 1 /\ eligible' = eligible
          /\ locked' = (IF lockLevel' = 0 THEN None ELSE locked)
          /\ (~recheck' => ~(lockLevel' = 0 /\ First(eligible) # t))
          /\ SameScheduler /\ SameHandler
      BY <2>1, <2>6 DEF Unlock, LockAllowed, Requeue, SysCall, choice, SameScheduler, SameHandler
    <3>2. ~HandlerRuns /\ locked = t
      BY <1>2, <3>1 DEF HandlerCalls, ProcessCalls
    <3>3. lockLevel' = 0 \/ lockLevel' > 0
      BY <1>1, <3>1 DEF SchedulerTypes
    <3>4. ~recheck' => Choice' = Choice
      BY <1>2, <3>1, <3>2, <3>3 DEF SameScheduler, SameHandler, Choice, HandlerRuns
    <3> QED
      BY <1>2, <3>1, <3>4, RunningKept
  <2>7. ASSUME NEW u \in Threads, StopNow(t, u) PROVE Running'
    <3>1. u # handler /\ \A v \in Threads \ {u} : state'[v] = state[v]
      BY <1>1, <2>7 DEF StopNow, StopAll, Target, Processes, ThreadTypes
    <3>2. SameScheduler
      BY <2>1, <2>7 DEF StopNow, SysCall, choice, SameScheduler
    <3>3. SameHandler
      BY <1>3, <2>1, <3>1
    <3>4. Requeue(Without(eligible, {u}), FALSE \/ StopsLocked({u}))
          /\ lockLevel' = (IF StopsLocked({u}) THEN 0 ELSE lockLevel)
          /\ locked' = (IF StopsLocked({u}) THEN None ELSE locked)
      BY <2>7 DEF StopNow, StopAll
    <3>5. CASE recheck'
      BY <3>2, <3>5 DEF SameScheduler, Running
    <3>6. CASE ~recheck'
      <4>1. UNCHANGED <<lockLevel, locked>>
        BY <3>4, <3>6 DEF Requeue
      <4> QED
        BY <3>2, <3>3, <3>4, <4>1, QueueRunning
    <3> QED
      BY <3>5, <3>6
  <2>8. ASSUME NEW u \in Threads, Suspend(t, u) \/ Resume(t, u) PROVE Running'
    <3>1. u # handler /\ \A v \in Threads \ {u} : state'[v] = state[v]
      BY <1>1, <2>8 DEF Suspend, Resume, Target, Processes, ThreadTypes
    <3>2. SameScheduler /\ UNCHANGED <<lockLevel, locked>>
      BY <2>1, <2>8 DEF Suspend, Resume, SysCall, choice, lock, SameScheduler
    <3>3. SameHandler
      BY <1>3, <2>1, <3>1
    <3> QED
      BY <2>8, <3>2, <3>3, QueueRunning DEF Suspend, Resume
  <2>9. ASSUME NEW u \in Threads, NEW later \in BOOLEAN, Start(t, u, later) PROVE Running'
    <3>1. u # handler /\ \A v \in Threads \ {u} : state'[v] = state[v]
      BY <1>1, <2>9 DEF Start, Processes, ThreadTypes
    <3>2. SameScheduler /\ UNCHANGED <<lockLevel, locked>>
      BY <2>1, <2>9 DEF Start, SysCall, choice, lock, SameScheduler
    <3>3. SameHandler
      BY <1>3, <2>1, <3>1
    <3> QED
      BY <2>9, <3>2, <3>3, QueueRunning DEF Start
  <2> QED
    BY <1>4, <2>2, <2>3, <2>4, <2>5, <2>6, <2>7, <2>8, <2>9 DEF ThreadStep
<1>5. CASE PeriodicWait(t)
  <2>1. WaitUntil(t, "wake") /\ mode' = "normal" /\ handler' = handler /\ errors' = errors
    BY <1>5 DEF PeriodicWait, partition
  <2>2. t # handler /\ \A v \in Threads \ {t} : state'[v] = state[v]
    BY <1>1, <2>1 DEF WaitUntil, WaitingAllowed, SysCall, ThreadTypes
  <2>3. SameScheduler /\ UNCHANGED <<lockLevel, locked>>
    BY <2>1 DEF WaitUntil, SysCall, choice, lock, SameScheduler
  <2>4. SameHandler
    BY <1>3, <2>1, <2>2
  <2> QED
    BY <2>1, <2>3, <2>4, QueueRunning DEF WaitUntil
<1>6. ASSUME NEW u \in Threads, NEW later \in BOOLEAN, StartLimited(t, u, later) PROVE Running'
  <2>1. Start(t, u, later) /\ mode' = "normal" /\ handler' = handler /\ errors' = errors
    BY <1>6 DEF StartLimited, partition
  <2>2. u # handler /\ \A v \in Threads \ {u} : state'[v] = state[v]
    BY <1>1, <2>1 DEF Start, Processes, ThreadTypes
  <2>3. SameScheduler /\ UNCHANGED <<lockLevel, locked>>
    BY <2>1 DEF Start, SysCall, choice, lock, SameScheduler
  <2>4. SameHandler
    BY <1>3, <2>1, <2>2
  <2> QED
    BY <2>1, <2>3, <2>4, QueueRunning DEF Start
<1>7. CASE Replenish(t)
  <2>1. SameScheduler /\ SameHandler /\ UNCHANGED <<lockLevel, locked, eligible, recheck>>
    BY <1>7 DEF Replenish, SysCall, choice, lock, partition, SameScheduler, SameHandler
  <2> QED
    BY <2>1, QueueRunning
<1>8. CASE RaiseSync(t)
  <2>1. /\ mode' = "normal" /\ disabled' = TRUE /\ SameHandler
        /\ UNCHANGED <<current, selected, isErrorHandler, lockLevel, locked, eligible>>
        /\ recheck' = (recheck \/ errors' # errors)
    BY <1>8 DEF RaiseSync, HandlerSees, AddErrorBit, SysCall, choice, lock, SameHandler
  <2>2. CASE recheck'
    BY <2>1, <2>2 DEF Running
  <2>3. CASE ~recheck'
    <3>1. SameScheduler /\ ~recheck
      BY <2>1, <2>3 DEF SameScheduler
    <3> QED
      BY <2>1, <3>1, ChoiceKept, RunningKept
  <2> QED
    BY <2>2, <2>3
<1>9. CASE GetError(t)
  BY <1>9 DEF PartitionInv, GetError, vars, partition, choice, lock, Running, Choice, HandlerRuns
<1>10. CASE Unlink(t)
  <2>1. /\ t = handler /\ t # None
        /\ UNCHANGED <<mode, current, selected, isErrorHandler, state, handler, recheck, disabled>>
    BY <1>10 DEF Unlink, choice
  <2>2. state[handler] = "runnable" /\ isErrorHandler = TRUE
    BY <1>2, <2>1 DEF PartitionInv, Running
  <2>3. Choice' = handler
    BY <2>1, <2>2 DEF Choice, HandlerRuns
  <2> QED
    BY <1>2, <2>1, <2>2, <2>3 DEF Running
<1>11. CASE StopHandler(t)
  BY <1>11 DEF StopHandler, StopAll, Requeue, SysCall, Running
<1>12. CASE SetModeNormal(t) \/ \E u \in Threads : CreateThread(t, u)
  BY <1>12 DEF SetModeNormal, CreateThread, Create, CreateHandler
<1> QED
  BY <1>4, <1>5, <1>6, <1>7, <1>8, <1>9, <1>10, <1>11, <1>12 DEF CallCase

(* Every step keeps Running: Select establishes the choice, the others keep*)
(* it or request a recheck.                                                *)
LEMMA RunningStep ==
  ASSUME PartitionInv, [PartitionNext]_partitionVars
  PROVE  Running'
<1> USE ConstantTypes
<1>1. ThreadTypes /\ PartitionTypes /\ SchedulerTypes /\ TypeInv /\ NoSections
  BY TypeParts DEF PartitionInv
<1>2. CASE mode' # "normal"
  BY <1>2 DEF Running
<1>3. CASE \E t \in Threads : SetModeNormal(t)
  BY <1>3 DEF SetModeNormal, SysCall, Running
<1>4. CASE mode' = "normal" /\ mode = "normal"
  <2>1. ASSUME NEW t \in Threads, CallCase(t) PROVE Running'
    BY <1>4, <2>1, CallRuns
  <2>2. CASE Idle \/ \E m \in {"cold", "warm"} : Restart(m)
    BY <1>4, <2>2 DEF Idle, Restart
  <2>3. ASSUME NEW t \in Threads, Reported(t) PROVE Running'
    <3>1. /\ mode' = "normal" /\ disabled' = TRUE /\ SameHandler
          /\ UNCHANGED <<current, selected, isErrorHandler, lockLevel, locked, eligible>>
          /\ recheck' = (recheck \/ errors' # errors)
      BY <1>1, <1>4, <2>3 DEF Reported, HandlerSees, AddErrorBit, choice, lock, SameHandler, SchedulerTypes
    <3>2. CASE recheck'
      BY <3>1, <3>2 DEF Running
    <3>3. CASE ~recheck'
      <4>1. SameScheduler /\ ~recheck
        BY <3>1, <3>3 DEF SameScheduler
      <4> QED
        BY <1>4, <3>1, <4>1, ChoiceKept, RunningKept
    <3> QED
      BY <3>2, <3>3
  <2>4. CASE UNCHANGED vars
    BY <2>4 DEF PartitionInv, vars, partition, choice, lock, Running, Choice, HandlerRuns
  <2>5. CASE Select /\ HealthFollows
    <3>1. /\ UNCHANGED <<handler, errors, lockLevel, locked, eligible>> /\ disabled' = FALSE
      BY <2>5 DEF Select, HealthFollows, partition, lock
    <3>2. CASE ~recheck /\ UNCHANGED <<recheck, choice, state>>
      BY <1>4, <3>1, <3>2 DEF PartitionInv, choice, Running, Choice, HandlerRuns
    <3>3. CASE /\ recheck /\ ~recheck' /\ current' = Choice /\ selected' = Choice
               /\ isErrorHandler' = (mode = "normal" /\ handler # None /\ Choice = handler)
               /\ state' = [t \in Threads |-> IF isErrorHandler' /\ t = handler THEN "runnable"
                                             ELSE state[t]]
      <4>1. handler # None => handler \in Threads
        BY <1>1 DEF PartitionTypes, Thread0
      <4>2. CASE handler # None /\ Choice = handler
        <5>1. state'[handler] = "runnable" /\ isErrorHandler' = TRUE
          BY <1>4, <3>3, <4>1, <4>2
        <5>2. Choice' = handler
          BY <1>4, <3>1, <4>2, <5>1 DEF Choice, HandlerRuns
        <5> QED
          BY <3>1, <3>3, <4>2, <5>1, <5>2 DEF Running
      <4>3. CASE ~(handler # None /\ Choice = handler)
        <5>1. state' = state /\ isErrorHandler' = FALSE
          BY <1>1, <3>3, <4>3 DEF ThreadTypes
        <5>2. Choice' = Choice
          BY <1>4, <3>1, <5>1 DEF Choice, HandlerRuns
        <5> QED
          BY <3>1, <3>3, <4>3, <5>1, <5>2 DEF Running
      <4> QED
        BY <4>2, <4>3
    <3> QED
      BY <1>1, <2>5, <3>2, <3>3, Selection
  <2>6. CASE Interrupt /\ HealthFollows
    <3>1. SameScheduler /\ SameHandler /\ UNCHANGED <<lockLevel, locked, eligible, recheck>>
      BY <1>4, <2>6 DEF Interrupt, HealthFollows, choice, lock, partition, SameScheduler, SameHandler
    <3> QED
      BY <1>4, <3>1, QueueRunning
  <2>7. ASSUME NEW t \in Threads, Expire(t), HealthFollows PROVE Running'
    <3>1. SameScheduler /\ UNCHANGED <<handler, lockLevel, locked>>
      BY <1>1, <1>4, <2>7 DEF Expire, HealthFollows, choice, lock, partition, SameScheduler, SchedulerTypes
    <3>2. t \in Processes
      BY <2>7, PendingProcess DEF PartitionInv, EventsOfActive, Expire
    <3>a. ToSet(<<t>>) = {t}
      BY DEF ToSet
    <3>3. CASE delayed[t] = "wake"
      <4>1. /\ state' = [u \in Threads |-> IF u \in ToSet(<<t>>) THEN "runnable" ELSE state[u]]
            /\ Requeue(ReadyAll(eligible, <<t>>), FALSE)
        BY <2>7, <3>3 DEF Expire, WakeUp
      <4>2. SameHandler
        BY <1>1, <3>1, <3>2, <3>a, <4>1 DEF Processes, SameHandler, PartitionTypes, Thread0
      <4> QED
        BY <1>4, <3>1, <4>1, <4>2, QueueRunning
    <3>4. CASE delayed[t] = "resume"
      <4>1. /\ state' = [state EXCEPT ![t] = "runnable"]
            /\ Requeue(Enqueue(eligible, t, priority), FALSE)
        BY <2>7, <3>4 DEF Expire
      <4>2. SameHandler
        BY <1>1, <3>1, <3>2, <4>1 DEF Processes, SameHandler, PartitionTypes, Thread0, ThreadTypes
      <4> QED
        BY <1>4, <3>1, <4>1, <4>2, QueueRunning
    <3> QED
      BY <2>7, <3>3, <3>4 DEF Expire
  <2> QED
    BY <2>1, <2>2, <2>3, <2>4, <2>5, <2>6, <2>7, StepCases DEF NotReported, partitionVars
<1>5. CASE mode' = "normal" /\ mode # "normal" /\ ~\E t \in Threads : SetModeNormal(t)
  <2>1. ASSUME NEW t \in Threads, CallCase(t) PROVE FALSE
    BY <1>5, <2>1 DEF CallCase, HealthFollows, PeriodicWait, Replenish, RaiseSync,
     GetError, Unlink, StopHandler, StartLimited, CreateThread, Create, CreateHandler, partition, vars
  <2>2. ~(HealthFollows \/ UNCHANGED partitionVars)
    BY <1>5 DEF HealthFollows, partitionVars, vars, partition
  <2>3. ~(Idle \/ (\E m \in {"cold", "warm"} : Restart(m))
          \/ \E t \in Threads : Reported(t) \/ NotReported(t))
    BY <1>5 DEF Idle, Restart, Reported, NotReported
  <2> QED
    BY <2>1, <2>2, <2>3, StepCases
<1> QED
  BY <1>2, <1>3, <1>4, <1>5

--------------------------------------------------------------------------------
(* The lock holder is still eligible when it is still runnable and not     *)
(* suspended.                                                              *)
LEMMA LockKept ==
  ASSUME PartitionInv, [PartitionNext]_partitionVars, mode = "normal",
         UNCHANGED <<created, handler>>,
         lockLevel' > 0 =>
           /\ locked' \in ToSet(eligible)
           /\ state'[locked'] = "runnable" /\ ~suspended'[locked']
  PROVE  LockHolderRuns'
<1>1. ToSet(eligible') = Runnable' /\ ToSet(eligible) = Runnable
  BY QueueStep, QueueInOrder
<1> QED
  BY <1>1 DEF LockHolderRuns, Runnable, Processes

(* No call makes the lock holder wait, suspends it, or stops it without    *)
(* giving the lock back.                                                   *)
LEMMA CallLocks ==
  ASSUME PartitionInv, [PartitionNext]_partitionVars, mode = "normal",
         NEW t \in Threads, CallCase(t)
  PROVE  LockHolderRuns'
<1> USE ConstantTypes
<1>1. ThreadTypes /\ PartitionTypes /\ SchedulerTypes
  BY TypeParts DEF PartitionInv
<1>2. HandlerCalls(t) \/ ProcessCalls(t)
  BY CallFacts, Caller DEF BeginningCaller
<1>3. /\ lockLevel > 0 => locked \in ToSet(eligible)
      /\ ToSet(eligible) = Runnable
  BY QueueInOrder DEF PartitionInv, LockHolderRuns
<1>4. lockLevel > 0 => /\ locked \in Threads /\ state[locked] = "runnable" /\ ~suspended[locked]
                       /\ locked # handler /\ locked # None
  BY <1>1, <1>3 DEF Runnable, Processes, PartitionTypes
<1>5. ~\E u \in Threads : CreateThread(t, u)
  BY DEF CreateThread, Create, CreateHandler
<1>6. UNCHANGED <<created, handler>>
  BY <1>5 DEF CallCase, HealthFollows, PeriodicWait, SetModeNormal, Replenish, RaiseSync,
     GetError, Unlink, StopHandler, StartLimited, partition, vars
<1>7. CASE lockLevel' = 0
  BY <1>7 DEF LockHolderRuns
<1>8. ASSUME UNCHANGED <<lockLevel, locked>>,
             lockLevel > 0 => state'[locked] = "runnable" /\ ~suspended'[locked]
      PROVE  LockHolderRuns'
  BY <1>3, <1>6, <1>8, LockKept
<1>9. CASE \/ NoEffect(t) \/ Yield(t) \/ Replenish(t) \/ RaiseSync(t) \/ GetError(t) \/ Unlink(t)
           \/ \E u \in Threads : \E p \in Priorities : SetPriority(t, u, p)
  <2>1. UNCHANGED <<state, suspended, lockLevel, locked>>
    BY <1>9 DEF NoEffect, Yield, Replenish, RaiseSync, GetError, Unlink, SetPriority, vars, lock
  <2> QED
    BY <1>4, <1>8, <2>1
<1>10. ASSUME NEW u \in Threads, NEW invalidate, StopAll({u}, invalidate) PROVE LockHolderRuns'
  <2>1. /\ lockLevel' = IF StopsLocked({u}) THEN 0 ELSE lockLevel
        /\ locked' = IF StopsLocked({u}) THEN None ELSE locked
        /\ suspended' = suspended
        /\ state' = [v \in Threads |-> IF v \in {u} THEN "stopped" ELSE state[v]]
    BY <1>10 DEF StopAll
  <2>2. CASE StopsLocked({u})
    BY <1>7, <2>1, <2>2
  <2>3. CASE ~StopsLocked({u})
    <3>1. lockLevel > 0 => locked # u
      BY <2>3 DEF StopsLocked
    <3> QED
      BY <1>4, <1>8, <2>1, <2>3, <3>1
  <2> QED
    BY <2>2, <2>3
<1>11. CASE Sleep(t) \/ PeriodicWait(t) \/ \E flag \in BOOLEAN : SuspendSelf(t, flag)
  <2>1. lockLevel' = 0
    BY <1>11 DEF Sleep, WaitUntil, PeriodicWait, SuspendSelf, WaitingAllowed, lock
  <2> QED
    BY <1>7, <2>1
<1>12. CASE Lock(t)
  <2>1. t # handler /\ locked' = t /\ UNCHANGED <<state, suspended>>
    BY <1>12 DEF Lock, LockAllowed, SysCall
  <2>2. t \in ToSet(eligible) /\ state[t] = "runnable" /\ ~suspended[t]
    BY <1>2, <2>1 DEF HandlerCalls, ProcessCalls
  <2> QED
    BY <1>6, <2>1, <2>2, LockKept
<1>13. CASE Unlock(t)
  <2>1. lockLevel > 0 /\ locked' = (IF lockLevel' = 0 THEN None ELSE locked)
        /\ UNCHANGED <<state, suspended>>
    BY <1>13 DEF Unlock
  <2>2. CASE lockLevel' # 0
    BY <1>3, <1>4, <1>6, <2>1, <2>2, LockKept
  <2> QED
    BY <1>7, <2>2
<1>14. ASSUME NEW u \in Threads, Suspend(t, u) PROVE LockHolderRuns'
  <2>1. /\ lockLevel > 0 => locked # u
        /\ suspended' = [suspended EXCEPT ![u] = TRUE] /\ UNCHANGED <<state, lockLevel, locked>>
    BY <1>14 DEF Suspend, StopsLocked, lock
  <2>2. lockLevel > 0 => state'[locked] = "runnable" /\ ~suspended'[locked]
    BY <1>1, <1>4, <2>1 DEF ThreadTypes
  <2> QED
    BY <1>8, <2>1, <2>2
<1>15. ASSUME NEW u \in Threads, Resume(t, u) PROVE LockHolderRuns'
  <2>1. suspended[u] /\ UNCHANGED <<lockLevel, locked>>
    BY <1>15 DEF Resume, lock
  <2>2. lockLevel > 0 => state'[locked] = "runnable" /\ ~suspended'[locked]
    BY <1>1, <1>4, <1>15, <2>1 DEF Resume, ThreadTypes
  <2> QED
    BY <1>8, <2>1, <2>2
<1>16. ASSUME NEW u \in Threads, NEW later \in BOOLEAN, Start(t, u, later) PROVE LockHolderRuns'
  <2>1. state[u] = "stopped" /\ UNCHANGED <<suspended, lockLevel, locked>>
    BY <1>16 DEF Start, lock
  <2>2. \A v \in Threads \ {u} : state'[v] = state[v]
    BY <1>1, <1>16 DEF Start, ThreadTypes
  <2> QED
    BY <1>4, <1>8, <2>1, <2>2
<1>17. CASE SetModeNormal(t)
  BY <1>17 DEF SetModeNormal
<1> QED
  BY <1>5, <1>9, <1>10, <1>11, <1>12, <1>13, <1>14, <1>15, <1>16, <1>17
  DEF CallCase, ThreadStep, StopSelf, StopNow, StopHandler, StartLimited

(* Every step keeps LockHolderRuns.                                        *)
LEMMA LockHolderRunsStep ==
  ASSUME PartitionInv, [PartitionNext]_partitionVars
  PROVE  LockHolderRuns'
<1> USE ConstantTypes
<1>1. ThreadTypes /\ PartitionTypes /\ SchedulerTypes /\ TypeInv /\ NoSections
  BY TypeParts DEF PartitionInv
<1>2. CASE mode' # "normal"
  BY <1>2 DEF LockHolderRuns
<1>3. CASE \E t \in Threads : SetModeNormal(t)
  BY <1>3 DEF SetModeNormal, LockHolderRuns
<1>4. CASE mode' = "normal" /\ mode = "normal"
  <2>1. /\ lockLevel > 0 => locked \in ToSet(eligible)
        /\ ToSet(eligible) = Runnable
    BY <1>4, QueueInOrder DEF PartitionInv, LockHolderRuns
  <2>2. lockLevel > 0 => /\ locked \in Threads /\ state[locked] = "runnable" /\ ~suspended[locked]
                         /\ locked # handler /\ locked # None
    BY <1>1, <2>1 DEF Runnable, Processes, PartitionTypes
  <2>3. ASSUME UNCHANGED <<lockLevel, locked, created, handler>>,
               lockLevel > 0 => state'[locked] = "runnable" /\ ~suspended'[locked]
        PROVE  LockHolderRuns'
    BY <1>4, <2>1, <2>3, LockKept
  <2>4. ASSUME NEW t \in Threads, CallCase(t) PROVE LockHolderRuns'
    BY <1>4, <2>4, CallLocks
  <2>5. CASE Idle \/ \E m \in {"cold", "warm"} : Restart(m)
    BY <1>4, <2>5 DEF Idle, Restart
  <2>6. CASE (\E t \in Threads : Reported(t) \/ NotReported(t)) \/ UNCHANGED partitionVars
    <3>1. UNCHANGED <<state, suspended, lockLevel, locked, created, handler>>
      BY <2>6 DEF Reported, NotReported, partitionVars, vars, partition, lock
    <3> QED
      BY <2>2, <2>3, <3>1
  <2>7. CASE (Select \/ Interrupt) /\ HealthFollows
    <3>1. /\ UNCHANGED <<suspended, lockLevel, locked, created, handler>>
          /\ \A u \in Threads \ {handler} : state'[u] = state[u]
      BY <1>1, <2>7 DEF Select, Interrupt, HealthFollows, partition, lock
    <3> QED
      BY <2>2, <2>3, <3>1
  <2>8. ASSUME NEW t \in Threads, Expire(t), HealthFollows PROVE LockHolderRuns'
    <3>1. UNCHANGED <<lockLevel, locked, created, handler>>
      BY <2>8 DEF Expire, HealthFollows, lock, partition
    <3>2. state[t] = "waiting"
      BY <2>8 DEF PartitionInv, EventsOfActive, Expire
    <3>a. ToSet(<<t>>) = {t}
      BY DEF ToSet
    <3>3. \A u \in Threads \ {t} : state'[u] = state[u] /\ suspended'[u] = suspended[u]
      <4>1. CASE delayed[t] = "wake"
        <5>1. /\ state' = [u \in Threads |-> IF u \in ToSet(<<t>>) THEN "runnable" ELSE state[u]]
              /\ suspended' = suspended
          BY <2>8, <4>1 DEF Expire, WakeUp
        <5> QED
          BY <3>a, <5>1
      <4>2. CASE delayed[t] = "resume"
        BY <1>1, <2>8, <4>2 DEF Expire, ThreadTypes
      <4> QED
        BY <2>8, <4>1, <4>2 DEF Expire
    <3> QED
      BY <2>2, <2>3, <3>1, <3>2, <3>3
  <2> QED
    BY <2>4, <2>5, <2>6, <2>7, <2>8, StepCases
<1>5. CASE mode' = "normal" /\ mode # "normal" /\ ~\E t \in Threads : SetModeNormal(t)
  <2>1. ASSUME NEW t \in Threads, CallCase(t) PROVE FALSE
    BY <1>5, <2>1 DEF CallCase, HealthFollows, PeriodicWait, Replenish, RaiseSync,
     GetError, Unlink, StopHandler, StartLimited, CreateThread, Create, CreateHandler, partition, vars
  <2>2. ~(HealthFollows \/ UNCHANGED partitionVars)
    BY <1>5 DEF HealthFollows, partitionVars, vars, partition
  <2>3. ~(Idle \/ (\E m \in {"cold", "warm"} : Restart(m))
          \/ \E t \in Threads : Reported(t) \/ NotReported(t))
    BY <1>5 DEF Idle, Restart, Reported, NotReported
  <2> QED
    BY <2>1, <2>2, <2>3, StepCases
<1> QED
  BY <1>2, <1>3, <1>4, <1>5

--------------------------------------------------------------------------------
(* The partition starts in such a state,                                   *)
LEMMA InvInit ==
  ASSUME PartitionInit
  PROVE  PartitionInv
<1> USE ConstantTypes, LimitedAssumption DEF PartitionInit, OnlyMain, Everywhere
<1>1. TypeInv /\ NoSections
  <2>1. 1 \in 0 .. MaxLock /\ <<>> \in Seq(Threads)
    OBVIOUS
  <2> QED
    BY <2>1 DEF TypeInv, TypeOK, HealthTypeOK, NoSections
<1>2. Created /\ OnlyLimited /\ EventsOfActive /\ Running /\ LockHolderRuns /\ Resting /\ Handled
  BY DEF Created, OnlyLimited, EventsOfActive, Running, LockHolderRuns, Resting, Handled
<1>3. EligibleQueue
  <2>a. ToSet(<<>>) = {} /\ DOMAIN <<>> = {}
    BY DEF ToSet
  <2>1. eligible = <<>> /\ ToSet(eligible) = {} /\ DOMAIN eligible = {}
    BY <2>a
  <2>2. Processes = {}
    BY DEF Processes
  <2> QED
    BY <2>1, <2>2 DEF EligibleQueue
<1>4. Beginning
  BY DEF Beginning, Choice
<1> QED
  BY <1>1, <1>2, <1>3, <1>4 DEF PartitionInv

(* and every step keeps the inductive invariant.                           *)
LEMMA InvNext ==
  ASSUME PartitionInv, [PartitionNext]_partitionVars
  PROVE  PartitionInv'
<1>1. EligibleQueue'
  <2>1. Moves /\ ToSet(eligible') = Runnable'
    BY QueueStep
  <2>2. \A i, j \in DOMAIN eligible' : i < j =>
          eligible'[i] # eligible'[j] /\ priority'[eligible'[i]] >= priority'[eligible'[j]]
    BY <2>1, SortedIndices DEF Moves
  <2> QED
    BY <2>1, <2>2 DEF EligibleQueue, Runnable
<1> QED
  BY <1>1, TypeInvStep, CreatedStep, OnlyLimitedStep, EventsOfActiveStep, BeginningStep,
     RunningStep, LockHolderRunsStep, RestingStep, HandledStep DEF PartitionInv

(* The inductive invariant holds in every reachable state of a partition.  *)
THEOREM PartitionInvariant == PartitionSpec => []PartitionInv
BY InvInit, InvNext, PTL DEF PartitionSpec

(* Every variable keeps its type; in particular the lock is never taken    *)
(* deeper than MAX_LOCK_LEVEL.                                             *)
THEOREM TypesCorrect == PartitionSpec => [](TypeOK /\ HealthTypeOK)
<1>1. PartitionInv => TypeOK /\ HealthTypeOK
  BY DEF PartitionInv, TypeInv
<1> QED
  BY <1>1, PartitionInvariant, PTL

(* The list of eligible threads always holds, once each and by decreasing  *)
(* priority, exactly the processes that are runnable and not suspended:    *)
(* thread_set_eligible never adds one twice.                               *)
THEOREM EligibleQueueKept == PartitionSpec => []EligibleQueue
<1>1. PartitionInv => EligibleQueue
  BY DEF PartitionInv
<1> QED
  BY <1>1, PartitionInvariant, PTL

(* In the mode NORMAL the thread that holds the preemption lock is always  *)
(* eligible: no STOP, SUSPEND, timeout or wait takes it away.              *)
THEOREM LockHolderKept == PartitionSpec => []LockHolderRuns
<1>1. PartitionInv => LockHolderRuns
  BY DEF PartitionInv
<1> QED
  BY <1>1, PartitionInvariant, PTL

(* Only started processes have an event pending, and those that wait have  *)
(* one in the mode NORMAL: no stopped process is woken up or reported late. *)
THEOREM EventsKept == PartitionSpec => []EventsOfActive
<1>1. PartitionInv => EventsOfActive
  BY DEF PartitionInv
<1> QED
  BY <1>1, PartitionInvariant, PTL

(* Whenever the partition is outside of the kernel, the thread that runs is*)
(* the one that sched_arinc would choose now: every change that matters has*)
(* requested a recheck.                                                    *)
THEOREM RightThread == PartitionSpec => []RightThreadRuns
<1>1. PartitionInv => RightThreadRuns
  <2>1. SUFFICES ASSUME PartitionInv, ~disabled
                 PROVE  current = Runner(Choice) /\ (mode = "normal" => ~recheck /\ selected = Choice)
    BY DEF RightThreadRuns
  <2>2. mode \in {"cold", "warm", "normal"}
    BY <2>1 DEF PartitionInv, Resting, TypeInv, TypeOK
  <2>3. current = Choice /\ (mode = "normal" => ~recheck /\ selected = Choice)
    BY <2>1, <2>2 DEF PartitionInv, Beginning, Running
  <2>4. Runner(Choice) = Choice
    BY <2>1, ChoiceTyped, RunsItself DEF PartitionInv
  <2> QED
    BY <2>3, <2>4
<1> QED
  BY <1>1, PartitionInvariant, PTL

(* While an error is listed only the error handler runs, and the mark that *)
(* tells the error level of the running thread is set exactly while the    *)
(* handler is selected.                                                    *)
THEOREM HandlerIsFirst == PartitionSpec => []HandlerFirst
<1>1. PartitionInv => HandlerFirst
  BY DEF PartitionInv, Running, Handled, HandlerFirst, Choice, HandlerRuns
<1> QED
  BY <1>1, PartitionInvariant, PTL

(* No step lets a thread pass another of the same current priority, unless *)
(* the one that is passed went behind all those of its priority.           *)
THEOREM PlacesStayInOrder == PartitionSpec => PlacesKept
<1>1. PartitionInv /\ [PartitionNext]_partitionVars => [PlaceKept]_vars
  BY QueueStep DEF Moves
<1>2. PartitionSpec => [][PlaceKept]_vars
  BY <1>1, PartitionInvariant, PTL DEF PartitionSpec
<1> QED
  BY <1>2 DEF PlaceKept, PlacesKept

--------------------------------------------------------------------------------
(* Outside of the list's update, a thread is listed if and only if it has an*)
(* unread error.                                                           *)
ListedErrors ==
  \A t \in Threads : t # unlinking => (t \in ToSet(errors) <=> errorBits[t] # {})

(* pok_error_get takes the first thread out of the list, whose last bit it *)
(* has cleared, and has not been interrupted.                              *)
Unlinking ==
  unlinking # None =>
    /\ errors # <<>> /\ unlinking = Head(errors) /\ errorBits[unlinking] = {}
    /\ mode = "idle" \/ (mode = "normal" /\ ~disabled)

(* A deadline is armed only when the one before it has been read.          *)
NotYetMissed == \A t \in Threads : deadline[t] # "none" => "deadline" \notin errorBits[t]

(* The second inductive invariant: the list of errors, where no process is *)
(* started again and the partition not restarted before the handler has read*)
(* them, and no event interrupts pok_error_get.                            *)
ErrorInv == OnceEach(errors) /\ ListedErrors /\ Unlinking /\ NotYetMissed /\ SyncErrorFirst

(* A list without repetition, said with the order of its threads.          *)
LEMMA OnceEachBefore ==
  ASSUME NEW q \in Seq(Threads)
  PROVE  OnceEach(q) <=> \A t, u \in Threads : Before(q, t, u) => t # u
BY Members DEF OnceEach, Before

(* A thread that is not the first of a list is further behind.             *)
LEMMA FirstSync ==
  ASSUME NEW q \in Seq(Threads), q # <<>>, OnceEach(q), NEW t \in ToSet(q), t # Head(q)
  PROVE  \E i \in DOMAIN q : i # 1 /\ q[i] = t
BY Members

(* A thread is in a list when it is at one of its positions.               *)
LEMMA Member ==
  ASSUME NEW q \in Seq(Threads), NEW u
  PROVE  u \in ToSet(q) <=> \E i \in 1 .. Len(q) : q[i] = u
BY Members

(* A new thread at the end of a list without repetition.                   *)
LEMMA AppendMembers ==
  ASSUME NEW q \in Seq(Threads), NEW t \in Threads, t \notin ToSet(q), OnceEach(q)
  PROVE  ToSet(Append(q, t)) = ToSet(q) \union {t} /\ OnceEach(Append(q, t))
<1> DEFINE r == Append(q, t)
<1>1. /\ r \in Seq(Threads) /\ Len(r) = Len(q) + 1 /\ r[Len(q) + 1] = t /\ Len(q) \in Nat
      /\ \A i \in 1 .. Len(q) : r[i] = q[i]
  OBVIOUS
<1> HIDE DEF r
<1>2. \A i \in 1 .. Len(q) : q[i] # t
  BY Member
<1>3. OnceEach(r)
  BY <1>1, <1>2 DEF OnceEach
<1>4. ASSUME NEW u PROVE u \in ToSet(r) <=> u \in ToSet(q) \union {t}
  <2>1. u \in ToSet(r) <=> \E i \in 1 .. Len(r) : r[i] = u
    BY <1>1, Member
  <2>2. u \in ToSet(q) <=> \E i \in 1 .. Len(q) : q[i] = u
    BY Member
  <2>3. ASSUME NEW i \in 1 .. Len(r) PROVE i \in 1 .. Len(q) \/ r[i] = t
    BY <1>1
  <2>4. 1 .. Len(q) \subseteq 1 .. Len(r) /\ Len(q) + 1 \in 1 .. Len(r)
    BY <1>1
  <2> QED
    BY <1>1, <2>1, <2>2, <2>3, <2>4
<1> QED
  BY <1>3, <1>4 DEF r

(* Such a list without its first thread.                                   *)
LEMMA TailMembers ==
  ASSUME NEW q \in Seq(Threads), q # <<>>, OnceEach(q)
  PROVE  /\ Tail(q) \in Seq(Threads) /\ OnceEach(Tail(q))
         /\ ToSet(Tail(q)) = ToSet(q) \ {Head(q)}
<1> DEFINE r == Tail(q)
<1>1. /\ r \in Seq(Threads) /\ Len(r) = Len(q) - 1 /\ Len(q) \in Nat \ {0} /\ Head(q) = q[1]
      /\ \A i \in 1 .. Len(r) : r[i] = q[i + 1]
  OBVIOUS
<1> HIDE DEF r
<1>2. OnceEach(r)
  BY <1>1 DEF OnceEach
<1>3. ASSUME NEW u PROVE u \in ToSet(r) <=> u \in ToSet(q) \ {Head(q)}
  <2>1. u \in ToSet(r) <=> \E i \in 1 .. Len(r) : r[i] = u
    BY <1>1, Member
  <2>2. u \in ToSet(q) <=> \E i \in 1 .. Len(q) : q[i] = u
    BY Member
  <2>3. ASSUME NEW i \in 1 .. Len(r), r[i] = u PROVE u \in ToSet(q) \ {Head(q)}
    <3>1. i + 1 \in 1 .. Len(q) /\ 1 \in 1 .. Len(q) /\ 1 < i + 1 /\ q[i + 1] = u
      BY <1>1, <2>3
    <3> QED
      BY <1>1, <2>2, <3>1 DEF OnceEach
  <2>4. ASSUME NEW i \in 1 .. Len(q), q[i] = u, u # Head(q) PROVE u \in ToSet(r)
    <3>1. i - 1 \in 1 .. Len(r) /\ (i - 1) + 1 = i
      BY <1>1, <2>4
    <3> QED
      BY <1>1, <2>1, <2>4, <3>1
  <2> QED
    BY <2>1, <2>2, <2>3, <2>4
<1> QED
  BY <1>1, <1>2, <1>3 DEF r

(* When a process calls, no error is listed: the handler would run.        *)
LEMMA NoneListed ==
  ASSUME PartitionInv, ErrorInv, NEW t \in Threads, ~disabled, current = t, t # handler,
         mode = "normal", unlinking = None
  PROVE  errors = <<>> /\ \A u \in Threads : errorBits[u] = {}
<1>1. ~HandlerRuns
  BY Caller DEF BeginningCaller, HandlerCalls, ProcessCalls
<1>2. errors = <<>>
  BY <1>1 DEF HandlerRuns, PartitionInv, Handled
<1>3. ToSet(errors) = {}
  BY <1>2 DEF ToSet
<1> QED
  BY <1>2, <1>3, ConstantTypes DEF ErrorInv, ListedErrors

(* The errors do not change.                                               *)
SameErrors == UNCHANGED <<errors, errorBits, unlinking>>

(* Then a deadline may only be armed for a thread without an unread error. *)
LEMMA ErrorsKept ==
  ASSUME ErrorInv, SameErrors, unlinking = None,
         \A t \in Threads : deadline'[t] # "none" => deadline[t] # "none" \/ errorBits[t] = {}
  PROVE  ErrorInv'
BY DEF ErrorInv, SameErrors, ListedErrors, Unlinking, NotYetMissed, SyncErrorFirst, OnceEach

(* The scheduler and the calls that change threads arm no deadline.        *)
LEMMA ErrorsFollow ==
  ASSUME PartitionInv, ErrorInv, HealthFollows, unlinking = None
  PROVE  ErrorInv'
<1>1. SameErrors
  BY DEF HealthFollows, partition, SameErrors
<1>2. \A t \in Threads : deadline'[t] # "none" => deadline[t] # "none"
  BY DEF HealthFollows, Deadlines, DeadlinesFollow
<1> QED
  BY <1>1, <1>2, ErrorsKept

(* The second half of pok_error_get: the first thread leaves the list, and *)
(* the others have no synchronous error.                                   *)
LEMMA UnlinkErrors ==
  ASSUME PartitionInv, ErrorInv, NEW t \in Threads, Unlink(t)
  PROVE  ErrorInv'
<1> USE ConstantTypes
<1>1. /\ errors \in Seq(Threads) /\ unlinking # None /\ unlinking' = None
      /\ errors' = Without(errors, {unlinking}) /\ UNCHANGED <<errorBits, deadline>>
  BY DEF PartitionInv, TypeInv, TypeOK, Unlink
<1>2. /\ errors' \in Seq(Threads) /\ ToSet(errors') = ToSet(errors) \ {unlinking}
      /\ \A u, v \in Threads : Before(errors', u, v) => Before(errors, u, v)
  BY <1>1, WithoutOK
<1>3. OnceEach(errors')
  BY <1>1, <1>2, OnceEachBefore DEF ErrorInv
<1>4. errors # <<>> /\ unlinking = Head(errors) /\ errorBits[unlinking] = {}
  BY <1>1 DEF ErrorInv, Unlinking
<1>5. \A u \in ToSet(errors') : "sync" \notin errorBits[u]
  <2>1. SUFFICES ASSUME NEW u \in ToSet(errors'), "sync" \in errorBits[u] PROVE FALSE
    OBVIOUS
  <2>2. u \in ToSet(errors) /\ u # Head(errors)
    BY <1>2, <1>4
  <2>3. PICK i \in DOMAIN errors : i # 1 /\ errors[i] = u
    BY <1>1, <1>4, <2>2, FirstSync DEF ErrorInv
  <2> QED
    BY <2>1, <2>3 DEF ErrorInv, SyncErrorFirst
<1>6. SyncErrorFirst'
  <2>1. \A i \in DOMAIN errors' : errors'[i] \in ToSet(errors')
    BY <1>2, Members
  <2> QED
    BY <1>1, <1>5, <2>1 DEF SyncErrorFirst
<1>7. ListedErrors'
  BY <1>1, <1>2, <1>4 DEF ErrorInv, ListedErrors
<1> QED
  BY <1>1, <1>3, <1>6, <1>7 DEF ErrorInv, Unlinking, NotYetMissed

(* The first half of pok_error_get clears one bit of the first thread.     *)
LEMMA GetErrors ==
  ASSUME PartitionInv, ErrorInv, NEW t \in Threads, GetError(t)
  PROVE  ErrorInv'
<1> USE ConstantTypes
<1> DEFINE h == Head(errors)
<1>1. /\ errors \in Seq(Threads) /\ errors # <<>> /\ unlinking = None /\ t = handler
      /\ errors' = errors /\ UNCHANGED <<deadline, mode, disabled>> /\ ~disabled /\ current = t
      /\ errorBits' = [errorBits EXCEPT ![h] = @ \ {FirstBit(h)}]
      /\ unlinking' = IF errorBits'[h] = {} THEN h ELSE None
      /\ errorBits \in [Threads -> SUBSET {"sync", "deadline"}]
  BY DEF PartitionInv, TypeInv, TypeOK, HealthTypeOK, GetError, vars, partition
<1>2. mode = "normal"
  BY <1>1, Caller DEF BeginningCaller, HandlerCalls, ProcessCalls, PartitionInv, Created
<1>3. h \in Threads /\ h \in ToSet(errors)
  BY <1>1, Members
<1>4. /\ \A u \in Threads : errorBits'[u] \subseteq errorBits[u]
      /\ \A u \in Threads \ {h} : errorBits'[u] = errorBits[u]
  BY <1>1, <1>3
<1>5. ListedErrors'
  BY <1>1, <1>3, <1>4 DEF ErrorInv, ListedErrors
<1>6. Unlinking'
  BY <1>1, <1>2 DEF Unlinking
<1>7. NotYetMissed' /\ SyncErrorFirst'
  BY <1>1, <1>4, Members DEF ErrorInv, NotYetMissed, SyncErrorFirst
<1> QED
  BY <1>1, <1>5, <1>6, <1>7 DEF ErrorInv, OnceEach

(* error_ignore_sync forgets the synchronous error of the first thread.    *)
LEMMA IgnoreErrors ==
  ASSUME PartitionInv, ErrorInv, NEW t \in Threads, StopHandler(t), unlinking = None
  PROVE  ErrorInv'
<1> USE ConstantTypes
<1> DEFINE h == Head(errors)
<1>1. /\ errors \in Seq(Threads) /\ unlinking' = None /\ UNCHANGED deadline
      /\ errorBits' = IF Ignored THEN [errorBits EXCEPT ![h] = @ \ {"sync"}] ELSE errorBits
      /\ errors' = IF Ignored /\ errorBits'[h] = {} THEN Tail(errors) ELSE errors
      /\ errorBits \in [Threads -> SUBSET {"sync", "deadline"}]
  BY DEF PartitionInv, TypeInv, TypeOK, HealthTypeOK, StopHandler
<1>2. CASE ~Ignored
  BY <1>1, <1>2, ErrorsKept DEF SameErrors
<1>3. CASE Ignored
  <2>1. errors # <<>> /\ h \in Threads /\ h \in ToSet(errors)
    BY <1>1, <1>3, Members DEF Ignored
  <2>2. /\ \A u \in Threads \ {h} : errorBits'[u] = errorBits[u]
        /\ errorBits'[h] = errorBits[h] \ {"sync"}
    BY <1>1, <1>3, <2>1
  <2>3. \A i \in DOMAIN errors : "sync" \notin errorBits'[errors[i]]
    BY <1>1, <2>1, <2>2, Members DEF ErrorInv, SyncErrorFirst
  <2>4. NotYetMissed' /\ Unlinking'
    BY <1>1, <2>1, <2>2 DEF ErrorInv, NotYetMissed, Unlinking
  <2>5. CASE errorBits'[h] # {}
    <3>1. errors' = errors
      BY <1>1, <2>5
    <3>2. ListedErrors'
      BY <1>1, <2>1, <2>2, <2>5, <3>1 DEF ErrorInv, ListedErrors
    <3> QED
      BY <2>3, <2>4, <3>1, <3>2 DEF ErrorInv, SyncErrorFirst, OnceEach
  <2>6. CASE errorBits'[h] = {}
    <3>1. errors' = Tail(errors)
      BY <1>1, <1>3, <2>6
    <3>2. /\ errors' \in Seq(Threads) /\ OnceEach(errors')
          /\ ToSet(errors') = ToSet(errors) \ {h}
      BY <1>1, <2>1, <3>1, TailMembers DEF ErrorInv
    <3>5. ListedErrors'
      BY <1>1, <2>2, <2>6, <3>2 DEF ErrorInv, ListedErrors
    <3>6. SyncErrorFirst'
      <4>1. \A u \in ToSet(errors') : "sync" \notin errorBits'[u]
        BY <1>1, <2>3, <3>2, Members
      <4>2. \A i \in DOMAIN errors' : errors'[i] \in ToSet(errors')
        BY <3>2, Members
      <4> QED
        BY <4>1, <4>2 DEF SyncErrorFirst
    <3> QED
      BY <2>4, <3>2, <3>5, <3>6 DEF ErrorInv
  <2> QED
    BY <2>5, <2>6
<1> QED
  BY <1>2, <1>3

(* thread_add_error_bit: a synchronous error comes when the list is empty, a*)
(* missed deadline of a thread that had none disarms it.                   *)
LEMMA ErrorAdded ==
  ASSUME PartitionInv, ErrorInv, NEW t \in Threads, NEW bit \in {"sync", "deadline"},
         AddErrorBit(t, bit), unlinking = None, unlinking' = None,
         bit = "sync" => errors = <<>>,
         \A u \in Threads : deadline'[u] # "none" => deadline[u] # "none" /\ (u # t \/ bit = "sync")
  PROVE  ErrorInv'
<1> USE ConstantTypes
<1>1. /\ errors \in Seq(Threads) /\ errorBits \in [Threads -> SUBSET {"sync", "deadline"}]
      /\ errorBits' = [errorBits EXCEPT ![t] = @ \union {bit}]
      /\ errors' = Listed(t)
  BY DEF PartitionInv, TypeInv, TypeOK, HealthTypeOK, AddErrorBit
<1>2. /\ \A u \in Threads \ {t} : errorBits'[u] = errorBits[u]
      /\ errorBits'[t] = errorBits[t] \union {bit}
  BY <1>1
<1>3. NotYetMissed'
  BY <1>1, <1>2 DEF ErrorInv, NotYetMissed
<1>4. Unlinking'
  BY DEF Unlinking
<1>5. CASE t \in ToSet(errors)
  <2>1. errors' = errors
    BY <1>1, <1>5 DEF Listed
  <2>2. bit # "sync"
    BY <1>5 DEF ToSet
  <2>3. \A u \in Threads : "sync" \in errorBits'[u] => "sync" \in errorBits[u]
    BY <1>2, <2>2
  <2>4. ListedErrors'
    BY <1>2, <1>5, <2>1 DEF ErrorInv, ListedErrors
  <2>5. SyncErrorFirst'
    BY <1>1, <2>1, <2>3, Members DEF ErrorInv, SyncErrorFirst
  <2> QED
    BY <1>3, <1>4, <2>1, <2>4, <2>5 DEF ErrorInv, OnceEach
<1>6. CASE t \notin ToSet(errors)
  <2>1. errors' = Append(errors, t)
    BY <1>1, <1>6 DEF Listed
  <2>2. /\ errors' \in Seq(Threads) /\ Len(errors') = Len(errors) + 1
        /\ errors'[Len(errors) + 1] = t
        /\ \A i \in 1 .. Len(errors) : errors'[i] = errors[i]
    BY <1>1, <2>1
  <2>3. ToSet(errors') = ToSet(errors) \union {t} /\ OnceEach(errors')
    BY <1>1, <1>6, <2>1, AppendMembers DEF ErrorInv
  <2>5. ListedErrors'
    BY <1>2, <2>3 DEF ErrorInv, ListedErrors
  <2>6. errorBits[t] = {}
    BY <1>6 DEF ErrorInv, ListedErrors
  <2>7. SyncErrorFirst'
    <3>1. SUFFICES ASSUME NEW i \in 1 .. Len(errors) + 1, "sync" \in errorBits'[errors'[i]]
                   PROVE  i = 1
      BY <2>2, Members DEF SyncErrorFirst
    <3>2. CASE i = Len(errors) + 1
      <4>1. bit = "sync"
        BY <1>2, <2>2, <2>6, <3>1, <3>2
      <4> QED
        BY <3>2, <4>1
    <3>3. CASE i # Len(errors) + 1
      <4>1. i \in 1 .. Len(errors) /\ errors'[i] = errors[i] /\ errors[i] # t
        BY <1>1, <1>6, <2>2, <3>3, Members
      <4>2. "sync" \in errorBits[errors[i]]
        BY <1>1, <1>2, <3>1, <4>1, Members
      <4> QED
        BY <1>1, <4>1, <4>2, Members DEF ErrorInv, SyncErrorFirst
    <3> QED
      BY <3>2, <3>3
  <2> QED
    BY <1>3, <1>4, <2>3, <2>5, <2>7 DEF ErrorInv
<1> QED
  BY <1>5, <1>6

(* Every step keeps ErrorInv.                                              *)
LEMMA ErrorNext ==
  ASSUME PartitionInv, ErrorInv, [PartitionNext]_partitionVars,
         [ReadBeforeRestart /\ GetUndisturbed]_partitionVars
  PROVE  ErrorInv'
<1> USE ConstantTypes, LimitedAssumption
<1>1. ThreadTypes /\ HealthTypeOK /\ PartitionTypes
  BY TypeParts DEF PartitionInv
<1>6. CASE UNCHANGED partitionVars
  BY <1>6 DEF partitionVars, vars, partition, health, ErrorInv, ListedErrors, Unlinking, NotYetMissed,
     SyncErrorFirst, OnceEach
<1>13. SUFFICES ASSUME ReadBeforeRestart, GetUndisturbed PROVE ErrorInv'
  BY <1>6
<1>2. ASSUME NEW t \in Threads, CallCase(t), unlinking = None PROVE ErrorInv'
  <2>1. ~disabled /\ current = t
    BY <1>2, CallFacts
  <2>2. CASE HealthFollows
    BY <1>2, <2>2, ErrorsFollow
  <2>3. CASE PeriodicWait(t) \/ Replenish(t)
    <3>1. t # handler /\ mode = "normal"
      BY <2>1, <2>3, Caller DEF PeriodicWait, WaitUntil, WaitingAllowed, Replenish, BeginningCaller,
         HandlerCalls, ProcessCalls
    <3>2. \A u \in Threads : errorBits[u] = {}
      BY <1>2, <2>1, <3>1, NoneListed
    <3>3. SameErrors
      BY <2>3 DEF PeriodicWait, Replenish, partition, SameErrors
    <3> QED
      BY <1>2, <3>2, <3>3, ErrorsKept
  <2>4. CASE SetModeNormal(t)
    <3>1. errors = <<>> /\ SameErrors
      BY <2>4 DEF SetModeNormal, PartitionInv, Beginning, SameErrors
    <3>2. ToSet(errors) = {}
      BY <3>1 DEF ToSet
    <3>3. \A u \in Threads : errorBits[u] = {}
      BY <1>2, <3>2 DEF ErrorInv, ListedErrors
    <3> QED
      BY <1>2, <3>1, <3>3, ErrorsKept
  <2>5. CASE RaiseSync(t)
    <3>1. /\ t # handler /\ mode = "normal" /\ AddErrorBit(t, "sync")
          /\ UNCHANGED <<deadline, unlinking>>
      BY <2>5 DEF RaiseSync, HandlerSees
    <3> QED
      BY <1>2, <2>1, <3>1, NoneListed, ErrorAdded
  <2>6. CASE GetError(t) \/ Unlink(t) \/ StopHandler(t)
    BY <1>2, <2>6, GetErrors, UnlinkErrors, IgnoreErrors
  <2>7. ASSUME NEW u \in Threads, CreateThread(t, u) PROVE ErrorInv'
    <3>1. SameErrors /\ UNCHANGED deadline
      BY <2>7 DEF CreateThread, Create, CreateHandler, health, SameErrors
    <3> QED
      BY <1>2, <3>1, ErrorsKept
  <2>8. ASSUME NEW u \in Threads, NEW later \in BOOLEAN, StartLimited(t, u, later) PROVE ErrorInv'
    <3>1. /\ SameErrors /\ u \in Limited /\ Start(t, u, later)
          /\ \A v \in Threads \ {u} : deadline'[v] = deadline[v]
      BY <1>1, <2>8 DEF StartLimited, partition, SameErrors, HealthTypeOK
    <3>2. state[u] = "stopped" /\ state'[u] # "stopped"
      BY <1>1, <3>1 DEF Start, PartitionTypes, ThreadTypes
    <3>3. errorBits[u] = {}
      BY <1>13, <3>1, <3>2 DEF ReadBeforeRestart
    <3> QED
      BY <1>2, <3>1, <3>3, ErrorsKept
  <2> QED
    BY <1>2, <2>2, <2>3, <2>4, <2>5, <2>6, <2>7, <2>8 DEF CallCase
<1>3. ASSUME NEW t \in Threads, CallCase(t), unlinking # None => Unlink(t) PROVE ErrorInv'
  BY <1>2, <1>3, UnlinkErrors
<1>4. CASE Idle
  <2>1. mode' = "idle" /\ UNCHANGED <<errors, health>>
    BY <1>4 DEF Idle
  <2> QED
    BY <2>1 DEF health, ErrorInv, ListedErrors, Unlinking, NotYetMissed, SyncErrorFirst, OnceEach
<1>5. ASSUME NEW m \in {"cold", "warm"}, Restart(m) PROVE ErrorInv'
  <2>1. /\ errors' = <<>> /\ unlinking' = None /\ errorBits' = errorBits
        /\ \A t \in Threads : errorBits[t] = {}
    BY <1>5, <1>13 DEF Restart, ReadBeforeRestart
  <2>2. ToSet(<<>>) = {} /\ DOMAIN <<>> = {} /\ Len(<<>>) = 0
    BY DEF ToSet
  <2> QED
    BY <2>1, <2>2 DEF ErrorInv, ListedErrors, Unlinking, NotYetMissed, SyncErrorFirst, OnceEach
<1>7. CASE unlinking # None /\ disabled /\ mode # "idle"
  BY <1>7 DEF ErrorInv, Unlinking
<1>8. ASSUME NEW t \in Threads, Reported(t) PROVE ErrorInv'
  <2>1. /\ disabled /\ mode = "normal" /\ AddErrorBit(t, "deadline")
        /\ deadline' = [deadline EXCEPT ![t] = "none"] /\ unlinking' = unlinking
    BY <1>8 DEF Reported
  <2>2. unlinking = None
    BY <2>1 DEF ErrorInv, Unlinking
  <2> QED
    BY <1>1, <2>1, <2>2, ErrorAdded DEF HealthTypeOK
<1>9. ASSUME NEW t \in Threads, NotReported(t) PROVE ErrorInv'
  <2>1. /\ disabled /\ mode = "normal" /\ SameErrors
        /\ deadline' = [deadline EXCEPT ![t] = "none"]
    BY <1>9 DEF NotReported, vars, partition, SameErrors
  <2>2. unlinking = None
    BY <2>1 DEF ErrorInv, Unlinking
  <2> QED
    BY <1>1, <2>1, <2>2, ErrorsKept DEF HealthTypeOK
<1>10. CASE Select /\ mode # "idle" /\ HealthFollows
  BY <1>7, <1>10, ErrorsFollow DEF Select
<1>11. CASE Interrupt /\ mode # "idle" /\ HealthFollows
  <2>1. unlinking = None
    BY <1>11, <1>13 DEF Interrupt, HealthFollows, partition, GetUndisturbed
  <2> QED
    BY <1>11, <2>1, ErrorsFollow
<1>12. ASSUME NEW t \in Threads, Expire(t), mode # "idle", HealthFollows PROVE ErrorInv'
  BY <1>7, <1>12, ErrorsFollow DEF Expire
<1> QED
  BY <1>3, <1>4, <1>5, <1>6, <1>8, <1>9, <1>10, <1>11, <1>12, StepCases

(* No error is listed at the start.                                        *)
LEMMA ErrorInit ==
  ASSUME PartitionInit
  PROVE  ErrorInv
<1>1. /\ errors = <<>> /\ unlinking = None /\ \A t \in Threads : errorBits[t] = {}
  BY DEF PartitionInit, Everywhere
<1>2. ToSet(<<>>) = {} /\ DOMAIN <<>> = {} /\ Len(<<>>) = 0
  BY DEF ToSet
<1> QED
  BY <1>1, <1>2 DEF ErrorInv, ListedErrors, Unlinking, NotYetMissed, SyncErrorFirst, OnceEach

(* ErrorInv holds in every reachable state of a partition that is used in  *)
(* this way.                                                               *)
LEMMA ErrorInvariant ==
  PartitionSpec /\ [][ReadBeforeRestart /\ GetUndisturbed]_partitionVars => []ErrorInv
<1>1. PartitionInv /\ ErrorInv /\ [PartitionNext]_partitionVars
      /\ [ReadBeforeRestart /\ GetUndisturbed]_partitionVars => ErrorInv'
  BY ErrorNext
<1> QED
  BY <1>1, ErrorInit, PartitionInvariant, PTL DEF PartitionSpec

(* In the behaviours where errors are read before restarts and no event      *)
(* interrupts pok_error_get (the code assures neither), the list holds       *)
(* exactly the threads with an unread error, once each: none is forgotten, *)
(* and no bit is set twice.                                                *)
THEOREM ErrorsStayListed ==
  PartitionSpec /\ [][ReadBeforeRestart /\ GetUndisturbed]_partitionVars => []ErrorsListed
<1>1. PartitionInv /\ ErrorInv => ErrorsListed
  <2>1. SUFFICES ASSUME PartitionInv, ErrorInv PROVE ErrorsListed
    OBVIOUS
  <2>2. errors \in Seq(Threads) /\ ToSet(errors) \subseteq Threads
    BY <2>1, Members DEF PartitionInv, TypeInv, TypeOK
  <2>3. Cardinality(ToSet(errors)) = Len(errors)
    BY <2>1, <2>2, OnceEachCardinality DEF ErrorInv
  <2>4. unlinking = None => ToSet(errors) = {t \in Threads : errorBits[t] # {}}
    BY <2>1, <2>2, ConstantTypes DEF ErrorInv, ListedErrors
  <2> QED
    BY <2>1, <2>3, <2>4 DEF ErrorInv, NotYetMissed, ErrorsListed
<1> QED
  BY <1>1, ErrorInvariant, PartitionInvariant, PTL

(* In the same behaviours a synchronous error is the first of the list,      *)
(* so the single record sync_error belongs to the thread that the handler  *)
(* reads.                                                                  *)
THEOREM SyncErrorsFirst ==
  PartitionSpec /\ [][ReadBeforeRestart /\ GetUndisturbed]_partitionVars => []SyncErrorFirst
<1>1. ErrorInv => SyncErrorFirst
  BY DEF ErrorInv
<1> QED
  BY <1>1, ErrorInvariant, PTL
================================================================================
