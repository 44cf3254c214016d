--------------------------------- MODULE Threads ---------------------------------
(***************************************************************************)
(* The threads of one partition and the scheduler that chooses among them:  *)
(* kernel/core/thread.c, thread_internal.c and sched_arinc.c, with the      *)
(* preemption lock of partition_arinc.c.                                   *)
(*                                                                         *)
(* A system call of the running thread disables the preemption inside the   *)
(* partition, changes the threads, and enables it again; on the way back    *)
(* sched_arinc fires the delayed events that are due and, if a recheck is   *)
(* needed, selects a thread.  The thread that runs is the selected one, or  *)
(* one that it depends on: a thread it is stopping, or the owner of the     *)
(* critical section (msection) that it is entering.  While the partition is  *)
(* being initialised only its main thread runs; once it is in the mode       *)
(* NORMAL, the error handler comes before the others.  The modules that      *)
(* extend this one make the partition's own variables change.              *)
(***************************************************************************)
EXTENDS Integers, FiniteSets, SequencesExt

CONSTANTS Threads, Sections, None,
          Main,           \* the main thread, or None where it runs no more
          Periodic,       \* the threads that have a period
          BasePriority,   \* the priority of each thread when it starts
          Priorities,     \* those that SET_PRIORITY may give
          MaxLock         \* MAX_LOCK_LEVEL

ASSUME ThreadsAssumption ==
  /\ IsFiniteSet(Threads)
  /\ None \notin Threads \union Sections
  /\ Main \in Threads \union {None}
  /\ Periodic \subseteq Threads
  /\ Priorities \subseteq Nat
  /\ BasePriority \in [Threads -> Nat]
  /\ MaxLock \in Nat \ {0}

VARIABLES
  state, suspended, priority,   \* fields of pok_thread_t
  delayed,       \* thread_delayed_event: "none", or the function it will call
  waitResult,    \* wait_result
  entering,      \* msection_entering, the kernel's
  eligible,      \* part->eligible_threads
  donateTarget, firstDonator, nextDonator,   \* relations_stop
  lockLevel, locked,                         \* the preemption lock
  current, selected, waitingSection,         \* what the scheduler has chosen
  isErrorHandler,                            \* is it the error handler?
  recheck,       \* sched_local_recheck_needed
  disabled,      \* preempt_local_disabled
  \* the partition:
  mode,          \* "cold", "warm" (INIT_COLD, INIT_WARM), "normal" or "idle"
  created,       \* the threads up to nthreads_used
  handler,       \* thread_error
  errors,        \* error_list
  \* the memory shared with the library:
  owner, reschedAfterLeave,     \* of each section
  msectionCount, userEntering, killed   \* of each thread

lock == <<lockLevel, locked>>
stops == <<donateTarget, firstDonator, nextDonator>>
choice == <<current, selected, waitingSection, isErrorHandler>>
partition == <<mode, created, handler, errors>>
shared == <<owner, reschedAfterLeave, msectionCount, userEntering, killed>>
vars == <<state, suspended, priority, delayed, waitResult, entering, eligible, stops,
          lock, choice, recheck, disabled, partition, shared>>

--------------------------------------------------------------------------------
Thread0 == Threads \union {None}
Section0 == Sections \union {None}

TypeOK ==
  /\ state \in [Threads -> {"stopped", "runnable", "waiting"}]
  /\ suspended \in [Threads -> BOOLEAN]
  /\ priority \in [Threads -> Nat]
  /\ delayed \in [Threads -> {"none", "wake", "resume"}]
  /\ waitResult \in [Threads -> {"ok", "timeout", "cancelled"}]
  /\ entering \in [Threads -> Section0] /\ userEntering \in [Threads -> Section0]
  /\ eligible \in Seq(Threads)
  /\ \A link \in {donateTarget, firstDonator, nextDonator} : link \in [Threads -> Thread0]
  /\ lockLevel \in 0 .. MaxLock /\ locked \in Thread0
  /\ current \in Thread0 /\ selected \in Thread0 /\ waitingSection \in Section0
  /\ recheck \in BOOLEAN /\ disabled \in BOOLEAN /\ isErrorHandler \in BOOLEAN
  /\ mode \in {"cold", "warm", "normal", "idle"}
  /\ created \subseteq Threads /\ handler \in Thread0 /\ errors \in Seq(Threads)
  /\ owner \in [Sections -> Thread0] /\ reschedAfterLeave \in [Sections -> BOOLEAN]
  /\ msectionCount \in [Threads -> Nat] /\ killed \in [Threads -> BOOLEAN]

First(q) == IF q = <<>> THEN None ELSE Head(q)

(* thread_set_eligible: in front of the first thread of a lower priority.   *)
EnqueueInFront(q, t, prio) ==      \* mutant: in front of those of its priority
  LET i == SelectInSeq(q, LAMBDA u : prio[u] <= prio[t])
  IN  InsertAt(q, IF i = 0 THEN Len(q) + 1 ELSE i, t)

Enqueue(q, t, prio) ==
  LET i == SelectInSeq(q, LAMBDA u : prio[u] < prio[t])
  IN  InsertAt(q, IF i = 0 THEN Len(q) + 1 ELSE i, t)

Without(q, S) ==
  LET kept[n \in 0 .. Len(q)] ==
        IF n = 0 THEN <<>> ELSE IF q[n] \in S THEN kept[n - 1] ELSE Append(kept[n - 1], q[n])
  IN  kept[Len(q)]

(* The list of eligible threads changes; the scheduler must look at it      *)
(* again if its first thread is another one, or if the caller says so.     *)
FirstRemoved(q) == First(eligible) \notin ToSet(q)  \* mutant: additions are not seen
FirstChanges(q) == First(q) # First(eligible)

Requeue(q, invalidate) ==
  /\ eligible' = q
  /\ recheck' = (recheck \/ invalidate \/ FirstChanges(q))

(* A call of the running thread, which ends with Select.                   *)
SysCall(t) == ~disabled /\ current = t /\ disabled' = TRUE

(* get_thread_by_id: the threads that a call can be about.                  *)
Processes == created \ {Main, handler}
Target(t, u) == u \in Processes \ {t} /\ state[u] # "stopped"

(* thread_set_eligible, where the code calls it for threads that are not     *)
(* suspended only.                                                         *)
ReadyAnyway(q, t) == Enqueue(q, t, priority)       \* mutant: suspended or not
Ready(q, t) == IF suspended[t] THEN q ELSE Enqueue(q, t, priority)

ReadyAll(q, ts) ==
  LET after[n \in 0 .. Len(ts)] == IF n = 0 THEN q ELSE Ready(after[n - 1], ts[n])
  IN  after[Len(ts)]

(* thread_wake_up for each thread of a sequence.                           *)
WakeUp(q, result, invalidate) ==
  /\ state' = [t \in Threads |-> IF t \in ToSet(q) THEN "runnable" ELSE state[t]]
  /\ delayed' = [t \in Threads |-> IF t \in ToSet(q) THEN "none" ELSE delayed[t]]
  /\ waitResult' = [t \in Threads |->
       IF t \in ToSet(q) /\ entering[t] # None THEN result ELSE waitResult[t]]
  /\ Requeue(ReadyAll(eligible, q), invalidate)
  /\ UNCHANGED <<suspended, priority, entering>>

(* thread_stop for each thread of a set.  (The code leaves thread_locked,     *)
(* which is not read while the level is 0.)                                *)
StopsNoLocked(S) == FALSE          \* mutant: the lock is not given back
StopsLocked(S) == lockLevel > 0 /\ locked \in S

DelayedWithout(S) == [t \in Threads |-> IF t \in S THEN "none" ELSE delayed[t]]

StopAll(S, invalidate) ==
  /\ state' = [t \in Threads |-> IF t \in S THEN "stopped" ELSE state[t]]
  /\ delayed' = DelayedWithout(S)
  /\ entering' = [t \in Threads |-> IF t \in S THEN None ELSE entering[t]]
  /\ Requeue(Without(eligible, S), invalidate \/ StopsLocked(S))
  /\ lockLevel' = IF StopsLocked(S) THEN 0 ELSE lockLevel
  /\ locked' = IF StopsLocked(S) THEN None ELSE locked
  /\ UNCHANGED <<suspended, priority, waitResult>>

--------------------------------------------------------------------------------
(* A call that fails, or that only reads.                                  *)
NoEffect(t) ==
  /\ SysCall(t)
  /\ UNCHANGED <<state, suspended, priority, delayed, waitResult, entering, eligible, recheck,
                 stops, lock, choice, shared>>

(* thread_delayed_start_internal.  A periodic thread always waits for its   *)
(* release point; before the mode NORMAL, any thread waits for this mode.  *)
Start(t, u, later) ==
  /\ SysCall(t) /\ u \in Processes /\ state[u] = "stopped"
  /\ u \in Periodic \/ mode # "normal" => later
  /\ priority' = [priority EXCEPT ![u] = BasePriority[u]]
  /\ msectionCount' = [msectionCount EXCEPT ![u] = 0]
  /\ userEntering' = [userEntering EXCEPT ![u] = None]
  /\ killed' = [killed EXCEPT ![u] = FALSE]
  /\ IF later
     THEN /\ state' = [state EXCEPT ![u] = "waiting"]
          /\ delayed' = [delayed EXCEPT ![u] = IF mode = "normal" THEN "wake" ELSE "none"]
          /\ UNCHANGED <<eligible, recheck>>
     ELSE /\ state' = [state EXCEPT ![u] = "runnable"]
          /\ Requeue(IF suspended[u] THEN eligible ELSE Enqueue(eligible, u, priority'), FALSE)
          /\ UNCHANGED delayed
  /\ UNCHANGED <<suspended, waitResult, entering, stops, lock, choice, owner, reschedAfterLeave>>

(* pok_thread_stop.                                                        *)
StopSelf(t) ==
  /\ SysCall(t) /\ t # handler
  /\ StopAll({t}, TRUE)
  /\ UNCHANGED <<stops, choice, shared>>

NeverInSection(u) == FALSE         \* mutant: sections are not looked at
InSection(u) == msectionCount[u] > 0

(* pok_thread_stop_target.  A target outside of any critical section stops  *)
(* at once;                                                                *)
StopNow(t, u) ==
  /\ SysCall(t) /\ Target(t, u)
  /\ donateTarget[u] = None /\ firstDonator[u] = None /\ ~InSection(u)
  /\ StopAll({u}, FALSE)
  /\ UNCHANGED <<stops, choice, shared>>

(* inside one, it will when it leaves the section, and the caller donates   *)
(* its time until then;                                                    *)
Donate(t, u, next) ==
  /\ donateTarget' = [donateTarget EXCEPT ![t] = u]
  /\ nextDonator' = [nextDonator EXCEPT ![t] = next]

StopLater(t, u) ==
  /\ SysCall(t) /\ Target(t, u)
  /\ donateTarget[u] = None /\ firstDonator[u] = None /\ InSection(u)
  /\ WakeUp(IF state[u] = "waiting" THEN <<u>> ELSE <<>>, "cancelled", TRUE)
  /\ Donate(t, u, None)
  /\ firstDonator' = [firstDonator EXCEPT ![u] = t]
  /\ killed' = [killed EXCEPT ![u] = TRUE]
  /\ UNCHANGED <<lock, choice, owner, reschedAfterLeave, msectionCount, userEntering>>

(* the target waits for another thread to stop: the caller waits for the    *)
(* same one, behind the target;                                            *)
StopDonator(t, u) ==
  /\ SysCall(t) /\ Target(t, u) /\ donateTarget[u] # None
  /\ firstDonator' = [firstDonator EXCEPT ![u] = IF @ = None THEN t ELSE @]
  /\ donateTarget' = [donateTarget EXCEPT ![t] = donateTarget[u]]
  /\ nextDonator' = [nextDonator EXCEPT ![t] = nextDonator[u], ![u] = t]
  /\ recheck' = TRUE
  /\ UNCHANGED <<state, suspended, priority, delayed, waitResult, entering, eligible,
                 lock, choice, shared>>

(* or others wait for the target already.                                  *)
StopAgain(t, u) ==
  /\ SysCall(t) /\ Target(t, u)
  /\ donateTarget[u] = None /\ firstDonator[u] # None
  /\ Donate(t, u, firstDonator[u])
  /\ firstDonator' = [firstDonator EXCEPT ![u] = t]
  /\ recheck' = TRUE
  /\ UNCHANGED <<state, suspended, priority, delayed, waitResult, entering, eligible,
                 lock, choice, shared>>

Stop(t, u) == StopNow(t, u) \/ StopLater(t, u) \/ StopDonator(t, u) \/ StopAgain(t, u)

(* jet_resched: a section that was waited for is free, or the thread that   *)
(* leaves its last section is to stop, and those that donate to it go on.  *)
FirstOnly(t) == {firstDonator[t]} \ {None}   \* mutant: the others go on waiting

Donators(t) ==
  LET link[i \in 0 .. Cardinality(Threads)] ==
        IF i = 0 THEN firstDonator[t]
        ELSE IF link[i - 1] = None THEN None ELSE nextDonator[link[i - 1]]
  IN  {link[i] : i \in 0 .. Cardinality(Threads)} \ {None}

Freed == waitingSection # None /\ owner[waitingSection] = None

ReschedStays(t) ==
  /\ SysCall(t)
  /\ firstDonator[t] = None \/ msectionCount[t] > 0
  /\ Requeue(eligible, Freed)
  /\ UNCHANGED <<state, suspended, priority, delayed, waitResult, entering, stops, lock,
                 choice, shared>>

ReschedStops(t) ==
  LET donators == Donators(t)
      targets == {t} \union {d \in donators : firstDonator[d] # None}
  IN  /\ SysCall(t)
      /\ firstDonator[t] # None /\ msectionCount[t] = 0
      /\ StopAll(targets, Freed \/ selected \in donators)
      /\ donateTarget' = [u \in Threads |-> IF u \in donators THEN None ELSE donateTarget[u]]
      /\ nextDonator' = [u \in Threads |-> IF u \in donators THEN None ELSE nextDonator[u]]
      /\ firstDonator' = [u \in Threads |-> IF u \in targets THEN None ELSE firstDonator[u]]
      /\ UNCHANGED <<choice, shared>>

--------------------------------------------------------------------------------
(* pok_thread_suspend_target; pok_thread_resume.  What a timed suspension     *)
(* returns to its thread is left out.                                      *)
Suspend(t, u) ==
  /\ SysCall(t) /\ Target(t, u) /\ u \notin Periodic
  /\ ~suspended[u] /\ ~StopsLocked({u})
  /\ suspended' = [suspended EXCEPT ![u] = TRUE]
  /\ Requeue(Without(eligible, {u}), FALSE)
  /\ UNCHANGED <<state, priority, delayed, waitResult, entering, stops, lock, choice, shared>>

Resume(t, u) ==
  LET timed == delayed[u] = "resume" IN
  /\ SysCall(t) /\ Target(t, u) /\ u \notin Periodic /\ suspended[u]
  /\ suspended' = [suspended EXCEPT ![u] = FALSE]
  /\ IF timed
     THEN /\ state' = [state EXCEPT ![u] = "runnable"]
          /\ delayed' = [delayed EXCEPT ![u] = "none"]
     ELSE UNCHANGED <<state, delayed>>
  /\ Requeue(IF state'[u] = "runnable" THEN Enqueue(eligible, u, priority) ELSE eligible, FALSE)
  /\ UNCHANGED <<priority, waitResult, entering, stops, lock, choice, shared>>

(* thread_is_waiting_allowed.                                              *)
WaitingAllowed == lockLevel = 0 /\ current # handler

(* pok_thread_suspend, without a limit or with one.                        *)
SuspendSelf(t, timed) ==
  /\ SysCall(t) /\ WaitingAllowed /\ t \notin Periodic
  /\ suspended' = [suspended EXCEPT ![t] = TRUE]
  /\ IF timed
     THEN /\ state' = [state EXCEPT ![t] = "waiting"]
          /\ delayed' = [delayed EXCEPT ![t] = "resume"]
     ELSE UNCHANGED <<state, delayed>>
  /\ Requeue(Without(eligible, {t}), FALSE)
  /\ UNCHANGED <<priority, waitResult, entering, stops, lock, choice, shared>>

(* thread_wait_timed of the running thread, or thread_wait without a limit.  *)
WaitUntil(t, event) ==
  /\ SysCall(t) /\ WaitingAllowed
  /\ state' = [state EXCEPT ![t] = "waiting"]
  /\ delayed' = [delayed EXCEPT ![t] = event]
  /\ Requeue(Without(eligible, {t}), FALSE)
  /\ UNCHANGED <<suspended, priority, waitResult, entering, stops, lock, choice, shared>>

(* pok_thread_sleep: "It is possible to sleep forever".                    *)
Sleep(t) == \E event \in {"wake", "none"} : WaitUntil(t, event)

(* thread_yield of an eligible thread: behind those of its priority.       *)
Yielded(u, prio) == Enqueue(Without(eligible, {u}), u, prio)

(* pok_thread_yield; pok_thread_set_priority.                              *)
Yield(t) ==
  /\ SysCall(t)
  /\ IF t \in ToSet(eligible)
     THEN Requeue(Yielded(t, priority), First(eligible) = t)
     ELSE UNCHANGED <<eligible, recheck>>
  /\ UNCHANGED <<state, suspended, priority, delayed, waitResult, entering, stops, lock,
                 choice, shared>>

SetPriority(t, u, p) ==
  /\ SysCall(t) /\ u \in Processes /\ state[u] # "stopped"
  /\ priority' = [priority EXCEPT ![u] = p]
  /\ IF u \in ToSet(eligible)
     THEN Requeue(Yielded(u, priority'), First(eligible) = u)
     ELSE UNCHANGED <<eligible, recheck>>
  /\ UNCHANGED <<state, suspended, delayed, waitResult, entering, stops, lock, choice, shared>>

(* pok_current_partition_inc_lock_level and ..._dec_lock_level.            *)
LockAllowed == mode = "normal" /\ current # handler

Lock(t) ==
  /\ SysCall(t) /\ LockAllowed /\ lockLevel < MaxLock
  /\ lockLevel' = lockLevel + 1 /\ locked' = t
  /\ UNCHANGED <<state, suspended, priority, delayed, waitResult, entering, eligible, recheck,
                 stops, choice, shared>>

Unlock(t) ==
  /\ SysCall(t) /\ LockAllowed /\ lockLevel > 0
  /\ lockLevel' = lockLevel - 1
  /\ locked' = IF lockLevel' = 0 THEN None ELSE locked
  /\ Requeue(eligible, lockLevel' = 0 /\ First(eligible) # t)
  /\ UNCHANGED <<state, suspended, priority, delayed, waitResult, entering, stops, choice,
                 shared>>

--------------------------------------------------------------------------------
(* A delayed event of a thread fires, among the events of sched_arinc:      *)
(* thread_wake_up or thread_resume_waited.                                 *)
Expire(t) ==
  /\ disabled
  /\ \/ delayed[t] = "wake" /\ WakeUp(<<t>>, "timeout", FALSE)
     \/ /\ delayed[t] = "resume"
        /\ suspended' = [suspended EXCEPT ![t] = FALSE]
        /\ state' = [state EXCEPT ![t] = "runnable"]
        /\ delayed' = [delayed EXCEPT ![t] = "none"]
        /\ Requeue(Enqueue(eligible, t, priority), FALSE)
        /\ UNCHANGED <<priority, waitResult, entering>>
  /\ UNCHANGED <<disabled, stops, lock, choice, shared>>

(* The thread that must make progress, and what it depends on: select_thread *)
(* follows the owners of the sections at most MaxHops times.               *)
MaxHops == 5

HandlerContinues == handler # None /\ state[handler] # "stopped"  \* mutant: is not started
HandlerRuns == handler # None /\ (state[handler] # "stopped" \/ errors # <<>>)

Choice ==
  IF mode # "normal" THEN IF state[Main] = "stopped" THEN None ELSE Main
  ELSE IF HandlerRuns THEN handler
  ELSE IF lockLevel > 0 THEN locked
  ELSE First(eligible)

Blocked(t) == entering[t] # None /\ owner[entering[t]] \notin {None, t}

Chain(t) ==
  LET link[i \in 0 .. MaxHops] ==
        IF i = 0 THEN IF donateTarget[t] # None THEN donateTarget[t] ELSE t
        ELSE IF Blocked(link[i - 1]) THEN owner[entering[link[i - 1]]] ELSE link[i - 1]
  IN  link

Runner(t) == IF t = None THEN None ELSE Chain(t)[MaxHops]

(* The section that the thread to run must leave first.                    *)
WaitedSection(t) ==
  IF t = None \/ ~Blocked(Chain(t)[0]) THEN None
  ELSE entering[Chain(t)[CHOOSE i \in 0 .. MaxHops :
                           Blocked(Chain(t)[i]) /\ Chain(t)[i + 1] = Runner(t)]]

(* The assertions of select_thread.                                        *)
CanRun(t) ==
  t # None => /\ ~Blocked(Runner(t))
              /\ \A i \in 1 .. MaxHops :
                   Chain(t)[i] # Chain(t)[0] => state[Chain(t)[i]] = "runnable"

(* The end of sched_arinc: the thread that runs next.  Choosing the error     *)
(* handler starts it.                                                      *)
Select ==
  /\ disabled /\ disabled' = FALSE
  /\ \/ /\ ~recheck
        /\ UNCHANGED <<recheck, choice, state, entering, owner, reschedAfterLeave>>
     \/ /\ recheck /\ CanRun(Choice) /\ recheck' = FALSE
        /\ selected' = Choice
        /\ current' = Runner(Choice)
        /\ isErrorHandler' = (mode = "normal" /\ handler # None /\ Choice = handler)
        /\ state' = [t \in Threads |-> IF isErrorHandler' /\ t = handler THEN "runnable"
                                      ELSE state[t]]
        /\ waitingSection' = WaitedSection(Choice)
        /\ reschedAfterLeave' = [s \in Sections |->
             s = waitingSection' \/ (s # waitingSection /\ reschedAfterLeave[s])]
        /\ IF current' # None /\ entering[current'] # None
           THEN /\ owner' = [owner EXCEPT ![entering[current']] = current']
                /\ entering' = [entering EXCEPT ![current'] = None]
           ELSE UNCHANGED <<owner, entering>>
  /\ UNCHANGED <<suspended, priority, delayed, waitResult, eligible, stops, lock,
                 msectionCount, userEntering, killed>>

(* pok_sched_arinc_on_event: an event interrupts the running thread.       *)
Interrupt ==
  /\ ~disabled /\ disabled' = TRUE
  /\ entering' = [t \in Threads |->
       IF t = current /\ userEntering[t] # None THEN userEntering[t] ELSE entering[t]]
  /\ UNCHANGED <<state, suspended, priority, delayed, waitResult, eligible, recheck,
                 stops, lock, choice, shared>>

(* What the running thread may ask for, in a program without critical       *)
(* sections; Msection adds the calls that need one.                        *)
ThreadStep(t) ==
  \/ NoEffect(t) \/ StopSelf(t) \/ Sleep(t) \/ Yield(t) \/ Lock(t) \/ Unlock(t)
  \/ \E flag \in BOOLEAN : SuspendSelf(t, flag)
  \/ \E u \in Threads :
       \/ StopNow(t, u) \/ Suspend(t, u) \/ Resume(t, u)
       \/ \E flag \in BOOLEAN : Start(t, u, flag)
       \/ \E p \in Priorities : SetPriority(t, u, p)

--------------------------------------------------------------------------------
(* The list of eligible threads holds, once each, exactly the processes that *)
(* are runnable and not suspended, whatever sequence of START, STOP,        *)
(* SUSPEND, RESUME and timeouts led there (thread_set_eligible asserts that *)
(* it never adds one twice), and none is in front of one of a higher        *)
(* current priority, even after SET_PRIORITY.                              *)
EligibleQueue ==
  /\ ToSet(eligible) = {t \in Processes : state[t] = "runnable" /\ ~suspended[t]}
  /\ \A i, j \in DOMAIN eligible : i < j =>
       eligible[i] # eligible[j] /\ priority[eligible[i]] >= priority[eligible[j]]

(* Outside of the kernel, no recheck is pending, and the thread that runs   *)
(* is the one that the selection rule of sched_arinc gives for the present  *)
(* list of eligible threads: every change that matters has invalidated the  *)
(* previous choice.                                                        *)
RightThreadRuns ==
  ~disabled => /\ current = Runner(Choice)
               /\ mode = "normal" => ~recheck /\ selected = Choice

(* The thread that holds the preemption lock can go on until it unlocks:    *)
(* it is neither stopped nor suspended nor waiting.                        *)
LockHolderRuns == mode = "normal" /\ lockLevel > 0 => locked \in ToSet(eligible)

(* A preempted thread keeps its place: one that was in front of another is   *)
(* behind it only if it has now a lower priority, or went behind all those  *)
(* of its priority (YIELD, SET_PRIORITY).                                  *)
Before(q, t, u) == \E i, j \in DOMAIN q : i < j /\ q[i] = t /\ q[j] = u

PlacesKept ==
  [][\A t, u \in Threads :
       Before(eligible, t, u) /\ Before(eligible', u, t) =>
         \/ priority'[u] > priority'[t]
         \/ \A v \in Threads : Before(eligible', t, v) => priority'[v] < priority'[t]]_vars
================================================================================
