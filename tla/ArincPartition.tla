------------------------------ MODULE ArincPartition ------------------------------
(***************************************************************************)
(* The life of one partition around the scheduler of its threads:          *)
(* kernel/core/partition_arinc.c and error_arinc.c, with thread_create and  *)
(* the deadlines of thread.c.                                              *)
(*                                                                         *)
(* The main thread creates the processes and the error handler, then asks   *)
(* for the mode NORMAL and runs no more.  An error of a process, or its     *)
(* deadline when it passes, is either listed for the error handler, which   *)
(* then runs before every other thread, or answered by what the table of    *)
(* the partition says: nothing, the mode IDLE, or a restart.               *)
(***************************************************************************)
EXTENDS Threads

CONSTANT Limited   \* the threads that have a time capacity

ASSUME LimitedAssumption ==
  /\ Periodic \subseteq Limited /\ Limited \subseteq Threads /\ Main \in Threads \ Limited

VARIABLES
  errorBits,  \* error_bits of each thread
  deadline,   \* its deadline event: "none", "armed", or "later" when the
              \* process has first to be woken up by its delayed event
  unlinking   \* the thread that pok_error_get is taking out of the list
health == <<errorBits, deadline, unlinking>>
partitionVars == <<vars, health>>

HealthTypeOK ==
  /\ errorBits \in [Threads -> SUBSET {"sync", "deadline"}]
  /\ deadline \in [Threads -> {"none", "armed", "later"}]
  /\ unlinking \in Thread0

--------------------------------------------------------------------------------
(* partition_arinc_start and sched_arinc_start: the main thread is created     *)
(* again and runs, and the others have to be.                              *)
OnlyMain == [t \in Threads |-> IF t = Main THEN "runnable" ELSE "stopped"]
Everywhere(v) == [t \in Threads |-> v]

PartitionInit ==
  /\ state = OnlyMain /\ suspended = Everywhere(FALSE) /\ priority = BasePriority
  /\ delayed = Everywhere("none") /\ deadline = Everywhere("none")
  /\ entering = Everywhere(None) /\ waitResult = Everywhere("ok")
  /\ eligible = <<>> /\ lockLevel = 1 /\ locked = Main
  /\ donateTarget = Everywhere(None)
  /\ firstDonator = Everywhere(None) /\ nextDonator = Everywhere(None)
  /\ mode = "cold" /\ created = {Main} /\ handler = None /\ errors = <<>>
  /\ owner = [s \in Sections |-> None] /\ reschedAfterLeave = [s \in Sections |-> FALSE]
  /\ msectionCount = Everywhere(0) /\ userEntering = Everywhere(None)
  /\ killed = Everywhere(FALSE)
  /\ current = Main /\ selected = None /\ waitingSection = None /\ isErrorHandler = FALSE
  /\ recheck = FALSE /\ disabled = FALSE
  /\ errorBits = Everywhere({}) /\ unlinking = None

(* pok_partition_arinc_reset.  The choice of the scheduler, its flags and the  *)
(* error bits keep their values.                                           *)
Restart(newMode) ==
  /\ state' = OnlyMain /\ suspended' = Everywhere(FALSE) /\ priority' = BasePriority
  /\ delayed' = Everywhere("none") /\ deadline' = Everywhere("none")
  /\ entering' = Everywhere(None)
  /\ eligible' = <<>> /\ lockLevel' = 1 /\ locked' = Main
  /\ donateTarget' = Everywhere(None)
  /\ firstDonator' = Everywhere(None) /\ nextDonator' = Everywhere(None)
  /\ mode' = newMode /\ created' = {Main} /\ handler' = None /\ errors' = <<>>
  /\ owner' = [s \in Sections |-> None]
  /\ reschedAfterLeave' = [s \in Sections |-> FALSE]
  /\ msectionCount' = Everywhere(0) /\ userEntering' = Everywhere(None)
  /\ killed' = Everywhere(FALSE)
  /\ current' = Main /\ disabled' = FALSE /\ unlinking' = None
  /\ UNCHANGED <<waitResult, selected, waitingSection, isErrorHandler, recheck, errorBits>>

(* pok_partition_arinc_idle: the partition does nothing any more, with        *)
(* preemption disabled.  (The field keeps its value in the code.)          *)
Idle ==
  /\ mode' = "idle" /\ disabled' = TRUE
  /\ UNCHANGED <<state, suspended, priority, delayed, waitResult, entering, eligible, stops,
                 lock, choice, recheck, created, handler, errors, shared, health>>

(* idle_func.                                                              *)
IdleLoop == mode = "idle" /\ UNCHANGED partitionVars

(* A restart of the module, from outside.                                  *)
ModuleReset == Restart("cold")

--------------------------------------------------------------------------------
(* What the steps of the threads do to the deadlines: that of a stopped      *)
(* thread is removed, that of a thread woken up for its release can pass.  *)
DeadlinesKept(d) == d              \* mutant: thread_stop leaves it
DeadlinesFollow(d) ==
  [t \in Threads |->
    IF state'[t] = "stopped" THEN "none"
    ELSE IF d[t] = "later" /\ state'[t] = "runnable" THEN "armed"
    ELSE d[t]]

Deadlines == deadline' = DeadlinesFollow(deadline)

(* pok_thread_create; pok_error_thread_create.                             *)
Create(t, u) ==
  /\ SysCall(t) /\ mode # "normal" /\ u \notin created
  /\ created' = created \union {u}
  /\ UNCHANGED <<mode, handler, errors>>

CreateHandler(t, u) ==
  /\ SysCall(t) /\ mode # "normal" /\ u \notin created /\ handler = None
  /\ created' = created \union {u} /\ handler' = u
  /\ UNCHANGED <<mode, errors>>

CreateThread(t, u) ==
  /\ Create(t, u) \/ (u \notin Limited /\ CreateHandler(t, u))
  /\ UNCHANGED <<state, suspended, priority, delayed, waitResult, entering, eligible, stops,
                 lock, choice, recheck, shared, health>>

(* partition_set_mode_normal: the threads that were started are woken up, or  *)
(* wait for their start time.                                              *)
Started == {u \in created \ {Main} : state[u] # "stopped"}

SetModeNormal(t) ==
  /\ SysCall(t) /\ mode \in {"cold", "warm"}
  /\ mode' = "normal" /\ lockLevel' = 0 /\ locked' = None /\ recheck' = TRUE
  /\ \E later \in SUBSET Started :
       /\ state' = [u \in Threads |-> IF u \in Started \ later THEN "runnable" ELSE state[u]]
       /\ delayed' = [u \in Threads |-> IF u \in later THEN "wake" ELSE delayed[u]]
       /\ deadline' = [u \in Threads |-> IF u \notin Started \intersect Limited THEN "none"
                                         ELSE IF u \in later THEN "later" ELSE "armed"]
       /\ \E q \in SetToSeqs(Started \ later) : eligible' = ReadyAll(eligible, q)
  /\ UNCHANGED <<suspended, priority, waitResult, entering, stops, choice, created, handler,
                 errors, shared, errorBits, unlinking>>

(* pok_partition_set_mode_current.                                         *)
MayRestart(newMode) == newMode = "warm" => mode # "cold"

SetMode(t) ==
  \/ SetModeNormal(t)
  \/ ~disabled /\ current = t /\ \/ Idle
                                 \/ \E m \in {"cold", "warm"} : MayRestart(m) /\ Restart(m)

--------------------------------------------------------------------------------
(* thread_add_error_bit, which asserts that the bit is clear.              *)
ListedFirst(t) == IF t \in ToSet(errors) THEN errors ELSE <<t>> \o errors  \* mutant
AppendAlways(t) == Append(errors, t)   \* mutant: whether it is listed or not
Listed(t) == IF t \in ToSet(errors) THEN errors ELSE Append(errors, t)

AddErrorBit(t, bit) ==
  /\ bit \notin errorBits[t]
  /\ errorBits' = [errorBits EXCEPT ![t] = @ \union {bit}]
  /\ errors' = Listed(t)
  /\ recheck' = (recheck \/ errors' # errors)

(* take_fixed_action: what the table of the partition says of an error.  A    *)
(* warm start before the first cold one has ended is a failed assertion.   *)
FixedAction ==
  \/ Idle
  \/ \E m \in {"cold", "warm"} : MayRestart(m) /\ Restart(m)

(* An error of the running thread (pok_partition_arinc_process_error,        *)
(* pok_error_raise_application_error), which the handler is to see ...     *)
HandlerSees == mode = "normal" /\ handler # None

RaiseSync(t) ==
  /\ SysCall(t) /\ HandlerSees /\ t # handler
  /\ AddErrorBit(t, "sync")
  /\ UNCHANGED <<state, suspended, priority, delayed, waitResult, entering, eligible, stops,
                 lock, choice, mode, created, handler, shared, deadline, unlinking>>

(* ... or not, like those of the handler, of the kernel, and before NORMAL.  *)
PartitionError == mode # "idle" /\ FixedAction

(* pok_thread_emit_deadline_missed, called for a delayed event.            *)
DeadlineMissed(t) ==
  /\ disabled /\ mode = "normal" /\ deadline[t] = "armed"
  /\ \/ /\ HandlerSees /\ AddErrorBit(t, "deadline")
        /\ deadline' = [deadline EXCEPT ![t] = "none"]
        /\ UNCHANGED <<state, suspended, priority, delayed, waitResult, entering, eligible,
                       stops, lock, choice, disabled, mode, created, handler, shared, unlinking>>
     \/ /\ deadline' = [deadline EXCEPT ![t] = "none"]
        /\ UNCHANGED <<vars, errorBits, unlinking>>
     \/ FixedAction

(* pok_sched_replenish.                                                    *)
Replenish(t) ==
  /\ SysCall(t) /\ t \in Limited \ {handler} /\ mode = "normal"
  /\ \E d \in {"armed"} \union (IF t \in Periodic THEN {} ELSE {"none"}) :
       deadline' = [deadline EXCEPT ![t] = d]
  /\ UNCHANGED <<state, suspended, priority, delayed, waitResult, entering, eligible, recheck,
                 stops, lock, choice, partition, shared, errorBits, unlinking>>

(* pok_error_get by the error handler, which does not disable preemption:     *)
(* thread_clear_error_bit clears the bit, and then, if it has found no      *)
(* other, takes the thread out of the list.                                *)
FirstBit(t) == IF "sync" \in errorBits[t] THEN "sync" ELSE "deadline"

GetError(t) ==
  /\ ~disabled /\ current = t /\ t = handler /\ errors # <<>> /\ unlinking = None
  /\ LET u == Head(errors) IN
       /\ errorBits' = [errorBits EXCEPT ![u] = @ \ {FirstBit(u)}]
       /\ unlinking' = IF errorBits'[u] = {} THEN u ELSE None
  /\ UNCHANGED <<vars, deadline>>

Unlink(t) ==
  /\ ~disabled /\ current = t /\ t = handler /\ unlinking # None
  /\ errors' = Without(errors, {unlinking}) /\ unlinking' = None
  /\ UNCHANGED <<state, suspended, priority, delayed, waitResult, entering, eligible, recheck,
                 stops, lock, choice, disabled, mode, created, handler, shared, errorBits,
                 deadline>>

(* pok_thread_stop by the error handler, with error_ignore_sync: a          *)
(* synchronous error that it has not read is forgotten.                    *)
Ignored == errors # <<>> /\ "sync" \in errorBits[Head(errors)]

StopHandler(t) ==
  /\ SysCall(t) /\ t = handler
  /\ StopAll({t}, TRUE)
  /\ errorBits' = IF Ignored THEN [errorBits EXCEPT ![Head(errors)] = @ \ {"sync"}]
                  ELSE errorBits
  /\ errors' = IF Ignored /\ errorBits'[Head(errors)] = {} THEN Tail(errors) ELSE errors
  /\ UNCHANGED <<stops, choice, mode, created, handler, shared, deadline, unlinking>>

--------------------------------------------------------------------------------
(* The calls of the running thread that change the threads.  A thread that    *)
(* starts, or waits for its next period, gets a deadline.                  *)
ThreadCalls(t) ==
  /\ ThreadStep(t) /\ Deadlines
  /\ \A u \in Limited : state[u] = "stopped" => state'[u] = "stopped"
  /\ UNCHANGED <<partition, errorBits, unlinking>>

StartLimited(t, u, later) ==
  /\ u \in Limited /\ Start(t, u, later)
  /\ deadline' = [deadline EXCEPT ![u] =
       IF mode # "normal" THEN "none" ELSE IF later THEN "later" ELSE "armed"]
  /\ UNCHANGED <<partition, errorBits, unlinking>>

PeriodicWait(t) ==
  /\ t \in Periodic /\ WaitUntil(t, "wake")
  /\ deadline' = [deadline EXCEPT ![t] = "later"]
  /\ UNCHANGED <<partition, errorBits, unlinking>>

Call(t) ==
  \/ ThreadCalls(t) \/ PeriodicWait(t) \/ SetMode(t) \/ Replenish(t)
  \/ RaiseSync(t) \/ GetError(t) \/ Unlink(t) \/ StopHandler(t)
  \/ \E u \in Threads :
       CreateThread(t, u) \/ \E later \in BOOLEAN : StartLimited(t, u, later)

Kernel ==
  /\ mode # "idle"
  /\ \/ Select
     \/ Interrupt
     \/ \E t \in Threads : Expire(t)
  /\ Deadlines /\ UNCHANGED <<partition, errorBits, unlinking>>

PartitionNext ==
  \/ \E t \in Threads : (unlinking # None => Unlink(t)) /\ Call(t)
  \/ \E t \in Threads : DeadlineMissed(t)
  \/ Kernel \/ PartitionError \/ ModuleReset \/ IdleLoop

PartitionSpec == PartitionInit /\ [][PartitionNext]_partitionVars

(* The code does not exclude, and the properties of the list of errors do not *)
(* survive: a restart of the partition, or a start of a process that has a    *)
(* deadline, before the handler has read the errors;                       *)
ReadBeforeRestart ==
  /\ (\E m \in {"cold", "warm"} : Restart(m)) => \A t \in Threads : errorBits[t] = {}
  /\ \A t \in Limited : errorBits[t] # {} /\ state[t] = "stopped" => state'[t] = "stopped"

(* an event that interrupts pok_error_get.                                 *)
GetUndisturbed == unlinking # None => ~disabled' \/ mode' = "idle"

ErrorsSpec ==
  PartitionInit /\ [][PartitionNext /\ ReadBeforeRestart /\ GetUndisturbed]_partitionVars

--------------------------------------------------------------------------------
(* A synchronous error is only ever the first of the list, as the comment of  *)
(* error_ignore_sync says: the single record of its kind and address        *)
(* (sync_error) is then that of the thread to which the handler ascribes it.  *)
SyncErrorFirst ==
  \A i \in DOMAIN errors : "sync" \in errorBits[errors[i]] => i = 1

(* The list for the handler holds, once each, the threads that have an        *)
(* unread error, so no error is forgotten; and a deadline is armed only        *)
(* when the one before it has been read, or its bit would be set twice.    *)
ErrorsListed ==
  /\ unlinking = None => ToSet(errors) = {t \in Threads : errorBits[t] # {}}
  /\ Cardinality(ToSet(errors)) = Len(errors)
  /\ \A t \in Threads : deadline[t] # "none" => "deadline" \notin errorBits[t]

(* The level at which an error of the running thread is processed depends     *)
(* on a mark of the partition, which is that of the handler exactly while it  *)
(* is selected; and no process runs before it has read or ignored what is   *)
(* listed.                                                                 *)
HandlerFirst ==
  ~disabled /\ mode = "normal" =>
    /\ isErrorHandler = (handler # None /\ selected = handler)
    /\ errors # <<>> => selected = handler

(* Only a process that has been started has an event pending: one that has a  *)
(* delayed event is waiting, one that waits for its release will be woken up, *)
(* and stopped processes are neither woken up nor reported late, whatever    *)
(* stopped them.                                                           *)
EventsOfActive ==
  \A t \in Threads :
    /\ delayed[t] # "none" => state[t] = "waiting"
    /\ delayed[t] = "resume" => suspended[t]
    /\ deadline[t] # "none" => state[t] # "stopped"
    /\ deadline[t] = "later" => delayed[t] = "wake"
================================================================================
