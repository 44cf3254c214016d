----------------------------- MODULE PartitionEvents -----------------------------
(***************************************************************************)
(* How a partition is told of what happens while it is preempted: the event *)
(* ring and the timer of kernel/core/partition.c, the windows of the module *)
(* scheduler (kernel/core/sched.c), and the scheduler of the partition that *)
(* takes the events out (kernel/core/sched_arinc.c).                       *)
(*                                                                         *)
(* There is one processor.  The partition's code can be interrupted between *)
(* any two accesses to what it shares with the module scheduler, and each   *)
(* access is a step; what runs with preemption disabled is one step.       *)
(***************************************************************************)
EXTENDS Integers, FiniteSets

CONSTANTS Ports,      \* queuing ports of the partition
          Delayed,    \* delayed events: timeouts, deadlines, releases of processes
          TimerEvent, \* JET_PARTITION_EVENT_TYPE_TIMER
          MaxWaiting, \* bound on the processes that wait at a port
          MaxTime     \* bound on the system time

ASSUME EventsAssumption ==
  /\ IsFiniteSet(Ports)
  /\ IsFiniteSet(Delayed)
  /\ TimerEvent \notin Ports
  /\ MaxWaiting \in Nat
  /\ MaxTime \in Nat

VARIABLES ring,          \* partition_events
          begin, end,    \* partition_event_begin, partition_event_end
          isEvent,       \* is_event
          localDisabled, \* preempt_local_disabled
          timer,         \* the time of the next timer event, or 0
          delayed,       \* the queue of delayed events: their times, or 0
          waiting,       \* how many processes wait at each port
          subscribed,    \* ports of which the partition will get an event
          now,           \* system time
          away,          \* the partition is interrupted, or out of its window
          pc,            \* where its code is
          taken          \* the event get_event returned

shared == <<ring, begin, end, isEvent, timer>>
port == <<waiting, subscribed>>
vars == <<shared, localDisabled, delayed, port, now, away, pc, taken>>

--------------------------------------------------------------------------------
EventMaxOneTimer == Cardinality(Ports) + 1   \* mutant: one slot for the timer
EventMax == Cardinality(Ports) + 2           \* "There are 2 slots for timer events"

Events == Ports \union {TimerEvent}
Times == 0 .. MaxTime
Points == {"user", "kernel", "test", "clear", "drain", "take", "handle", "timer",
           "compare", "switch", "reset", "recheck", "again", "loop"}

TypeOK ==
  /\ ring \in [0 .. EventMax -> Events]
  /\ begin \in 0 .. EventMax
  /\ end \in 0 .. EventMax
  /\ isEvent \in BOOLEAN
  /\ localDisabled \in BOOLEAN
  /\ timer \in Times
  /\ delayed \in [Delayed -> Times]
  /\ waiting \in [Ports -> 0 .. MaxWaiting]
  /\ subscribed \subseteq Ports
  /\ now \in Times
  /\ away \in BOOLEAN
  /\ pc \in Points
  /\ taken \in Events

(* start_partition: the partition starts with its preemption disabled.  Its *)
(* timer is zero in memory before the first start.                         *)
Init ==
  /\ ring = [i \in 0 .. EventMax |-> TimerEvent]
  /\ begin = 0 /\ end = 0
  /\ isEvent = FALSE
  /\ localDisabled = TRUE
  /\ timer = 0
  /\ delayed = [e \in Delayed |-> 0]
  /\ waiting = [p \in Ports |-> 0]
  /\ subscribed = {}
  /\ now = 0
  /\ away = FALSE
  /\ pc = "loop"
  /\ taken = TimerEvent

(* Position after pos in the ring.                                         *)
Advance(pos) == IF pos = EventMax THEN 0 ELSE pos + 1

Pending == {ring[i] : i \in {j \in 0 .. EventMax :
                               IF begin <= end THEN begin <= j /\ j < end
                               ELSE begin <= j \/ j < end}}

AddEventNoFlag(e) ==                         \* mutant: told only when it listens
  /\ ring' = [ring EXCEPT ![end] = e]
  /\ end' = Advance(end)
  /\ isEvent' = (isEvent \/ (end = begin /\ ~localDisabled))
  /\ UNCHANGED begin

(* pok_partition_add_event: an event that comes in an empty ring is told.  *)
AddEvent(e) ==
  /\ ring' = [ring EXCEPT ![end] = e]
  /\ end' = Advance(end)
  /\ isEvent' = (isEvent \/ end = begin)
  /\ UNCHANGED begin

--------------------------------------------------------------------------------
(* An interrupt comes: a tick of the clock, which may end the window of the *)
(* partition.                                                              *)
Preempt ==
  /\ ~away
  /\ away' = TRUE
  /\ UNCHANGED <<shared, localDisabled, delayed, port, now, pc, taken>>

Tick ==
  /\ away
  /\ now < MaxTime
  /\ now' = now + 1
  /\ UNCHANGED <<shared, localDisabled, delayed, port, away, pc, taken>>

(* Another partition sends to a port of this one, or receives from it: a    *)
(* subscription gives one event (channel_queuing_side_notify).             *)
PortEvent(p) ==
  /\ away
  /\ p \in subscribed
  /\ subscribed' = subscribed \ {p}
  /\ AddEvent(p)
  /\ UNCHANGED <<timer, localDisabled, delayed, waiting, now, away, pc, taken>>

TimerExpired == timer # 0 /\ timer <= now

(* pok_sched and pok_sched_on_time_changed return to the partition: its     *)
(* timer may have expired, and if the partition can be notified it is, on   *)
(* top of the code that was interrupted.                                   *)
Return ==
  /\ away
  /\ away' = FALSE
  /\ IF TimerExpired THEN AddEvent(TimerEvent) /\ timer' = 0 ELSE UNCHANGED shared
  /\ IF ~localDisabled /\ isEvent'
     THEN localDisabled' = TRUE /\ pc' = "test"
     ELSE UNCHANGED <<localDisabled, pc>>
  /\ UNCHANGED <<delayed, port, now, taken>>

(* pok_partition_restart by the partition itself, or pok_partition_reset    *)
(* with the whole module, then start_partition: the timer stays as it was. *)
Restart ==
  /\ away \/ pc = "kernel"
  /\ begin' = 0 /\ end' = 0
  /\ isEvent' = FALSE
  /\ localDisabled' = TRUE
  /\ delayed' = [e \in Delayed |-> 0]
  /\ waiting' = [p \in Ports |-> 0]
  /\ subscribed' = {}
  /\ away' = FALSE
  /\ pc' = "loop"
  /\ UNCHANGED <<ring, timer, now, taken>>

--------------------------------------------------------------------------------
Step(from, to) == ~away /\ pc = from /\ pc' = to /\ UNCHANGED away

(* A system call, from pok_preemption_local_disable on.                    *)
SystemCall ==
  /\ Step("user", "kernel")
  /\ localDisabled' = TRUE
  /\ UNCHANGED <<shared, delayed, port, now, taken>>

(* delayed_event_add, at a time that may already be over, and              *)
(* delayed_event_remove, which is the same with 0.                         *)
Delay(e, t) ==
  /\ Step("kernel", "kernel")
  /\ delayed' = [delayed EXCEPT ![e] = t]
  /\ UNCHANGED <<shared, localDisabled, port, now, taken>>

(* A process waits at a port.  The first one has found the channel empty,   *)
(* or full: then there is no event of the port in the ring (EventsFitRing  *)
(* and SubscriptionsKept of QueuingChannel), and it subscribes.            *)
Wait(p) ==
  /\ Step("kernel", "kernel")
  /\ waiting[p] < MaxWaiting
  /\ waiting' = [waiting EXCEPT ![p] = @ + 1]
  /\ IF waiting[p] # 0 THEN UNCHANGED subscribed
     ELSE p \notin Pending /\ subscribed' = subscribed \union {p}
  /\ UNCHANGED <<shared, localDisabled, delayed, now, taken>>

(* pok_preemption_local_enable calls sched_arinc.                          *)
LocalEnable ==
  /\ Step("kernel", "test")
  /\ UNCHANGED <<shared, localDisabled, delayed, port, now, taken>>

--------------------------------------------------------------------------------
(* sched_arinc.  flag_test_and_reset(is_event) is a read and a write.      *)
TestFlag ==
  /\ \/ isEvent /\ Step("test", "clear")
     \/ ~isEvent /\ Step("test", "timer")
  /\ UNCHANGED <<shared, localDisabled, delayed, port, now, taken>>

ClearFlag ==
  /\ Step("clear", "drain")
  /\ isEvent' = FALSE
  /\ UNCHANGED <<ring, begin, end, timer, localDisabled, delayed, port, now, taken>>

(* pok_partition_get_event reads begin and end,                            *)
Drain ==
  /\ \/ begin = end /\ Step("drain", "timer")
     \/ begin # end /\ Step("drain", "take")
  /\ UNCHANGED <<taken, shared>>
  /\ UNCHANGED <<localDisabled, delayed, port, now>>

(* then the event, which is not written again before it moves begin.       *)
Take ==
  /\ Step("take", "handle")
  /\ taken' = ring[begin]
  /\ begin' = Advance(begin)
  /\ UNCHANGED <<ring, end, isEvent, timer, localDisabled, delayed, port, now>>

(* delayed_event_queue_check: the events whose time has come leave the      *)
(* queue; what they do may put them back for a later time.                 *)
Check ==
  delayed' \in {d \in [Delayed -> Times] :
    \A e \in Delayed : IF delayed[e] \in 1 .. now THEN d[e] \notin 1 .. now
                       ELSE d[e] = delayed[e]}

(* A timer event checks the delayed events; port_queuing_fired serves at     *)
(* least one of the processes that wait, and subscribes for those left.    *)
Fired(p) ==
  /\ \E left \in 0 .. MaxWaiting :
       /\ left < waiting[p] \/ left = 0
       /\ waiting' = [waiting EXCEPT ![p] = left]
  /\ subscribed' = IF waiting'[p] = 0 THEN subscribed ELSE subscribed \union {p}

HandleOnce ==                                \* mutant: "if" instead of "while"
  /\ Step("handle", "timer")
  /\ IF taken = TimerEvent THEN Check /\ UNCHANGED port
     ELSE Fired(taken) /\ UNCHANGED delayed
  /\ UNCHANGED <<shared, localDisabled, now, taken>>

Handle ==
  /\ Step("handle", "drain")
  /\ IF taken = TimerEvent THEN Check /\ UNCHANGED port
     ELSE Fired(taken) /\ UNCHANGED delayed
  /\ UNCHANGED <<shared, localDisabled, now, taken>>

(* t is the result of delayed_event_queue_get_check_time.                  *)
IsCheckTime(t) ==
  LET times == {delayed[e] : e \in Delayed} \ {0} IN
  IF times = {} THEN t = 0 ELSE t \in times /\ \A u \in times : t <= u

SetTimer ==
  /\ \E t \in Times : IsCheckTime(t) /\ timer' = t
  /\ IF timer' = 0 THEN Step("timer", "switch") ELSE Step("timer", "compare")
  /\ UNCHANGED <<ring, begin, end, isEvent, localDisabled, delayed, port, now, taken>>

SomeExpired == \E e \in Delayed : delayed[e] \in 1 .. now

CompareOnce ==                               \* mutant: the timer not set again
  /\ \/ SomeExpired /\ Step("compare", "switch") /\ Check
     \/ ~SomeExpired /\ Step("compare", "switch") /\ UNCHANGED delayed
  /\ UNCHANGED <<shared, localDisabled, port, now, taken>>

(* "Check wether timer is not expired before we set it."                    *)
Compare ==
  /\ \/ SomeExpired /\ Step("compare", "test") /\ Check
     \/ ~SomeExpired /\ Step("compare", "switch") /\ UNCHANGED delayed
  /\ UNCHANGED <<shared, localDisabled, port, now, taken>>

(* The rest of sched_arinc may switch to another process of the partition,  *)
(* which left this function, or starts: it goes on in its own               *)
(* pok_preemption_local_enable, or in its own handling of an event.        *)
Switch ==
  /\ Step("switch", "reset") \/ Step("switch", "loop")
  /\ UNCHANGED <<shared, localDisabled, delayed, port, now, taken>>

--------------------------------------------------------------------------------
(* The end of pok_preemption_local_enable: "Check that we do not miss       *)
(* events since sched_arinc() starts."                                     *)
Reset ==
  /\ Step("reset", "recheck")
  /\ localDisabled' = FALSE
  /\ UNCHANGED <<shared, delayed, port, now, taken>>

RecheckSkipped ==                            \* mutant: no second look
  /\ Step("recheck", "user")
  /\ UNCHANGED <<shared, localDisabled, delayed, port, now, taken>>

Recheck ==
  /\ \/ isEvent /\ Step("recheck", "again")
     \/ ~isEvent /\ Step("recheck", "user")
  /\ UNCHANGED <<shared, localDisabled, delayed, port, now, taken>>

Again ==
  /\ Step("again", "test")
  /\ localDisabled' = TRUE
  /\ UNCHANGED <<shared, delayed, port, now, taken>>

(* The end of the loops of pok_sched_on_time_changed, pok_preemption_enable *)
(* and pok_partition_return_user_common, with preemption disabled: the code *)
(* of the process that was interrupted goes on, where it may be.            *)
Loop ==
  /\ \/ isEvent /\ Step("loop", "test") /\ UNCHANGED localDisabled
     \/ /\ ~isEvent /\ localDisabled' = FALSE
        /\ \E to \in {"user", "recheck", "again"} : Step("loop", to)
  /\ UNCHANGED <<shared, delayed, port, now, taken>>

--------------------------------------------------------------------------------
Scheduler ==
  \/ TestFlag \/ ClearFlag \/ Drain \/ Take \/ Handle \/ SetTimer \/ Compare
  \/ Switch \/ Reset \/ Recheck \/ Again \/ Loop

Next ==
  \/ Preempt \/ Tick \/ Return \/ Restart
  \/ \E p \in Ports : PortEvent(p) \/ Wait(p)
  \/ SystemCall \/ LocalEnable
  \/ \E e \in Delayed, t \in Times : Delay(e, t)
  \/ Scheduler

Spec == Init /\ [][Next]_vars

(* The clock interrupts the partition, the schedule of the module gives the *)
(* processor back to it, a system call comes to its end, and windows are    *)
(* long enough for the code that runs in them to progress.                 *)
FairSpec ==
  /\ Spec
  /\ WF_vars(Preempt) /\ WF_vars(Return)
  /\ SF_vars(LocalEnable) /\ SF_vars(Scheduler)
--------------------------------------------------------------------------------
(* No event is forgotten: while there are events in the ring, the partition *)
(* is told of them or is taking them out, although it resets is_event       *)
(* before it has taken the last one and events come at any moment.         *)
NoEventForgotten ==
  begin # end => isEvent \/ pc \in {"clear", "drain", "take", "handle"}

(* The assertion of pok_partition_add_event: the ring, which has a place    *)
(* for each port and two for the timer, has one for every event that may    *)
(* still come before the partition takes some out.                         *)
RingCount == IF begin <= end THEN end - begin ELSE end - begin + EventMax + 1

RingHasRoom ==
  RingCount + Cardinality(subscribed) + (IF timer # 0 THEN 1 ELSE 0) <= EventMax

(* No code of a process runs while an event waits to be handled.           *)
HandledBeforeUser == pc = "user" /\ ~away => begin = end

(* Whenever the partition leaves its scheduler, its timer is set for the    *)
(* first delayed event, or has fired.                                      *)
TimerCovers ==
  pc \in {"user", "recheck", "again"} =>
    IsCheckTime(0) \/ IsCheckTime(timer) \/ TimerEvent \in Pending

(* A delayed event is processed some time after its time has come, however  *)
(* the clock, the timer and the partition interleave.                      *)
DelayedHandled ==
  \A e \in Delayed : \A t \in 1 .. MaxTime :
    (delayed[e] = t /\ t <= now) ~> (delayed[e] # t)
================================================================================
