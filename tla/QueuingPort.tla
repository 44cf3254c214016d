------------------------------- MODULE QueuingPort -------------------------------
(***************************************************************************)
(* Processes at the two ports of a queuing channel: kernel/core/port.c, the *)
(* wait queues of kernel/core/thread.c and port_queuing_fired of            *)
(* kernel/core/sched_arinc.c.                                              *)
(*                                                                         *)
(* The channel takes the steps of QueuingChannel; this module says which    *)
(* process they are taken for, and who waits.  A process runs a port        *)
(* operation with the preemption inside its partition disabled, so that     *)
(* there is one operation at a time on each side.                          *)
(***************************************************************************)
EXTENDS QueuingChannel, FiniteSets, SequencesExt

CONSTANTS Receivers, Senders, \* the processes of each partition
          NoProcess,
          Priorities,         \* priorities of processes, from 1
          ClearWhileWaiting   \* may a port be cleared when processes wait?

ASSUME PortAssumption ==
  /\ Receivers \intersect Senders = {}
  /\ NoProcess \notin Receivers \union Senders
  /\ Priorities \subseteq Nat \ {0}
  /\ ClearWhileWaiting \in BOOLEAN

VARIABLES byPriority, \* the queuing discipline of the ports; Init chooses it
          waiters,    \* wait queue of each port: processes with wait_priority
          serving,    \* the process of the operation in progress
          arrivals    \* history: who waits, in order of arrival

portVars == <<byPriority, waiters, serving, arrivals>>
allVars == <<vars, portVars>>

--------------------------------------------------------------------------------
Processes(side) == IF side = "recv" THEN Receivers ELSE Senders
Waiting(side) == {waiters[side][i].process : i \in DOMAIN waiters[side]}
Waits == [process : Receivers \union Senders, priority : Priorities \union {0}]

PortTypeOK ==
  /\ byPriority \in BOOLEAN
  /\ \A side \in Sides :
       /\ waiters[side] \in Seq(Waits)
       /\ Waiting(side) \subseteq Processes(side)
       /\ Cardinality(Waiting(side)) = Len(waiters[side])
       /\ serving[side] \in (Processes(side) \ Waiting(side)) \union {NoProcess}
       /\ ToSet(arrivals[side]) = Waiting(side)

PortInit ==
  /\ Init
  /\ byPriority \in BOOLEAN
  /\ waiters = [side \in Sides |-> <<>>]
  /\ serving = [side \in Sides |-> NoProcess]
  /\ arrivals = [side \in Sides |-> <<>>]

(* pok_thread_wq_add_common: the FIFO discipline, or behind every process   *)
(* of the same or a higher priority.                                       *)
AheadIfHigher(w, queue) ==         \* mutant: in front of those of its priority
  {i \in DOMAIN queue : queue[i].priority > w.priority}

Ahead(w, queue) == {i \in DOMAIN queue : queue[i].priority >= w.priority}

WqAdd(side, w) ==
  /\ waiters' = [waiters EXCEPT ![side] =
       IF byPriority THEN InsertAt(@, Cardinality(Ahead(w, @)) + 1, w)
       ELSE Append(@, w)]
  /\ arrivals' = [arrivals EXCEPT ![side] = Append(@, w.process)]
  /\ UNCHANGED <<byPriority, serving>>

(* A process leaves the queue: it is served, its time is out, or it stops. *)
WqRemove(side, p) ==
  /\ \E i \in DOMAIN waiters[side] :
       /\ waiters[side][i].process = p
       /\ waiters' = [waiters EXCEPT ![side] = RemoveAt(@, i)]
  /\ \E i \in DOMAIN arrivals[side] :
       /\ arrivals[side][i] = p
       /\ arrivals' = [arrivals EXCEPT ![side] = RemoveAt(@, i)]

Serve(side, p) == serving' = [serving EXCEPT ![side] = p] /\ UNCHANGED byPriority

(* The channel's function that looks for a message, or for a slot.         *)
Get(side, subscribe) ==
  IF side = "recv" THEN RecvGet(subscribe) ELSE SendGet(subscribe)

(* A process that may wait, with the priority it has when it calls, which   *)
(* only the discipline by priority records.                                *)
MayWait(side, w) ==
  /\ w.process \in Processes(side) \ Waiting(side)
  /\ byPriority <=> w.priority # 0

--------------------------------------------------------------------------------
(* pok_port_queuing_receive and pok_port_queuing_send when no process waits *)
(* at the port: the process is served, or it waits if its timeout and the   *)
(* state of its partition allow it ("subscribe"), or the call fails.       *)
Call(side, w, subscribe) ==
  /\ pc[side] = "idle" /\ waiters[side] = <<>>
  /\ MayWait(side, w)
  /\ Get(side, subscribe)
  /\ IF pc'[side] = "got" THEN Serve(side, w.process) /\ UNCHANGED <<waiters, arrivals>>
     ELSE IF subscribe THEN WqAdd(side, w)
     ELSE UNCHANGED portVars

(* The same when processes wait already: the channel is not asked.         *)
CallQueues(side, w) ==
  /\ waiters[side] # <<>>
  /\ MayWait(side, w)
  /\ OtherCall(side)
  /\ WqAdd(side, w)

(* A call that fails, or that only reads the state of the port.            *)
CallReturns(side) == OtherCall(side) /\ UNCHANGED portVars

(* pok_thread_stop of a process that waits at the port, by another one.    *)
Stop(side, p) ==
  /\ p \in Waiting(side)
  /\ OtherCall(side)
  /\ WqRemove(side, p)
  /\ UNCHANGED <<byPriority, serving>>

(* The time of a waiting process is out: delayed_event_queue_check runs     *)
(* thread_wake_up among the events of the partition.  It may always happen  *)
(* and never has to: a process may wait with a time limit or without one.  *)
Timeout(side, p) ==
  /\ pc[side] \in {"idle", "enable"}
  /\ p \in Waiting(side)
  /\ WqRemove(side, p)
  /\ UNCHANGED <<vars, byPriority, serving>>

--------------------------------------------------------------------------------

(* port_queuing_fired: the first process waiting is served if the channel   *)
(* has something for it.                                                   *)
Fired(side) ==
  /\ pc[side] = "loop" /\ waiters[side] # <<>>
  /\ Get(side, TRUE)
  /\ LET first == Head(waiters[side]).process IN
     IF pc'[side] = "got" THEN Serve(side, first) /\ WqRemove(side, first)
     ELSE UNCHANGED portVars

FiredIdle(side) ==
  /\ waiters[side] = <<>>
  /\ NobodyWaits(side)
  /\ UNCHANGED portVars

(* port_queuing_receive and port_queuing_send, for the process served.     *)
Copies(side) ==
  /\ IF side = "recv" THEN RecvCopy ELSE \E m \in Messages : SendCopy(m)
  /\ UNCHANGED portVars

Completes(side) ==
  /\ IF side = "recv" THEN RecvConsume ELSE SendProduce
  /\ serving' = [serving EXCEPT ![side] = NoProcess]
  /\ UNCHANGED <<byPriority, waiters, arrivals>>

Enable(side) == LocalEnable(side) /\ UNCHANGED portVars

(* The port is created in a partition that has just (re)started, and where  *)
(* nobody waits; the port of the receiver is cleared.                      *)
PortCreate(side) == Create(side) /\ UNCHANGED portVars

PortClear ==
  /\ ClearWhileWaiting \/ waiters["recv"] = <<>>
  /\ Clear
  /\ UNCHANGED portVars

(* The partition restarts: pok_port_queuing_init.                          *)
PortRestart(side) ==
  /\ Restart(side)
  /\ waiters' = [waiters EXCEPT ![side] = <<>>]
  /\ arrivals' = [arrivals EXCEPT ![side] = <<>>]
  /\ serving' = [serving EXCEPT ![side] = NoProcess]
  /\ UNCHANGED byPriority

(* The steps that a partition takes by itself, in its windows of time.     *)
Kernel(side) ==
  Enable(side) \/ Fired(side) \/ FiredIdle(side) \/ Copies(side) \/ Completes(side)

PortNext ==
  \E side \in Sides :
    \/ \E w \in Waits : \/ CallQueues(side, w)
                        \/ \E subscribe \in BOOLEAN : Call(side, w, subscribe)
    \/ CallReturns(side)
    \/ \E p \in Processes(side) : Stop(side, p) \/ Timeout(side, p)
    \/ Kernel(side)
    \/ PortCreate(side) \/ PortRestart(side)
    \/ side = "recv" /\ PortClear

PortSpec == PortInit /\ [][PortNext]_allVars

(* The schedule of the module gives each partition a window in every major  *)
(* frame, and a system call once begun runs to its end.                    *)
FairPortSpec == PortSpec /\ \A side \in Sides : WF_allVars(Kernel(side))
--------------------------------------------------------------------------------
(* While processes wait, their partition is subscribed, or has an event to *)
(* handle, or is handling one: "if 'subscribe' is non-zero, receiver        *)
(* partition will be notified when new message will be available"           *)
(* (channel.h).  The calls that find processes waiting rely on it.         *)
WaitersSubscribed ==
  \A side \in Sides :
    waiters[side] # <<>> => isNotify[side] \/ events[side] > 0 \/ fired[side]

(* A process that is served while others wait is the first of those of the  *)
(* highest priority to have come, or just the first to have come.          *)
Precedes(side, p, q) ==
  \E i, j \in DOMAIN arrivals[side] :
    i < j /\ arrivals[side][i] = p /\ arrivals[side][j] = q

PriorityOf(side, p) ==
  (CHOOSE w \in ToSet(waiters[side]) : w.process = p).priority

ServedInOrder ==
  [][\A side \in Sides :
       LET p == serving'[side] IN
       p # NoProcess /\ serving[side] = NoProcess /\ waiters[side] # <<>> =>
         /\ p \in Waiting(side)
         /\ \A q \in Waiting(side) \ {p} :
              IF byPriority /\ PriorityOf(side, p) # PriorityOf(side, q)
              THEN PriorityOf(side, p) > PriorityOf(side, q)
              ELSE Precedes(side, p, q)]_allVars


(* A process does not wait forever beside a message, or a slot, that it     *)
(* could have.                                                             *)
Available(side) == IF side = "recv" THEN RecvCount > 0 ELSE SendHasRoom

NobodyWaitsInVain ==
  \A side \in Sides :
    waiters[side] # <<>> /\ Available(side) ~>
      waiters[side] = <<>> \/ ~Available(side)
================================================================================
