----------------------------- MODULE QueuingChannel -----------------------------
(***************************************************************************)
(* The queuing channel between two partitions: kernel/core/channel.c with   *)
(* the reception and emission sequences of kernel/core/port.c that use it.  *)
(*                                                                         *)
(* Every function of channel.c runs with preemption disabled and is one     *)
(* step.  port.c strings them together (get, copy, consume or produce) with *)
(* only the preemption inside the partition disabled: the other partition   *)
(* runs between any two of these steps, and either partition may restart.   *)
(***************************************************************************)
EXTENDS Integers, Sequences

CONSTANTS RecvMax,       \* recv.max_nb_message
          SendMax,       \* send.max_nb_message
          Messages,      \* message contents
          NoMessage,     \* content of a slot never written
          MaxGeneration  \* bound on partition_generation, a uint32_t in the code

ASSUME ChannelAssumption ==
  /\ RecvMax \in Nat \ {0}
  /\ SendMax \in Nat \ {0}
  /\ NoMessage \notin Messages
  /\ MaxGeneration \in Nat \ {0}

(* Two parameters of a channel that Init chooses and no step changes, so    *)
(* that one run of TLC covers every case.                                  *)
VARIABLES discard,    \* overflow_strategy is RECEIVER_DISCARD, not SENDER_BLOCK
          recvReinit  \* the receiver's partition may restart or clear its port

VARIABLES border,     \* between the receiver's messages and the sender's
          next,       \* next_message of each side
          generation, \* generation of each side, when it was initialised
          isNotify,   \* is_notify of each side
          discarded,  \* message_discarded
          slots,      \* the array of messages
          partGen,    \* partition_generation of the partition of each side
          events,     \* port events queued for the partition of each side
          pc,         \* progress of the port operations of each side
          fired,      \* the operation is one of port_queuing_fired
          copy,       \* the user's buffer on each side
          received    \* what the last completed reception returned

params  == <<discard, recvReinit>>
struct  == <<border, next, generation, isNotify, discarded>>
ports   == <<pc, fired, copy, received>>
vars == <<params, struct, slots, partGen, events, ports>>

--------------------------------------------------------------------------------
Sides == {"recv", "send"}
Total == RecvMax + SendMax          \* max_nb_message of the channel
Positions == 0 .. Total - 1

CyclicAdd(pos, index) ==
  IF pos + index >= Total THEN pos + index - Total ELSE pos + index

CyclicSub(end, start) ==
  IF end >= start THEN end - start ELSE end + Total - start

RecvCount == CyclicSub(border, next["recv"])     \* r_n_messages
SendCount == CyclicSub(next["send"], border)     \* s_n_messages

(* Room on each side, and whether a message is waiting on the sender side   *)
(* that the reception of another one lets through.                         *)
RecvHasRoom == RecvCount < RecvMax
SendHasRoomOffByOne == SendCount <= SendMax      \* mutant
SendHasRoom == SendCount < SendMax

(* The port of this side was created since its partition (re)started.      *)
Ready(side) == generation[side] = partGen[side]

MessagePassesEmpty == Ready("send")              \* mutant: no emptiness test
MessagePasses == Ready("send") /\ border # next["send"]

TypeOK ==
  /\ discard \in BOOLEAN
  /\ recvReinit \in BOOLEAN
  /\ border \in Positions
  /\ next \in [Sides -> Positions]
  /\ generation \in [Sides -> 0 .. MaxGeneration]
  /\ isNotify \in [Sides -> BOOLEAN]
  /\ discarded \in BOOLEAN
  /\ slots \in [Positions -> Messages \union {NoMessage}]
  /\ partGen \in [Sides -> 1 .. MaxGeneration]
  /\ events \in [Sides -> Nat]
  /\ pc \in [Sides -> {"idle", "loop", "got", "copied", "enable"}]
  /\ fired \in [Sides -> BOOLEAN]
  /\ copy \in [Sides -> Messages \union {NoMessage}]
  /\ received \in [message : Messages \union {NoMessage}, lost : BOOLEAN]

(* pok_channel_queuing_init at boot; partition_generation becomes 1 when   *)
(* the scheduler starts.                                                   *)
Init ==
  /\ discard \in BOOLEAN
  /\ recvReinit \in BOOLEAN
  /\ border = 0
  /\ next = [side \in Sides |-> 0]
  /\ generation = [side \in Sides |-> 0]
  /\ isNotify = [side \in Sides |-> FALSE]
  /\ discarded = FALSE
  /\ slots = [pos \in Positions |-> NoMessage]
  /\ partGen = [side \in Sides |-> 1]
  /\ events = [side \in Sides |-> 0]
  /\ pc = [side \in Sides |-> "idle"]
  /\ fired = [side \in Sides |-> FALSE]
  /\ copy = [side \in Sides |-> NoMessage]
  /\ received = [message |-> NoMessage, lost |-> FALSE]

SideNotifyAlways(side) ==                        \* mutant: is_notify not tested
  /\ isNotify' = [isNotify EXCEPT ![side] = FALSE]
  /\ events' = [events EXCEPT ![side] = @ + 1]

(* channel_queuing_side_notify: a subscribed side gets one event.          *)
SideNotify(side) ==
  /\ isNotify' = [isNotify EXCEPT ![side] = FALSE]
  /\ events' = [events EXCEPT ![side] = IF isNotify[side] THEN @ + 1 ELSE @]

--------------------------------------------------------------------------------
SideInitKeepsNotify(side) ==                     \* mutant: is_notify not reset
  /\ next' = [next EXCEPT ![side] = border]
  /\ generation' = [generation EXCEPT ![side] = partGen[side]]
  /\ UNCHANGED <<border, discarded, isNotify>>

(* pok_channel_queuing_side_init.                                          *)
SideInit(side) ==
  /\ next' = [next EXCEPT ![side] = border]
  /\ isNotify' = [isNotify EXCEPT ![side] = FALSE]
  /\ generation' = [generation EXCEPT ![side] = partGen[side]]
  /\ UNCHANGED <<border, discarded>>

(* pok_port_queuing_create: once in each generation of the partition.      *)
Create(side) ==
  /\ pc[side] = "idle" /\ ~Ready(side)
  /\ SideInit(side)
  /\ UNCHANGED <<params, slots, partGen, events, ports>>

(* pok_port_queuing_clear, for receiving ports only.                       *)
Clear ==
  /\ recvReinit
  /\ pc["recv"] = "idle" /\ Ready("recv")
  /\ SideInit("recv")
  /\ pc' = [pc EXCEPT !["recv"] = "enable"]
  /\ UNCHANGED <<params, slots, partGen, events, fired, copy,
                 received>>

(* The partition of a side restarts, in the middle of a port operation or  *)
(* not: a new generation, and its event ring is emptied.                   *)
Restart(side) ==
  /\ side = "recv" => recvReinit
  /\ partGen[side] < MaxGeneration
  /\ partGen' = [partGen EXCEPT ![side] = @ + 1]
  /\ events' = [events EXCEPT ![side] = 0]
  /\ pc' = [pc EXCEPT ![side] = "idle"]
  /\ fired' = [fired EXCEPT ![side] = FALSE]
  /\ copy' = [copy EXCEPT ![side] = NoMessage]
  /\ UNCHANGED <<params, struct, slots, received>>

--------------------------------------------------------------------------------
(* The end of a port operation (pok_preemption_local_enable) and the        *)
(* return of the processor to a partition that has events (on_event): the   *)
(* events are taken out of the ring and port_queuing_fired runs for them,   *)
(* until the ring is found empty.                                          *)
LocalEnable(side) ==
  /\ \/ pc[side] = "enable"
     \/ pc[side] = "idle" /\ events[side] > 0
  /\ events' = [events EXCEPT ![side] = 0]
  /\ pc' = [pc EXCEPT ![side] = IF events[side] > 0 THEN "loop" ELSE "idle"]
  /\ fired' = [fired EXCEPT ![side] = events[side] > 0]
  /\ UNCHANGED <<params, struct, slots, partGen, copy, received>>

(* A system call that asks the channel for nothing: the status of the port, *)
(* or a call that finds other processes waiting at the port.               *)
OtherCall(side) ==
  /\ pc[side] = "idle" /\ Ready(side)
  /\ pc' = [pc EXCEPT ![side] = "enable"]
  /\ UNCHANGED <<params, struct, slots, partGen, events, fired, copy, received>>

(* port_queuing_fired finds no process waiting at the port.                *)
NobodyWaits(side) ==
  /\ pc[side] = "loop"
  /\ pc' = [pc EXCEPT ![side] = "enable"]
  /\ fired' = [fired EXCEPT ![side] = FALSE]
  /\ UNCHANGED <<params, struct, slots, partGen, events, copy, received>>

(* An operation may ask the channel for a message or a slot: in a port      *)
(* operation, or in port_queuing_fired, which always subscribes.           *)
MayGet(side, subscribe) ==
  /\ Ready(side)
  /\ \/ pc[side] = "idle"
     \/ pc[side] = "loop" /\ subscribe

(* Where the operation goes on when the channel has something, or nothing. *)
Granted(side) ==
  /\ pc' = [pc EXCEPT ![side] = "got"]
  /\ UNCHANGED <<isNotify, fired>>

DeniedUnsubscribed(side, subscribe) ==           \* mutant: no subscription
  /\ pc' = [pc EXCEPT ![side] = "enable"]
  /\ fired' = [fired EXCEPT ![side] = FALSE]
  /\ UNCHANGED isNotify

Denied(side, subscribe) ==
  /\ isNotify' = [isNotify EXCEPT ![side] = @ \/ subscribe]
  /\ pc' = [pc EXCEPT ![side] = "enable"]
  /\ fired' = [fired EXCEPT ![side] = FALSE]

DoneServesOne(side) ==                           \* mutant: one waiter an event
  /\ copy' = [copy EXCEPT ![side] = NoMessage]
  /\ pc' = [pc EXCEPT ![side] = "enable"]
  /\ fired' = [fired EXCEPT ![side] = FALSE]

(* The operation is over: port_queuing_fired goes on with the next waiter. *)
Done(side) ==
  /\ copy' = [copy EXCEPT ![side] = NoMessage]
  /\ pc' = [pc EXCEPT ![side] = IF fired[side] THEN "loop" ELSE "enable"]
  /\ UNCHANGED fired

--------------------------------------------------------------------------------
(* pok_channel_queuing_r_get_message.                                      *)
RecvGet(subscribe) ==
  /\ MayGet("recv", subscribe)
  /\ IF next["recv"] # border THEN Granted("recv")
     ELSE Denied("recv", subscribe)
  /\ UNCHANGED <<params, border, next, generation, discarded, slots, partGen, events,
                 copy, received>>

(* The memcpy of port_queuing_receive.                                     *)
RecvCopy ==
  /\ pc["recv"] = "got"
  /\ copy' = [copy EXCEPT !["recv"] = slots[next["recv"]]]
  /\ pc' = [pc EXCEPT !["recv"] = "copied"]
  /\ UNCHANGED <<params, struct, slots, partGen, events, fired, received>>

(* pok_channel_queuing_r_consume_message, and the results of the reception.*)
RecvConsume ==
  /\ pc["recv"] = "copied"
  /\ next' = [next EXCEPT !["recv"] = CyclicAdd(@, 1)]
  /\ IF MessagePasses
     THEN /\ border' = CyclicAdd(border, 1)
          /\ SideNotify("send")
     ELSE UNCHANGED <<border, isNotify, events>>
  /\ received' = [message |-> copy["recv"], lost |-> discarded]
  /\ discarded' = FALSE
  /\ Done("recv")
  /\ UNCHANGED <<params, generation, slots, partGen>>

--------------------------------------------------------------------------------
(* pok_channel_queuing_s_get_message.                                      *)
SendGet(subscribe) ==
  /\ MayGet("send", subscribe)
  /\ IF SendHasRoom THEN Granted("send")
     ELSE Denied("send", subscribe)
  /\ UNCHANGED <<params, border, next, generation, discarded, slots, partGen, events,
                 copy, received>>

(* The memcpy of port_queuing_send into the slot the channel returned.     *)
SendCopy(m) ==
  /\ pc["send"] = "got"
  /\ slots' = [slots EXCEPT ![next["send"]] = m]
  /\ copy' = [copy EXCEPT !["send"] = m]
  /\ pc' = [pc EXCEPT !["send"] = "copied"]
  /\ UNCHANGED <<params, struct, partGen, events, fired, received>>

(* pok_channel_queuing_s_produce_message.                                  *)
SendProduce ==
  /\ pc["send"] = "copied"
  /\ LET filled == CyclicAdd(next["send"], 1) IN
     \/ /\ Ready("recv") /\ RecvHasRoom
        /\ next' = [next EXCEPT !["send"] = filled]
        /\ border' = filled
        /\ SideNotify("recv")
        /\ UNCHANGED discarded
     \/ /\ Ready("recv") /\ ~RecvHasRoom /\ discard
        /\ next' = [next EXCEPT !["send"] = border]
        /\ discarded' = TRUE
        /\ UNCHANGED <<border, isNotify, events>>
     \/ /\ Ready("recv") /\ ~RecvHasRoom /\ ~discard
        /\ next' = [next EXCEPT !["send"] = filled]
        /\ UNCHANGED <<border, isNotify, events, discarded>>
     \/ /\ ~Ready("recv")
        /\ next' = [next EXCEPT !["send"] = filled]
        /\ border' = filled
        /\ UNCHANGED <<isNotify, events, discarded>>
  /\ Done("send")
  /\ UNCHANGED <<params, generation, slots, partGen, received>>

--------------------------------------------------------------------------------
Next ==
  \/ \E side \in Sides : Create(side) \/ Restart(side)
  \/ Clear
  \/ \E side \in Sides : LocalEnable(side) \/ OtherCall(side) \/ NobodyWaits(side)
  \/ \E subscribe \in BOOLEAN : RecvGet(subscribe) \/ SendGet(subscribe)
  \/ RecvCopy
  \/ RecvConsume
  \/ \E m \in Messages : SendCopy(m)
  \/ SendProduce

Spec == Init /\ [][Next]_vars
--------------------------------------------------------------------------------
(* The receiver never has more messages than its limit ("Maximum number of *)
(* messages on this side", channel.h), whatever waited on the sender side  *)
(* when its port was cleared or its partition restarted.                   *)
RecvWithinLimit == Ready("recv") => RecvCount <= RecvMax

(* The assertions of r_consume_message and s_produce_message: what the get *)
(* of an operation found is still there at its end, although the other     *)
(* partition may have run, restarted or reconnected in between.            *)
AssertsHold ==
  /\ pc["recv"] \in {"got", "copied"} => RecvCount > 0
  /\ pc["send"] \in {"got", "copied"} => SendCount < SendMax

(* A side waits for a notification only while there is nothing to notify:  *)
(* no message, or no slot, became available without the event being sent.  *)
SubscriptionsKept ==
  /\ isNotify["recv"] /\ Ready("recv") => RecvCount = 0
  /\ isNotify["send"] /\ Ready("send") => SendCount = SendMax

(* A port has at most one event in the ring of its partition, which is     *)
(* configured with one entry for each queuing port, and none at all that   *)
(* dates from before the port was created.                                 *)
EventsFitRing ==
  \A side \in Sides : events[side] <= (IF Ready(side) THEN 1 ELSE 0)

(* "Mesages in that channel are transmitted *instantly* unless receiver is *)
(* not ready or its buffer is full" (channel.h): between connected sides,   *)
(* messages wait on the sender side only behind a full receiver.           *)
TransmittedInstantly ==
  Ready("recv") /\ Ready("send") /\ SendCount > 0 => RecvCount >= RecvMax

(* What the code guarantees of it: messages wait only where the sender      *)
(* blocks, and behind a full receiver, or behind an empty one that was      *)
(* cleared or restarted, never behind one that is partly full.             *)
WaitingBehindFull ==
  Ready("recv") /\ Ready("send") /\ SendCount > 0 =>
    /\ ~discard
    /\ RecvCount = RecvMax \/ (recvReinit /\ RecvCount = 0)

(* The cyclic buffer implements the two FIFO queues of ChannelFifo.        *)
Queue(first, count) == [i \in 1 .. count |-> slots[CyclicAdd(first, i - 1)]]

Fifo == INSTANCE ChannelFifo WITH
  rq <- IF Ready("recv") THEN Queue(next["recv"], RecvCount) ELSE <<>>,
  sq <- Queue(border, SendCount),
  connected <- {side \in Sides : Ready(side)},
  lost <- discarded

(* Messages are received unaltered and in the order in which they were     *)
(* sent, none twice, and none is lost but those the channel may drop.      *)
FifoSpec == Fifo!Spec
================================================================================
