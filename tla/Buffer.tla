---------------------------------- MODULE Buffer ---------------------------------
(***************************************************************************)
(* Buffers: libpok/arinc653/buffer.c.  Messages are kept in a cyclic array;  *)
(* senders to a full buffer and receivers from an empty one wait in the      *)
(* same queue, and the thread that lets one go on copies its message.       *)
(***************************************************************************)
EXTENDS ArincObjects

(* CREATE_BUFFER.                                                          *)
Empty == [base |-> 0, nb |-> 0, slots |-> [i \in 0 .. Capacity - 1 |-> None]]

BufferInit ==
  /\ kind = "buffer"
  /\ object = [s \in Sections |-> Empty] /\ byPriority \in [Sections -> BOOLEAN]

MessageIndex(b, offset) ==
  IF b.base + offset >= Capacity THEN b.base + offset - Capacity ELSE b.base + offset

Content(t) == object[using[t]]

Stored(b, m) == [b EXCEPT !.slots[MessageIndex(b, b.nb)] = m, !.nb = @ + 1]

(* A slot that holds no message any more is forgotten.                     *)
Taken(b) == [b EXCEPT !.slots[MessageIndex(b, 0)] = None, !.base = MessageIndex(b, 1),
                      !.nb = @ - 1]

(* SEND_BUFFER: to the first waiting receiver, if there is one.            *)
SendBuffer(t, m) ==
  /\ Content(t).nb < Capacity
  /\ Notify(t, FALSE, "woken", "nobody")
  /\ parcel' = [parcel EXCEPT ![t] = m]
  /\ UNCHANGED object /\ KeepBut

Handover(t) ==
  /\ Step(t, "woken", "release")
  /\ parcel' = [parcel EXCEPT ![FirstIn(t)] = parcel[t], ![t] = None]
  /\ queue' = FirstOut(t)
  /\ UNCHANGED <<shared, using, object>> /\ KeepBut

Store(t) ==
  /\ Step(t, "nobody", "release")
  /\ Change(t, Stored(Content(t), parcel[t]))
  /\ parcel' = [parcel EXCEPT ![t] = None]
  /\ UNCHANGED <<shared, using, queue>> /\ KeepBut

SendWaits(t, m) ==
  /\ Content(t).nb >= Capacity
  /\ NotAvailable(t) \/ Block(t, byPriority[using[t]], m)

(* RECEIVE_BUFFER: the message of the first waiting sender, if there is one,  *)
(* comes in.                                                               *)
ReceiveBuffer(t) ==
  /\ Content(t).nb > 0
  /\ Notify(t, FALSE, "refill", "release")
  /\ Change(t, Taken(Content(t)))
  /\ UNCHANGED parcel /\ KeepBut

NotRefilled(t) == Content(t)       \* mutant: the sender's message is forgotten
Refilled(t) == Stored(Content(t), parcel[FirstIn(t)])

Refill(t) ==
  /\ Step(t, "refill", "release")
  /\ Change(t, Refilled(t)) /\ queue' = FirstOut(t)
  /\ UNCHANGED <<shared, using, parcel>> /\ KeepBut

ReceiveWaits(t) ==
  /\ Content(t).nb <= 0
  /\ NotAvailable(t) \/ Block(t, byPriority[using[t]], None)

BufferStep(t) ==
  /\ kind = "buffer" /\ pc[t] \in Inside
  /\ \/ \E m \in Messages : SendBuffer(t, m) \/ SendWaits(t, m)
     \/ ReceiveBuffer(t) \/ ReceiveWaits(t) \/ Handover(t) \/ Store(t) \/ Refill(t)
================================================================================
