------------------------------ MODULE ChannelFifo ------------------------------
(***************************************************************************)
(* What a queuing channel between two partitions promises                  *)
(* (kernel/include/core/channel.h): two bounded FIFO queues, one on the     *)
(* receiver side and one on the sender side, and messages that move from   *)
(* the second to the first in the order in which they were sent.  Nothing  *)
(* here knows of the cyclic buffer, of subscriptions or of generations.    *)
(***************************************************************************)
EXTENDS Integers, Sequences

CONSTANTS RecvMax,    \* capacity of the receiver side
          SendMax,    \* capacity of the sender side
          Messages,   \* message contents
          NoMessage   \* what was received before the first message

VARIABLES discard,   \* TRUE: RECEIVER_DISCARD, FALSE: SENDER_BLOCK
          rq,        \* messages on the receiver side
          sq,        \* messages on the sender side
          connected, \* the sides whose port is created
          lost,      \* a message was discarded since the last reception
          received   \* the last message received, and the flag it came with

vars == <<discard, rq, sq, connected, lost, received>>

Init ==
  /\ discard \in BOOLEAN
  /\ rq = <<>> /\ sq = <<>>
  /\ connected = {}
  /\ lost = FALSE
  /\ received = [message |-> NoMessage, lost |-> FALSE]

(* Every message waiting on the sender side, and the new one, reach the    *)
(* receiver when it has room; when it has none the new message waits or is  *)
(* discarded; when it is not connected they are all dropped.               *)
Send(m) ==
  /\ "send" \in connected /\ Len(sq) < SendMax
  /\ \/ /\ "recv" \in connected /\ Len(rq) < RecvMax
        /\ rq' = rq \o Append(sq, m)
        /\ sq' = <<>>
        /\ UNCHANGED lost
     \/ /\ "recv" \in connected /\ Len(rq) >= RecvMax /\ ~discard
        /\ sq' = Append(sq, m)
        /\ UNCHANGED <<rq, lost>>
     \/ /\ "recv" \in connected /\ Len(rq) >= RecvMax /\ discard
        /\ sq' = <<>> /\ lost' = TRUE
        /\ UNCHANGED rq
     \/ /\ "recv" \notin connected
        /\ sq' = <<>>
        /\ UNCHANGED <<rq, lost>>
  /\ UNCHANGED <<discard, connected, received>>

(* The oldest message is received; the oldest one of the sender side takes *)
(* the room it leaves, if the sender is still connected.                   *)
Receive ==
  /\ "recv" \in connected /\ rq # <<>>
  /\ received' = [message |-> Head(rq), lost |-> lost]
  /\ lost' = FALSE
  /\ IF "send" \in connected /\ sq # <<>>
     THEN /\ rq' = Append(Tail(rq), Head(sq))
          /\ sq' = Tail(sq)
     ELSE /\ rq' = Tail(rq)
          /\ UNCHANGED sq
  /\ UNCHANGED <<discard, connected>>

(* A port is created, or a receiving port cleared: its side becomes empty. *)
Connect(side) ==
  /\ connected' = connected \union {side}
  /\ \/ side = "recv" /\ rq' = <<>> /\ UNCHANGED sq
     \/ side = "send" /\ sq' = <<>> /\ UNCHANGED rq
  /\ UNCHANGED <<discard, lost, received>>

(* The partition of a side restarts; what waits on the sender side stays.  *)
Disconnect(side) ==
  /\ side \in connected
  /\ connected' = connected \ {side}
  /\ rq' = IF side = "recv" THEN <<>> ELSE rq
  /\ UNCHANGED <<discard, sq, lost, received>>

Next ==
  \/ \E m \in Messages : Send(m)
  \/ Receive
  \/ \E side \in {"recv", "send"} : Connect(side) \/ Disconnect(side)

Spec == Init /\ [][Next]_vars
================================================================================
