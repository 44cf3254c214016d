---------------------------- MODULE SamplingChannel ----------------------------
(***************************************************************************)
(* The sampling channel between two partitions: the three message slots of  *)
(* kernel/core/channel.c, and the read and write sequences of               *)
(* kernel/core/port.c that use them.                                       *)
(*                                                                         *)
(* Messages are copied word by word into and out of the slots with only the *)
(* preemption inside the partition disabled: the other partition may run,   *)
(* and either may restart, between any two words.  Only the functions that  *)
(* move the positions run with preemption disabled.                        *)
(***************************************************************************)
EXTENDS Integers

CONSTANTS Messages,  \* contents: a word of a message tells which it belongs to
          NoMessage, \* size 0, and a word never written
          Words,     \* words in a message
          Refresh,   \* refresh_period of the receiving port
          MaxTime    \* bound on the system time

ASSUME SamplingAssumption ==
  /\ NoMessage \notin Messages
  /\ Words \in Nat \ {0}
  /\ Refresh \in Nat \ {0}
  /\ MaxTime \in Nat
  /\ \A m \in [1 .. Words -> Messages \union {NoMessage}] :
     \A t \in 0 .. MaxTime, v \in BOOLEAN :
       NoMessage \notin {[content |-> m, at |-> t], [content |-> m, valid |-> v]}

VARIABLES readPos, readPosNext, writePos,
          slots,      \* messages
          sizes,      \* message_sizes: the message whose size it is
          timestamps,
          now         \* jet_system_time

(* The operation of each side: its progress, and its local variables.      *)
VARIABLES sendPc, dest, data, written,  \* data: the user's message
          recvPc, src, size, stamp, copy, copied,
          result      \* what the last reception returned

channel == <<readPos, readPosNext, writePos, slots, sizes, timestamps>>
sender == <<sendPc, dest, data, written>>
receiver == <<recvPc, src, size, stamp, copy, copied>>
vars == <<channel, now, sender, receiver, result>>

--------------------------------------------------------------------------------
Positions == 0 .. 2
Buffers == [1 .. Words -> Messages \union {NoMessage}]
Whole(m) == [word \in 1 .. Words |-> m]

TypeOK ==
  /\ readPos \in Positions /\ readPosNext \in Positions /\ writePos \in Positions
  /\ slots \in [Positions -> Buffers]
  /\ sizes \in [Positions -> Messages \union {NoMessage}]
  /\ timestamps \in [Positions -> 0 .. MaxTime]
  /\ now \in 0 .. MaxTime
  /\ sendPc \in {"none", "idle", "copy"}
  /\ dest \in Positions
  /\ data \in Messages \union {NoMessage}
  /\ written \in 0 .. Words
  /\ recvPc \in {"none", "idle", "got", "sized", "copy"}
  /\ src \in Positions
  /\ size \in Messages \union {NoMessage}
  /\ stamp \in 0 .. MaxTime
  /\ copy \in Buffers
  /\ copied \in 0 .. Words
  /\ result \in {NoMessage} \union [content : Buffers, valid : BOOLEAN]

(* pok_channel_sampling_init, before any port is created.                  *)
Init ==
  /\ readPos = 0 /\ readPosNext = 0 /\ writePos = 1
  /\ slots = [pos \in Positions |-> Whole(NoMessage)]
  /\ sizes = [pos \in Positions |-> NoMessage]
  /\ timestamps = [pos \in Positions |-> 0]
  /\ now = 0
  /\ sendPc = "none" /\ dest = 0 /\ data = NoMessage /\ written = 0
  /\ recvPc = "none" /\ src = 0 /\ size = NoMessage /\ stamp = 0
  /\ copy = Whole(NoMessage) /\ copied = 0
  /\ result = NoMessage

(* The system time advances, in any state of the two sides.                *)
Tick ==
  /\ now < MaxTime
  /\ now' = now + 1
  /\ UNCHANGED <<channel, sender, receiver, result>>

--------------------------------------------------------------------------------
(* The operation of a side is over, or dies with its partition.            *)
SenderAt(pc) ==
  /\ sendPc' = pc
  /\ dest' = 0 /\ data' = NoMessage /\ written' = 0

ReceiverAt(pc) ==
  /\ recvPc' = pc
  /\ src' = 0 /\ size' = NoMessage /\ stamp' = 0
  /\ copy' = Whole(NoMessage) /\ copied' = 0

(* The partition of a side restarts: its ports are no longer created.      *)
SenderRestarts ==
  /\ SenderAt("none")
  /\ UNCHANGED <<channel, now, receiver, result>>

ReceiverRestarts ==
  /\ ReceiverAt("none")
  /\ UNCHANGED <<channel, now, sender, result>>

(* pok_port_sampling_create for an OUT port, with s_clear_message.         *)
SenderCreates ==
  /\ sendPc = "none"
  /\ readPosNext' = readPos
  /\ sendPc' = "idle"
  /\ UNCHANGED <<readPos, writePos, slots, sizes, timestamps, now, dest, data,
                 written, receiver, result>>

ClearsNextMessage ==                       \* mutant: the other position
  sizes' = [sizes EXCEPT ![readPosNext] = NoMessage]
ClearsReadMessage == sizes' = [sizes EXCEPT ![readPos] = NoMessage]

(* pok_port_sampling_create for an IN port, with r_clear_message.          *)
ReceiverCreates ==
  /\ recvPc = "none"
  /\ ClearsReadMessage
  /\ recvPc' = "idle"
  /\ UNCHANGED <<readPos, readPosNext, writePos, slots, timestamps, now, sender,
                 src, size, stamp, copy, copied, result>>

--------------------------------------------------------------------------------
(* pok_port_sampling_write: s_get_message, the copy of the user's message,  *)
(* send_message.                                                           *)
SendGet(m) ==
  /\ sendPc = "idle"
  /\ sendPc' = "copy"
  /\ dest' = writePos /\ data' = m /\ written' = 0
  /\ UNCHANGED <<channel, now, receiver, result>>

SendCopy ==
  /\ sendPc = "copy" /\ written < Words
  /\ slots' = [slots EXCEPT ![dest][written + 1] = data]
  /\ written' = written + 1
  /\ UNCHANGED <<readPos, readPosNext, writePos, sizes, timestamps, now, sendPc,
                 dest, data, receiver, result>>

NextSlot == writePos + 1                   \* mutant: slots in turn, no wrap
SlotNotNext == 3 - readPosNext - writePos  \* mutant: the other position
(* The slot that is neither being read nor the one just written.           *)
FreeSlot == 3 - readPos - writePos

SendMessage ==
  /\ sendPc = "copy" /\ written = Words
  /\ readPosNext' = writePos
  /\ timestamps' = [timestamps EXCEPT ![writePos] = now]
  /\ sizes' = [sizes EXCEPT ![writePos] = data]
  /\ writePos' = FreeSlot
  /\ SenderAt("idle")
  /\ UNCHANGED <<readPos, slots, now, receiver, result>>

--------------------------------------------------------------------------------
(* pok_port_sampling_read: r_get_message, which moves the position with     *)
(* preemption disabled and then reads the size and the time of the message  *)
(* with preemption enabled, and the copy to the user.                      *)
ReadGet ==
  /\ recvPc = "idle"
  /\ readPos' = readPosNext /\ src' = readPosNext
  /\ recvPc' = "got"
  /\ UNCHANGED <<readPosNext, writePos, slots, sizes, timestamps, now, sender,
                 size, stamp, copy, copied, result>>

ReadSize ==
  /\ recvPc = "got" /\ sizes[src] # NoMessage
  /\ size' = sizes[src]
  /\ recvPc' = "sized"
  /\ UNCHANGED <<channel, now, sender, src, stamp, copy, copied, result>>

ReadEmpty ==
  /\ recvPc = "got" /\ sizes[src] = NoMessage
  /\ result' = NoMessage
  /\ ReceiverAt("idle")
  /\ UNCHANGED <<channel, now, sender>>

ReadStamp ==
  /\ recvPc = "sized"
  /\ stamp' = timestamps[src]
  /\ recvPc' = "copy"
  /\ UNCHANGED <<channel, now, sender, src, size, copy, copied, result>>

ReadCopy ==
  /\ recvPc = "copy" /\ copied < Words
  /\ copy' = [copy EXCEPT ![copied + 1] = slots[src][copied + 1]]
  /\ copied' = copied + 1
  /\ UNCHANGED <<channel, now, sender, recvPc, src, size, stamp, result>>

(* The validity is that of the time at which the copy ends.                *)
ReadDone ==
  /\ recvPc = "copy" /\ copied = Words
  /\ result' = [content |-> copy, valid |-> stamp + Refresh >= now]
  /\ ReceiverAt("idle")
  /\ UNCHANGED <<channel, now, sender>>

(* pok_port_sampling_check: r_check_new_message, which takes the message.  *)
Check ==
  /\ recvPc = "idle"
  /\ readPos' = readPosNext
  /\ UNCHANGED <<readPosNext, writePos, slots, sizes, timestamps, now, sender,
                 receiver, result>>

Next ==
  \/ Tick
  \/ SenderRestarts \/ SenderCreates
  \/ ReceiverRestarts \/ ReceiverCreates
  \/ \E m \in Messages : SendGet(m)
  \/ SendCopy \/ SendMessage
  \/ ReadGet \/ ReadSize \/ ReadEmpty \/ ReadStamp \/ ReadCopy \/ ReadDone
  \/ Check

Spec == Init /\ [][Next]_vars
--------------------------------------------------------------------------------
Reading == recvPc \in {"got", "sized", "copy"}

(* A reception never returns words of two messages, nor the size of one     *)
(* with the words of another, however often the sender wrote meanwhile.     *)
NeverTorn ==
  /\ result # NoMessage => \E m \in Messages : result.content = Whole(m)
  /\ recvPc = "copy" /\ copied = Words => copy = Whole(size)

(* The slot that a reception in progress copies keeps its message, size    *)
(* and time until the reception ends ("Every new function's call            *)
(* invalidates previous return value", channel.h: nothing else does).       *)
ReadUndisturbed ==
  [][Reading /\ Reading' =>
       UNCHANGED <<src, slots[src], sizes[src], timestamps[src]>>]_vars

(* The slots implement the register of SamplingRegister.                   *)
Message(pos) == [content |-> slots[pos], at |-> timestamps[pos]]
Unread == IF readPosNext = readPos THEN NoMessage ELSE Message(readPosNext)
Taken == IF sizes[readPos] = NoMessage THEN NoMessage ELSE Message(readPos)

Register == INSTANCE SamplingRegister WITH
  Contents <- {Whole(m) : m \in Messages},
  Nothing <- NoMessage,
  unread <- Unread,
  taken <- Taken

(* Receptions return the last message sent that was not withdrawn, or the   *)
(* one they returned before, with the validity of that very message.        *)
RegisterSpec == Register!Spec
================================================================================
