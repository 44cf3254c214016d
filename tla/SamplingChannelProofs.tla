------------------------- MODULE SamplingChannelProofs -------------------------
(***************************************************************************)
(* Proofs about the sampling channel, for messages of any size and any      *)
(* refresh period.                                                         *)
(***************************************************************************)
EXTENDS SamplingChannel, TLAPS

(* What makes the three slots enough: the sender's slot is neither of the   *)
(* receiver's, so the receiver's hold whole messages.                      *)
Slots ==
  /\ writePos # readPos /\ writePos # readPosNext
  /\ \A pos \in {readPos, readPosNext} :
       sizes[pos] # NoMessage => slots[pos] = Whole(sizes[pos])
  /\ readPosNext # readPos => sizes[readPosNext] # NoMessage

Writes ==
  sendPc = "copy" =>
    /\ dest = writePos
    /\ data \in Messages
    /\ \A word \in 1 .. written : slots[dest][word] = data

Reads ==
  /\ Reading => src = readPos
  /\ recvPc \in {"sized", "copy"} => size = sizes[src] /\ size # NoMessage
  /\ recvPc # "copy" => copied = 0
  /\ recvPc = "copy" =>
       /\ stamp = timestamps[src]
       /\ \A word \in 1 .. copied : copy[word] = slots[src][word]

ResultWhole == result # NoMessage => \E m \in Messages : result.content = Whole(m)

SInv == TypeOK /\ Slots /\ Writes /\ Reads /\ ResultWhole

--------------------------------------------------------------------------------
(* A buffer all of whose words belong to one message is that message.      *)
LEMMA WholeBuffer ==
  ASSUME NEW b \in Buffers, NEW m,
         \A word \in 1 .. Words : b[word] = m
  PROVE  b = Whole(m)
BY SamplingAssumption DEF SamplingAssumption, Buffers, Whole

LEMMA TypeInit == Init => TypeOK
BY SamplingAssumption DEF SamplingAssumption, Init, TypeOK, Positions, Buffers, Whole

LEMMA TypeStep ==
  ASSUME TypeOK, Slots, [Next]_vars
  PROVE  TypeOK'
<1>0. Whole(NoMessage) \in Buffers
  BY DEF Whole, Buffers
<1> USE SamplingAssumption DEF SamplingAssumption, TypeOK, Positions
<1>1. CASE Tick
  BY <1>1 DEF Tick, channel, sender, receiver
<1>2. CASE SenderRestarts
  BY <1>2 DEF SenderRestarts, SenderAt, channel, receiver
<1>3. CASE ReceiverRestarts
  BY <1>3, <1>0 DEF ReceiverRestarts, ReceiverAt, channel, sender
<1>4. CASE SenderCreates
  BY <1>4 DEF SenderCreates, receiver
<1>5. CASE ReceiverCreates
  BY <1>5 DEF ReceiverCreates, ClearsReadMessage, sender
<1>6. ASSUME NEW m \in Messages, SendGet(m) PROVE TypeOK'
  BY <1>6 DEF SendGet, channel, receiver
<1>7. CASE SendCopy
  <2>1. slots' \in [Positions -> Buffers]
    BY <1>7 DEF SendCopy, Buffers
  <2>. QED
    BY <1>7, <2>1 DEF SendCopy, receiver
<1>8. CASE SendMessage
  BY <1>8 DEF SendMessage, SenderAt, FreeSlot, Slots, receiver
<1>9. CASE ReadGet
  BY <1>9 DEF ReadGet, sender
<1>10. CASE ReadSize
  BY <1>10 DEF ReadSize, channel, sender
<1>11. CASE ReadEmpty
  BY <1>11, <1>0 DEF ReadEmpty, ReceiverAt, channel, sender
<1>12. CASE ReadStamp
  BY <1>12 DEF ReadStamp, channel, sender
<1>13. CASE ReadCopy
  BY <1>13 DEF ReadCopy, channel, sender, Buffers
<1>14. CASE ReadDone
  BY <1>14, <1>0 DEF ReadDone, ReceiverAt, channel, sender
<1>15. CASE Check
  BY <1>15 DEF Check, sender, receiver
<1>16. CASE UNCHANGED vars
  BY <1>16 DEF vars, channel, sender, receiver
<1>. QED
  BY <1>1, <1>2, <1>3, <1>4, <1>5, <1>6, <1>7, <1>8, <1>9, <1>10, <1>11, <1>12,
     <1>13, <1>14, <1>15, <1>16 DEF Next

LEMMA InvInit == Init => SInv
<1>. SUFFICES ASSUME Init PROVE SInv
  OBVIOUS
<1>1. TypeOK
  BY TypeInit
<1>2. Slots
  BY DEF Init, Slots, Positions
<1>3. Writes /\ Reads /\ ResultWhole
  BY DEF Init, Writes, Reads, Reading, ResultWhole
<1>. QED
  BY <1>1, <1>2, <1>3 DEF SInv

LEMMA SlotsStep ==
  ASSUME SInv, [Next]_vars
  PROVE  Slots'
<1> USE DEF SInv, TypeOK, Slots, Positions
<1>1. CASE SenderCreates
  BY <1>1 DEF SenderCreates
<1>2. CASE ReceiverCreates
  BY <1>2 DEF ReceiverCreates, ClearsReadMessage
<1>3. CASE SendCopy
  <2>1. dest = writePos
    BY <1>3 DEF SendCopy, Writes
  <2>2. \A pos \in {readPos, readPosNext} : slots'[pos] = slots[pos]
    BY <1>3, <2>1 DEF SendCopy
  <2>. QED
    BY <1>3, <2>2 DEF SendCopy
<1>4. CASE SendMessage
  <2>1. /\ dest = writePos /\ data \in Messages
        /\ \A word \in 1 .. Words : slots[writePos][word] = data
    BY <1>4 DEF SendMessage, Writes
  <2>2. slots[writePos] = Whole(data)
    BY <2>1, WholeBuffer
  <2>3. data # NoMessage
    BY <2>1, SamplingAssumption DEF SamplingAssumption
  <2>4. sizes' = [sizes EXCEPT ![writePos] = data] /\ slots' = slots
    BY <1>4 DEF SendMessage
  <2>5. /\ readPosNext' = writePos /\ readPos' = readPos
        /\ writePos' = 3 - readPos - writePos
    BY <1>4 DEF SendMessage, FreeSlot
  <2>. QED
    BY <2>2, <2>3, <2>4, <2>5
<1>5. CASE ReadGet
  BY <1>5 DEF ReadGet
<1>6. CASE Check
  BY <1>6 DEF Check
<1>7. ASSUME UNCHANGED channel PROVE Slots'
  BY <1>7 DEF channel
<1>. QED
  BY <1>1, <1>2, <1>3, <1>4, <1>5, <1>6, <1>7
  DEF Next, vars, Tick, SenderRestarts, ReceiverRestarts, SendGet, ReadSize, ReadEmpty,
      ReadStamp, ReadCopy, ReadDone

LEMMA WritesStep ==
  ASSUME SInv, [Next]_vars
  PROVE  Writes'
<1> USE DEF SInv, TypeOK, Writes
<1>1. ASSUME NEW m \in Messages, SendGet(m) PROVE Writes'
  BY <1>1 DEF SendGet, channel
<1>2. CASE SendCopy
  <2>1. /\ dest' = dest /\ data' = data /\ writePos' = writePos
        /\ written' = written + 1 /\ sendPc = "copy" /\ written < Words
    BY <1>2 DEF SendCopy
  <2>2. slots'[dest] = [slots[dest] EXCEPT ![written + 1] = data]
    BY <1>2 DEF SendCopy, Positions
  <2>3. slots[dest] \in Buffers
    OBVIOUS
  <2>4. \A word \in 1 .. written + 1 : slots'[dest][word] = data
    BY <2>1, <2>2, <2>3, SamplingAssumption DEF Buffers, SamplingAssumption
  <2>. QED
    BY <2>1, <2>4
<1>3. CASE SendMessage \/ SenderRestarts
  BY <1>3 DEF SendMessage, SenderRestarts, SenderAt
<1>4. CASE SenderCreates
  BY <1>4 DEF SenderCreates
<1>5. ASSUME UNCHANGED <<sender, slots, writePos>> PROVE Writes'
  BY <1>5 DEF sender
<1>. QED
  BY <1>1, <1>2, <1>3, <1>4, <1>5
  DEF Next, vars, channel, Tick, ReceiverRestarts, ReceiverCreates, ReadGet, ReadSize,
      ReadEmpty, ReadStamp, ReadCopy, ReadDone, Check

(* The slot of a reception in progress is not touched by any step.         *)
LEMMA SourceKept ==
  ASSUME SInv, [Next]_vars, Reading, Reading'
  PROVE  /\ src' = src /\ readPos' = readPos
         /\ slots'[src] = slots[src]
         /\ sizes'[src] = sizes[src]
         /\ timestamps'[src] = timestamps[src]
<1>1. src = readPos /\ src # writePos /\ src \in Positions
  BY DEF SInv, Reads, Slots, TypeOK
<1>2. dest = writePos \/ sendPc # "copy"
  BY DEF SInv, Writes
<1> USE DEF SInv, TypeOK
<1>3. CASE SendCopy
  BY <1>1, <1>2, <1>3 DEF SendCopy, receiver
<1>4. CASE SendMessage
  BY <1>1, <1>4 DEF SendMessage, receiver
<1>5. CASE SenderCreates
  BY <1>5 DEF SenderCreates, receiver
<1>6. ~ (ReceiverRestarts \/ ReceiverCreates \/ ReadGet \/ ReadEmpty \/ ReadDone \/ Check)
  BY DEF ReceiverRestarts, ReceiverAt, ReceiverCreates, ReadGet, ReadEmpty, ReadDone, Check,
         Reading
<1>. QED
  BY <1>3, <1>4, <1>5, <1>6
  DEF Next, vars, channel, receiver, Tick, SenderRestarts, SendGet, ReadSize, ReadStamp,
      ReadCopy

LEMMA ReadsStep ==
  ASSUME SInv, [Next]_vars
  PROVE  Reads'
<1> USE DEF SInv, TypeOK, Reads, Reading
<1>1. CASE ReadGet
  BY <1>1 DEF ReadGet
<1>2. CASE ReceiverRestarts \/ ReadEmpty \/ ReadDone
  BY <1>2 DEF ReceiverRestarts, ReadEmpty, ReadDone, ReceiverAt
<1>3. CASE ReceiverCreates
  BY <1>3 DEF ReceiverCreates
<1>4. CASE Check
  BY <1>4 DEF Check, receiver
<1>5. CASE ReadSize
  BY <1>5 DEF ReadSize, channel
<1>6. CASE ReadStamp
  BY <1>6 DEF ReadStamp, channel
<1>7. CASE ReadCopy
  <2>1. copy' = [copy EXCEPT ![copied + 1] = slots[src][copied + 1]] /\ copied' = copied + 1
    BY <1>7 DEF ReadCopy
  <2>2. \A word \in 1 .. copied + 1 : copy'[word] = slots[src][word]
    BY <1>7, <2>1, SamplingAssumption DEF ReadCopy, Buffers, SamplingAssumption
  <2>3. /\ UNCHANGED <<src, size, stamp, readPos, slots, sizes, timestamps>>
        /\ recvPc = "copy" /\ recvPc' = "copy"
    BY <1>7 DEF ReadCopy, channel
  <2>4. /\ src = readPos /\ size = sizes[src] /\ size # NoMessage
        /\ stamp = timestamps[src]
    BY <2>3
  <2>. QED
    BY <2>1, <2>2, <2>3, <2>4
<1>8. ASSUME UNCHANGED receiver PROVE Reads'
  <2>1. CASE Reading
    <3>1. Reading'
      BY <1>8, <2>1 DEF receiver
    <3>. QED
      BY <1>8, <2>1, <3>1, SourceKept DEF receiver
  <2>2. CASE ~Reading
    BY <1>8, <2>2 DEF receiver
  <2>. QED
    BY <2>1, <2>2
<1>. QED
  BY <1>1, <1>2, <1>3, <1>4, <1>5, <1>6, <1>7, <1>8
  DEF Next, vars, Tick, SenderRestarts, SenderCreates, SendGet, SendCopy, SendMessage

LEMMA ResultStep ==
  ASSUME SInv, [Next]_vars
  PROVE  ResultWhole'
<1> USE DEF SInv, TypeOK, ResultWhole
<1>1. CASE ReadDone
  <2>1. /\ src = readPos /\ size = sizes[src] /\ size # NoMessage
        /\ \A word \in 1 .. Words : copy[word] = slots[src][word]
    BY <1>1 DEF ReadDone, Reads, Reading
  <2>2. slots[src] = Whole(size)
    BY <2>1 DEF Slots
  <2>3. copy = Whole(size)
    <3>1. \A word \in 1 .. Words : copy[word] = size
      BY <2>1, <2>2 DEF Whole
    <3>. QED
      BY <3>1, WholeBuffer
  <2>4. size \in Messages /\ result'.content = copy
    BY <1>1, <2>1 DEF ReadDone
  <2>. QED
    BY <2>3, <2>4
<1>2. CASE ReadEmpty
  BY <1>2 DEF ReadEmpty
<1>3. ASSUME UNCHANGED result PROVE ResultWhole'
  BY <1>3
<1>. QED
  BY <1>1, <1>2, <1>3
  DEF Next, vars, Tick, SenderRestarts, SenderCreates, ReceiverRestarts, ReceiverCreates,
      SendGet, SendCopy, SendMessage, ReadGet, ReadSize, ReadStamp, ReadCopy, Check

LEMMA SamplingInvariant == Spec => []SInv
<1>1. Init => SInv
  BY InvInit
<1>2. SInv /\ [Next]_vars => SInv'
  BY TypeStep, SlotsStep, WritesStep, ReadsStep, ResultStep DEF SInv
<1>. QED
  BY <1>1, <1>2, PTL DEF Spec

--------------------------------------------------------------------------------
(* The type invariant: the positions stay within the three slots.          *)
THEOREM SamplingTypeCorrect == Spec => []TypeOK
<1>1. SInv => TypeOK
  BY DEF SInv
<1>. QED
  BY <1>1, SamplingInvariant, PTL

(* A reception returns a whole message, whatever its length and however     *)
(* often the sender writes or restarts while it is copied.                 *)
THEOREM ReceptionsNeverTorn == Spec => []NeverTorn
<1>1. SInv => NeverTorn
  <2>. SUFFICES ASSUME SInv, recvPc = "copy", copied = Words
                PROVE  copy = Whole(size)
    BY DEF SInv, NeverTorn, ResultWhole
  <2>1. /\ src = readPos /\ size = sizes[src] /\ size # NoMessage
        /\ \A word \in 1 .. Words : copy[word] = slots[src][word]
    BY DEF SInv, Reads, Reading
  <2>2. slots[src] = Whole(size)
    BY <2>1 DEF SInv, Slots
  <2>3. copy \in Buffers /\ \A word \in 1 .. Words : copy[word] = size
    BY <2>1, <2>2 DEF Whole, SInv, TypeOK
  <2>. QED
    BY <2>3, WholeBuffer
<1>. QED
  BY <1>1, SamplingInvariant, PTL

(* No step changes the slot of a reception in progress.                    *)
THEOREM ReceptionsUndisturbed == Spec => ReadUndisturbed
<1>1. SInv /\ [Next]_vars =>
        [Reading /\ Reading' =>
           UNCHANGED <<src, slots[src], sizes[src], timestamps[src]>>]_vars
  BY SourceKept
<1>. QED
  BY <1>1, SamplingInvariant, PTL DEF Spec, ReadUndisturbed

--------------------------------------------------------------------------------
(* A message in a slot is a message.                                       *)
LEMMA MessageIsSomething ==
  ASSUME TypeOK, NEW pos \in Positions
  PROVE  Message(pos) # NoMessage
<1>1. slots[pos] \in Buffers /\ timestamps[pos] \in 0 .. MaxTime
  BY DEF TypeOK
<1>. QED
  BY <1>1, SamplingAssumption DEF Message, Buffers, SamplingAssumption

(* What the register holds depends on the receiver's two slots only.       *)
LEMMA RegisterKept ==
  ASSUME SInv, UNCHANGED <<readPos, readPosNext>>,
         \A pos \in {readPos, readPosNext} :
           slots'[pos] = slots[pos] /\ timestamps'[pos] = timestamps[pos],
         sizes'[readPos] = sizes[readPos]
  PROVE  UNCHANGED <<Unread, Taken>>
BY DEF Unread, Taken, Message

LEMMA RegisterInit == Init => Register!Init
BY DEF Init, Register!Init, Unread, Taken, Positions

LEMMA RegisterTake ==
  ASSUME SInv, readPos' = readPosNext,
         UNCHANGED <<readPosNext, slots, sizes, timestamps, now, result>>
  PROVE  [Register!Next]_Register!vars
<1>1. CASE readPos = readPosNext
  BY <1>1, RegisterKept DEF Register!vars
<1>2. CASE readPos # readPosNext
  <2>1. Unread = Message(readPosNext) /\ Unread' = NoMessage
    BY <1>2 DEF Unread
  <2>2. Taken' = Message(readPosNext)
    BY <1>2 DEF Taken, Message, SInv, Slots
  <2>3. Unread # NoMessage
    BY <2>1, MessageIsSomething DEF SInv, TypeOK
  <2>. QED
    BY <2>1, <2>2, <2>3 DEF Register!Next, Register!Take
<1>. QED
  BY <1>1, <1>2

LEMMA RegisterSend ==
  ASSUME SInv, SendMessage
  PROVE  Register!Next
<1> USE DEF SInv, TypeOK
<1>1. /\ dest = writePos /\ data \in Messages
      /\ \A word \in 1 .. Words : slots[writePos][word] = data
  BY DEF SendMessage, Writes
<1>2. slots[writePos] = Whole(data)
  BY <1>1, WholeBuffer
<1>3. /\ readPosNext' = writePos /\ readPos' = readPos /\ slots' = slots
      /\ writePos # readPos
  BY DEF SendMessage, Slots
<1>4. /\ timestamps' = [timestamps EXCEPT ![writePos] = now]
      /\ sizes' = [sizes EXCEPT ![writePos] = data]
  BY DEF SendMessage
<1>5. Unread' = [content |-> Whole(data), at |-> now]
  BY <1>2, <1>3, <1>4 DEF Unread, Message
<1>6. Taken' = Taken
  BY <1>3, <1>4 DEF Taken, Message, Positions
<1>7. UNCHANGED <<now, result>>
  BY DEF SendMessage
<1>8. Register!Send(Whole(data))
  BY <1>5, <1>6, <1>7 DEF Register!Send
<1>9. Whole(data) \in {Whole(m) : m \in Messages}
  BY <1>1
<1>. QED
  BY <1>8, <1>9, Zenon DEF Register!Next

LEMMA RegisterReturn ==
  ASSUME SInv, ReadEmpty \/ ReadDone
  PROVE  Register!Next
<1> USE DEF SInv, TypeOK
<1>0. UNCHANGED <<channel, now>> /\ src = readPos
  BY DEF ReadEmpty, ReadDone, Reads, Reading
<1>1. UNCHANGED <<Unread, Taken, now>>
  BY <1>0, RegisterKept DEF channel
<1>2. CASE ReadEmpty
  <2>1. Taken = NoMessage /\ result' = NoMessage
    BY <1>0, <1>2 DEF ReadEmpty, Taken
  <2>. QED
    BY <1>1, <2>1 DEF Register!Next, Register!Return
<1>3. CASE ReadDone
  <2>1. /\ size = sizes[src] /\ size # NoMessage /\ stamp = timestamps[src]
        /\ \A word \in 1 .. Words : copy[word] = slots[src][word]
    BY <1>3 DEF ReadDone, Reads, Reading
  <2>2. slots[src] = Whole(size)
    BY <1>0, <2>1 DEF Slots
  <2>3. \A word \in 1 .. Words : copy[word] = size
    BY <2>1, <2>2 DEF Whole
  <2>4. copy = slots[src]
    BY <2>2, <2>3, WholeBuffer
  <2>5. Taken = [content |-> slots[src], at |-> timestamps[src]]
    BY <1>0, <2>1 DEF Taken, Message
  <2>6. Taken # NoMessage
    BY <1>0, <2>5, MessageIsSomething DEF Message
  <2>7. result' = [content |-> Taken.content, valid |-> Taken.at + Refresh >= now]
    BY <1>3, <2>1, <2>4, <2>5 DEF ReadDone
  <2>. QED
    BY <1>1, <2>6, <2>7 DEF Register!Next, Register!Return
<1>. QED
  BY <1>2, <1>3

LEMMA RegisterStep ==
  ASSUME SInv, [Next]_vars
  PROVE  [Register!Next]_Register!vars
<1>1. CASE Tick
  <2>1. UNCHANGED <<Unread, Taken>>
    BY <1>1, RegisterKept DEF Tick, channel
  <2>. QED
    BY <1>1, <2>1 DEF Tick, Register!Next, Register!Tick
<1>2. CASE SenderCreates
  <2>1. Unread' = NoMessage /\ Taken' = Taken
    BY <1>2 DEF SenderCreates, Unread, Taken, Message
  <2>. QED
    BY <1>2, <2>1 DEF SenderCreates, Register!Next, Register!ForgetSent
<1>3. CASE ReceiverCreates
  <2>1. sizes'[readPos] = NoMessage
    BY <1>3 DEF ReceiverCreates, ClearsReadMessage, SInv, TypeOK
  <2>2. Taken' = NoMessage /\ Unread' = Unread
    BY <1>3, <2>1 DEF ReceiverCreates, Unread, Taken, Message
  <2>. QED
    BY <1>3, <2>2 DEF ReceiverCreates, Register!Next, Register!ForgetTaken
<1>4. CASE SendCopy
  <2>1. dest = writePos
    BY <1>4 DEF SendCopy, SInv, Writes
  <2>2. \A pos \in {readPos, readPosNext} : slots'[pos] = slots[pos]
    BY <1>4, <2>1 DEF SendCopy, SInv, TypeOK, Slots
  <2>3. UNCHANGED <<readPos, readPosNext, sizes, timestamps>>
    BY <1>4 DEF SendCopy
  <2>4. UNCHANGED <<Unread, Taken>>
    BY <2>2, <2>3, RegisterKept
  <2>. QED
    BY <1>4, <2>4 DEF SendCopy, Register!vars
<1>5. CASE SendMessage
  BY <1>5, RegisterSend
<1>6. CASE ReadGet \/ Check
  BY <1>6, RegisterTake DEF ReadGet, Check
<1>7. CASE ReadEmpty \/ ReadDone
  BY <1>7, RegisterReturn
<1>8. ASSUME UNCHANGED <<channel, now, result>> PROVE UNCHANGED Register!vars
  BY <1>8 DEF channel, Register!vars, Unread, Taken, Message
<1>. QED
  BY <1>1, <1>2, <1>3, <1>4, <1>5, <1>6, <1>7, <1>8
  DEF Next, vars, SenderRestarts, ReceiverRestarts, SendGet, ReadSize, ReadStamp, ReadCopy

(* The three slots implement the register: receptions return the last      *)
(* message that was sent and not withdrawn, with its own validity.         *)
THEOREM SlotsImplementRegister == Spec => RegisterSpec
<1>1. Init => Register!Init
  BY RegisterInit
<1>2. SInv /\ [Next]_vars => [Register!Next]_Register!vars
  BY RegisterStep
<1>. QED
  BY <1>1, <1>2, SamplingInvariant, PTL DEF Spec, RegisterSpec, Register!Spec
================================================================================
