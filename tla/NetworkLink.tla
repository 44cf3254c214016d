------------------------------- MODULE NetworkLink -------------------------------
(***************************************************************************)
(* What a network partition promises between its ports and the wire: the   *)
(* messages it takes from its port leave as frames, whole and in the order  *)
(* in which it took them, and one is dropped only while every slot is lent  *)
(* to the device; frames that come are handled whole, in order and once.   *)
(* Nothing here knows of descriptors, rings or notifications.              *)
(***************************************************************************)
EXTENDS NetworkFrames, Integers, Sequences

CONSTANTS Slots,   \* frames that can be lent to the device
          Buffers  \* buffers for frames that come

VARIABLES hand,      \* the frame the partition is about to send, or NoFrame
          sending,   \* frames given to the device
          lent,      \* slots lent to the device
          came,      \* frames that came and are not handled
          spare,     \* buffers that the device may fill
          waiting,   \* a frame waits on the wire for a buffer
          delivered  \* the last message delivered to a port

transmission == <<hand, sending, lent>>
reception == <<came, spare, waiting, delivered>>
vars == <<transmission, reception>>

Init ==
  /\ hand = NoFrame /\ sending = <<>> /\ lent = 0
  /\ came = <<>> /\ spare = Buffers /\ waiting = FALSE /\ delivered = NoMessage

Take(m) ==
  /\ hand = NoFrame
  /\ hand' = UdpFrame(m)
  /\ UNCHANGED <<sending, lent, reception>>

Accept ==
  /\ hand # NoFrame /\ lent < Slots
  /\ sending' = Append(sending, hand) /\ lent' = lent + 1
  /\ hand' = NoFrame
  /\ UNCHANGED reception

Drop ==
  /\ hand # NoFrame /\ lent = Slots
  /\ hand' = NoFrame
  /\ UNCHANGED <<sending, lent, reception>>

(* The frame is on the wire.                                               *)
Transmit ==
  /\ sending # <<>>
  /\ sending' = Tail(sending)
  /\ UNCHANGED <<hand, lent, reception>>

GiveBack ==
  /\ lent > Len(sending)
  /\ lent' = lent - 1
  /\ UNCHANGED <<hand, sending, reception>>

Come(f) ==
  /\ spare > 0 /\ ~waiting
  /\ came' = Append(came, f) /\ spare' = spare - 1
  /\ UNCHANGED <<transmission, waiting, delivered>>

Wait ==
  /\ spare = 0
  /\ waiting' = TRUE
  /\ UNCHANGED <<transmission, came, spare, delivered>>

(* A message for a port may find it full.                                  *)
Handle ==
  /\ came # <<>> /\ hand = NoFrame
  /\ came' = Tail(came)
  /\ LET f == Head(came)
     IN  /\ hand' = IF Asks(f) THEN ArpAnswer(f) ELSE NoFrame
         /\ delivered' \in {delivered} \union (IF Routed(f) THEN {f.payload} ELSE {})
  /\ UNCHANGED <<sending, lent, spare, waiting>>

Recycle ==
  /\ spare + Len(came) < Buffers
  /\ spare' = spare + 1
  /\ UNCHANGED <<transmission, came, waiting, delivered>>

Resume ==
  /\ waiting /\ spare > 0
  /\ waiting' = FALSE
  /\ UNCHANGED <<transmission, came, spare, delivered>>

Next ==
  \/ \E m \in Messages : Take(m)
  \/ Accept \/ Drop \/ Transmit \/ GiveBack
  \/ \E f \in Frames : Come(f)
  \/ Wait \/ Handle \/ Recycle \/ Resume

(* Nothing that was given to the device stays there, and no frame waits for *)
(* a buffer for ever.                                                      *)
Spec == Init /\ [][Next]_vars /\ WF_vars(Transmit) /\ WF_vars(Resume)
================================================================================
