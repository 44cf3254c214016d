------------------------------ MODULE MessageBuffer ------------------------------
(***************************************************************************)
(* What the buffers of libpok promise: messages leave in the order in which *)
(* they were accepted, never more than the buffer holds; a sender waits      *)
(* only while it is full and its message comes in as soon as one leaves; a   *)
(* receiver waits only while it is empty and gets the next message sent.   *)
(***************************************************************************)
EXTENDS WaitingLine

CONSTANTS Buffers, Threads, Priorities, Messages, None, Capacity

VARIABLES byPriority,
          messages,    \* the messages in each buffer
          line,        \* the threads that wait there
          blocked,     \* those that wait, or have waited and are not back yet
          hand         \* the message of each thread that waits to send it, or
                       \* that a thread which waited has been given

vars == <<byPriority, messages, line, blocked, hand>>

Init ==
  /\ byPriority \in [Buffers -> BOOLEAN]
  /\ messages = [b \in Buffers |-> <<>>] /\ line = [b \in Buffers |-> <<>>]
  /\ blocked = {} /\ hand = [t \in Threads |-> None]

Put(b, m) ==
  /\ line[b] = <<>> /\ Len(messages[b]) < Capacity
  /\ messages' = [messages EXCEPT ![b] = Append(@, m)]
  /\ UNCHANGED <<byPriority, line, blocked, hand>>

Give(b, m) ==
  /\ line[b] # <<>> /\ messages[b] = <<>>
  /\ LET t == Head(line[b]).thread IN
       hand[t] = None /\ hand' = [hand EXCEPT ![t] = m]
  /\ line' = [line EXCEPT ![b] = Tail(@)]
  /\ UNCHANGED <<byPriority, messages, blocked>>

Get(b) ==
  /\ line[b] = <<>> /\ messages[b] # <<>>
  /\ messages' = [messages EXCEPT ![b] = Tail(@)]
  /\ UNCHANGED <<byPriority, line, blocked, hand>>

GetAndRefill(b) ==
  /\ line[b] # <<>> /\ Len(messages[b]) = Capacity
  /\ LET t == Head(line[b]).thread IN
       hand[t] # None /\ messages' = [messages EXCEPT ![b] = Append(Tail(@), hand[t])]
  /\ line' = [line EXCEPT ![b] = Tail(@)]
  /\ UNCHANGED <<byPriority, blocked, hand>>

Block(b, t, p) ==
  /\ t \notin blocked /\ blocked' = blocked \union {t}
  /\ line' = [line EXCEPT ![b] = InLine(@, Place(t, p), byPriority[b])]
  /\ \/ messages[b] = <<>> /\ UNCHANGED hand
     \/ Len(messages[b]) = Capacity /\ \E m \in Messages : hand' = [hand EXCEPT ![t] = m]
  /\ UNCHANGED <<byPriority, messages>>

GiveUp(b, t) ==
  /\ Waits(line[b], t)
  /\ line' = [line EXCEPT ![b] = Left(@, t)]
  /\ UNCHANGED <<byPriority, messages, blocked, hand>>

Finish(t) ==
  /\ \A b \in Buffers : ~Waits(line[b], t)
  /\ t \in blocked /\ blocked' = blocked \ {t}
  /\ hand' = [hand EXCEPT ![t] = None]
  /\ UNCHANGED <<byPriority, messages, line>>

Next ==
  \/ \E b \in Buffers :
       \/ Get(b) \/ GetAndRefill(b)
       \/ \E m \in Messages : Put(b, m) \/ Give(b, m)
       \/ \E t \in Threads : GiveUp(b, t) \/ \E p \in Priorities : Block(b, t, p)
  \/ \E t \in Threads : Finish(t)

Spec == Init /\ [][Next]_vars
================================================================================
