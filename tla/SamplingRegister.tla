---------------------------- MODULE SamplingRegister ----------------------------
(***************************************************************************)
(* What a sampling channel between two partitions promises                  *)
(* (kernel/include/core/channel.h): a register that keeps the last message  *)
(* sent until the receiver takes it, and the last message taken until the   *)
(* receiver takes a newer one.  A reception returns a whole message, never  *)
(* an older one than the reception before it, and says whether the message  *)
(* was sent within the refresh period.  Nothing here knows of slots.        *)
(***************************************************************************)
EXTENDS Integers

CONSTANTS Contents,  \* whole messages
          Nothing,   \* no message
          Refresh,   \* refresh period of the receiving port
          MaxTime    \* bound on the system time

VARIABLES unread, \* the last message sent, if the receiver has not taken it
          taken,  \* the last message the receiver took
          now,    \* system time
          result  \* what the last reception returned

vars == <<unread, taken, now, result>>

Init ==
  /\ unread = Nothing /\ taken = Nothing
  /\ now = 0
  /\ result = Nothing

(* A message replaces one that was not taken.                              *)
Send(m) ==
  /\ unread' = [content |-> m, at |-> now]
  /\ UNCHANGED <<taken, now, result>>

Take ==
  /\ unread # Nothing
  /\ taken' = unread /\ unread' = Nothing
  /\ UNCHANGED <<now, result>>

Return ==
  /\ result' = IF taken = Nothing THEN Nothing
               ELSE [content |-> taken.content,
                     valid   |-> taken.at + Refresh >= now]
  /\ UNCHANGED <<unread, taken, now>>

(* A port is created: the sender's forgets the message not yet taken, the   *)
(* receiver's the one it had taken.                                        *)
ForgetSent == unread' = Nothing /\ UNCHANGED <<taken, now, result>>
ForgetTaken == taken' = Nothing /\ UNCHANGED <<unread, now, result>>

Tick == now < MaxTime /\ now' = now + 1 /\ UNCHANGED <<unread, taken, result>>

Next ==
  \/ \E m \in Contents : Send(m)
  \/ Take \/ Return \/ ForgetSent \/ ForgetTaken \/ Tick

Spec == Init /\ [][Next]_vars
================================================================================
