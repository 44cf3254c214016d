-------------------------- MODULE PartitionEventsProofs --------------------------
(***************************************************************************)
(* Proofs about the events of a partition, for any number of ports and of   *)
(* delayed events: the ring and the timer (PartitionEvents), and the list   *)
(* of delayed events by which the timer is set (DelayedEvents).             *)
(*                                                                         *)
(* The list is a linked one that is changed in the middle.  Its invariant   *)
(* (ListInv) is that there is a sequence of distinct events, sorted by their*)
(* times, that the links follow in both directions; the operations replace  *)
(* it by the sequence without an event (Omit) or with one more (Put).        *)
(***************************************************************************)
EXTENDS PartitionEvents, DelayedEvents, FiniteSetTheorems, TLAPS, WellFoundedInduction,
        NaturalsInduction

(* Where the preemption inside the partition is enabled.                   *)
Listening == {"user", "recheck", "again"}

(* The flag preempt_local_disabled follows the code that runs.             *)
FlagFollowsCode == localDisabled <=> pc \notin Listening

EInv == TypeOK /\ FlagFollowsCode /\ NoEventForgotten /\ HandledBeforeUser

(* The ring has at least one place, and its positions wrap inside it.      *)
LEMMA RingPositions ==
  /\ EventMax \in Nat
  /\ 0 \in 0 .. EventMax
  /\ \A pos \in 0 .. EventMax : Advance(pos) \in 0 .. EventMax
<1>1. Cardinality(Ports) \in Nat
  BY EventsAssumption, FS_CardinalityType DEF EventsAssumption
<1>2. EventMax \in Nat
  BY <1>1 DEF EventMax
<1>. QED
  BY <1>2 DEF Advance

(* An event that is added leaves the ring well formed, and is told unless   *)
(* there were others.                                                      *)
LEMMA AddEventType ==
  ASSUME TypeOK, NEW e \in Events, AddEvent(e)
  PROVE  /\ ring' \in [0 .. EventMax -> Events]
         /\ begin' \in 0 .. EventMax /\ end' \in 0 .. EventMax
         /\ isEvent' \in BOOLEAN
  BY RingPositions DEF TypeOK, AddEvent

(* The type invariant holds at first.                                      *)
LEMMA EventsTypeInit == Init => TypeOK
<1>. SUFFICES ASSUME Init PROVE TypeOK
  OBVIOUS
<1>1. ring \in [0 .. EventMax -> Events] /\ taken \in Events
  BY DEF Init, Events
<1>2. 0 \in Times /\ 0 \in 0 .. MaxWaiting
  BY EventsAssumption DEF EventsAssumption, Times
<1>. QED
  BY RingPositions, <1>1, <1>2 DEF Init, TypeOK, Points

(* Steps that only move the code from one point to another.                *)
Moves == TestFlag \/ Switch \/ Recheck \/ LocalEnable \/ Preempt

LEMMA EventsTypeStep ==
  ASSUME TypeOK, [Next]_vars
  PROVE  TypeOK'
<1> USE DEF TypeOK, Step, shared, port
<1>1. 0 \in Times /\ 0 \in 0 .. MaxWaiting
  BY EventsAssumption DEF EventsAssumption, Times
<1>2. CASE Moves
  BY <1>2 DEF Moves, TestFlag, Switch, Recheck, LocalEnable, Preempt, Points
<1>3. CASE Tick
  BY <1>3, EventsAssumption DEF Tick, Times, EventsAssumption
<1>4. CASE Return
  <2>1. /\ ring' \in [0 .. EventMax -> Events]
        /\ begin' \in 0 .. EventMax /\ end' \in 0 .. EventMax
        /\ isEvent' \in BOOLEAN
        /\ timer' \in Times
    BY <1>1, <1>4, AddEventType DEF Return, Events
  <2>2. localDisabled' \in BOOLEAN /\ pc' \in Points
    BY <1>4 DEF Return, Points
  <2>. QED
    BY <1>4, <2>1, <2>2 DEF Return
<1>5. CASE Restart
  BY <1>1, <1>5, RingPositions DEF Restart, Points
<1>6. ASSUME NEW p \in Ports, PortEvent(p)  PROVE TypeOK'
  <2>1. /\ ring' \in [0 .. EventMax -> Events]
        /\ begin' \in 0 .. EventMax /\ end' \in 0 .. EventMax
        /\ isEvent' \in BOOLEAN
    BY <1>6, AddEventType DEF PortEvent, Events
  <2>. QED
    BY <1>6, <2>1 DEF PortEvent
<1>7. ASSUME NEW p \in Ports, Wait(p)  PROVE TypeOK'
  <2>1. waiting' \in [Ports -> 0 .. MaxWaiting]
    BY <1>7, EventsAssumption DEF Wait, EventsAssumption
  <2>2. subscribed' \subseteq Ports
    BY <1>7 DEF Wait
  <2>. QED
    BY <1>7, <2>1, <2>2 DEF Wait
<1>8. CASE SystemCall
  BY <1>8 DEF SystemCall, Points
<1>9. ASSUME NEW e \in Delayed, NEW t \in Times, Delay(e, t)  PROVE TypeOK'
  BY <1>9 DEF Delay
<1>10. CASE ClearFlag
  BY <1>10 DEF ClearFlag, Points
<1>11. CASE Drain
  BY <1>11 DEF Drain, Points
<1>12. CASE Take
  BY <1>12, RingPositions DEF Take, Points
<1>13. CASE Handle
  <2>1. delayed' \in [Delayed -> Times]
    BY <1>13 DEF Handle, Check
  <2>2. waiting' \in [Ports -> 0 .. MaxWaiting] /\ subscribed' \subseteq Ports
    BY <1>13 DEF Handle, Fired, Events
  <2>. QED
    BY <1>13, <2>1, <2>2 DEF Handle, Points
<1>14. CASE SetTimer
  BY <1>14 DEF SetTimer, Points
<1>15. CASE Compare
  <2>1. delayed' \in [Delayed -> Times]
    BY <1>15 DEF Compare, Check
  <2>. QED
    BY <1>15, <2>1 DEF Compare, Points
<1>16. CASE Reset \/ Again \/ Loop
  BY <1>16 DEF Reset, Again, Loop, Points
<1>17. CASE UNCHANGED vars
  BY <1>17 DEF vars
<1>. QED
  BY <1>2, <1>3, <1>4, <1>5, <1>6, <1>7, <1>8, <1>9, <1>10, <1>11, <1>12, <1>13,
     <1>14, <1>15, <1>16, <1>17 DEF Next, Scheduler, Moves

--------------------------------------------------------------------------------
(* The positions of the ring, the times and the counts of processes stay    *)
(* in their ranges, for any number of ports.                               *)
THEOREM EventsTypeCorrect == Spec => []TypeOK
<1>1. Init => TypeOK
  BY EventsTypeInit
<1>2. TypeOK /\ [Next]_vars => TypeOK'
  BY EventsTypeStep
<1>. QED
  BY <1>1, <1>2, PTL DEF Spec

(* The invariants that say how the ring, the flags and the code agree hold  *)
(* at first.                                                               *)
LEMMA EInvInit == Init => EInv
  BY EventsTypeInit
  DEF Init, EInv, FlagFollowsCode, Listening, NoEventForgotten, HandledBeforeUser

(* They are preserved by every step.                                       *)
LEMMA EInvStep ==
  ASSUME EInv, [Next]_vars
  PROVE  EInv'
<1>0. TypeOK /\ TypeOK'
  BY EventsTypeStep DEF EInv
<1>. SUFFICES (FlagFollowsCode /\ NoEventForgotten /\ HandledBeforeUser)'
  BY <1>0 DEF EInv
<1> USE DEF EInv, FlagFollowsCode, Listening, NoEventForgotten, HandledBeforeUser,
            Step, shared, port
<1>1. CASE Moves
  BY <1>1 DEF Moves, TestFlag, Switch, Recheck, LocalEnable, Preempt
<1>2. CASE Tick
  BY <1>2 DEF Tick
<1>3. CASE Return
  <2>1. NoEventForgotten'
    BY <1>3 DEF Return, AddEvent
  <2>2. FlagFollowsCode'
    BY <1>3 DEF Return
  <2>3. HandledBeforeUser'
    BY <1>3, <2>1 DEF Return
  <2>. QED
    BY <2>1, <2>2, <2>3
<1>4. CASE Restart
  BY <1>4 DEF Restart
<1>5. ASSUME NEW p \in Ports, PortEvent(p)
      PROVE  (FlagFollowsCode /\ NoEventForgotten /\ HandledBeforeUser)'
  BY <1>5 DEF PortEvent, AddEvent
<1>6. ASSUME NEW p \in Ports, Wait(p)
      PROVE  (FlagFollowsCode /\ NoEventForgotten /\ HandledBeforeUser)'
  BY <1>6 DEF Wait
<1>7. CASE SystemCall
  BY <1>7 DEF SystemCall
<1>8. ASSUME NEW e \in Delayed, NEW t \in Times, Delay(e, t)
      PROVE  (FlagFollowsCode /\ NoEventForgotten /\ HandledBeforeUser)'
  BY <1>8 DEF Delay
<1>9. CASE ClearFlag \/ Drain \/ Take
  BY <1>9 DEF ClearFlag, Drain, Take
<1>10. CASE Handle
  BY <1>10 DEF Handle
<1>11. CASE SetTimer
  BY <1>11 DEF SetTimer
<1>12. CASE Compare
  BY <1>12 DEF Compare
<1>13. CASE Reset \/ Again
  BY <1>13 DEF Reset, Again
<1>14. CASE Loop
  BY <1>14 DEF Loop
<1>15. CASE UNCHANGED vars
  BY <1>15 DEF vars
<1>. QED
  BY <1>1, <1>2, <1>3, <1>4, <1>5, <1>6, <1>7, <1>8, <1>9, <1>10, <1>11, <1>12,
     <1>13, <1>14, <1>15 DEF Next, Scheduler, Moves

(* No event is forgotten, wherever the code of the partition is interrupted.*)
THEOREM EventsNeverForgotten == Spec => []NoEventForgotten
<1>1. Spec => []EInv
  BY EInvInit, EInvStep, PTL DEF Spec
<1>. QED
  BY <1>1, PTL DEF EInv

(* No code of a process runs while an event waits: the second look of       *)
(* pok_preemption_local_enable closes the window before it.                *)
THEOREM EventsHandledFirst == Spec => []HandledBeforeUser
<1>1. Spec => []EInv
  BY EInvInit, EInvStep, PTL DEF Spec
<1>. QED
  BY <1>1, PTL DEF EInv

--------------------------------------------------------------------------------
(* The positions of the ring that hold events, and how many there are.     *)
Held(b, e) ==
  {j \in 0 .. EventMax : IF b <= e THEN b <= j /\ j < e ELSE b <= j \/ j < e}

Count(b, e) == IF b <= e THEN e - b ELSE e - b + EventMax + 1

(* A ring with room holds one position more after an addition,             *)
LEMMA HeldAdd ==
  ASSUME NEW b \in 0 .. EventMax, NEW e \in 0 .. EventMax, Count(b, e) < EventMax
  PROVE  /\ Held(b, Advance(e)) = Held(b, e) \union {e}
         /\ e \notin Held(b, e)
         /\ Count(b, Advance(e)) = Count(b, e) + 1
BY RingPositions DEF Held, Count, Advance

(* and one that is not empty holds one less after an extraction.           *)
LEMMA HeldTake ==
  ASSUME NEW b \in 0 .. EventMax, NEW e \in 0 .. EventMax, b # e
  PROVE  /\ Held(Advance(b), e) = Held(b, e) \ {b}
         /\ b \in Held(b, e)
         /\ Count(Advance(b), e) = Count(b, e) - 1
BY RingPositions DEF Held, Count, Advance

LEMMA HeldNone ==
  ASSUME NEW b \in 0 .. EventMax
  PROVE  Held(b, b) = {} /\ Count(b, b) = 0
BY RingPositions DEF Held, Count

--------------------------------------------------------------------------------
PortsPending == Pending \intersect Ports
Armed == IF timer # 0 THEN 1 ELSE 0
TimersPending == RingCount - Cardinality(PortsPending)

(* Each port has at most one event in the ring, and none while it is        *)
(* subscribed or while its event is being handled.                         *)
Unique ==
  \A i, j \in Held(begin, end) : ring[i] = ring[j] /\ ring[i] \in Ports => i = j

Unsubscribed == PortsPending \intersect subscribed = {}

BeingHandled ==
  pc = "handle" /\ taken \in Ports => taken \notin subscribed /\ taken \notin Pending

(* Two timer events at most, with the one that the timer may still send; one *)
(* when the timer is about to be set again.                                *)
TimerSlots ==
  /\ TimersPending + Armed <= 2
  /\ pc = "timer" => TimersPending + Armed <= 1

TakesOne == pc = "take" => begin # end

RInv == EInv /\ Unique /\ Unsubscribed /\ BeingHandled /\ TimerSlots /\ TakesOne

(* The events pending are those at the positions held.                     *)
LEMMA PendingHeld ==
  /\ Pending = {ring[i] : i \in Held(begin, end)}
  /\ RingCount = Count(begin, end)
BY DEF Pending, Held, RingCount, Count

LEMMA PortsFinite ==
  ASSUME NEW S, S \subseteq Ports
  PROVE  IsFiniteSet(S) /\ Cardinality(S) \in Nat /\ Cardinality(S) <= Cardinality(Ports)
         /\ Cardinality(Ports) \in Nat
BY EventsAssumption, FS_Subset, FS_CardinalityType DEF EventsAssumption

(* The invariants leave room for whatever may come.                        *)
LEMMA RoomLeft ==
  ASSUME RInv
  PROVE  RingHasRoom
<1>1. PortsPending \subseteq Ports /\ subscribed \subseteq Ports
  BY DEF PortsPending, RInv, EInv, TypeOK
<1>2. Cardinality(PortsPending \union subscribed)
        = Cardinality(PortsPending) + Cardinality(subscribed)
  <2>1. IsFiniteSet(PortsPending) /\ IsFiniteSet(subscribed)
    BY <1>1, PortsFinite
  <2>2. Cardinality(PortsPending \intersect subscribed) = 0
    BY FS_EmptySet DEF RInv, Unsubscribed
  <2>3. Cardinality(PortsPending \union subscribed)
          = Cardinality(PortsPending) + Cardinality(subscribed)
              - Cardinality(PortsPending \intersect subscribed)
    BY <2>1, FS_Union
  <2>4. Cardinality(PortsPending) \in Nat /\ Cardinality(subscribed) \in Nat
    BY <1>1, PortsFinite
  <2>. QED
    BY <2>2, <2>3, <2>4
<1>3. Cardinality(PortsPending \union subscribed) <= Cardinality(Ports)
  BY <1>1, PortsFinite
<1>4. RingCount \in Int
  BY RingPositions DEF RingCount, RInv, EInv, TypeOK
<1>5. RingCount - Cardinality(PortsPending) + Armed <= 2
  BY DEF RInv, TimerSlots, TimersPending
<1>. QED
  BY <1>1, <1>2, <1>3, <1>4, <1>5, PortsFinite DEF RingHasRoom, Armed, EventMax

(* What an addition does to the events of a ring with room.                *)
LEMMA AddEffect ==
  ASSUME TypeOK, NEW e \in Events, AddEvent(e), RingCount < EventMax
  PROVE  /\ Pending' = Pending \union {e}
         /\ RingCount' = RingCount + 1
         /\ Unique /\ (e \in Ports => e \notin Pending) => Unique'
<1>1. /\ begin' = begin /\ end' = Advance(end)
      /\ ring' = [ring EXCEPT ![end] = e]
      /\ begin \in 0 .. EventMax /\ end \in 0 .. EventMax
      /\ ring \in [0 .. EventMax -> Events]
  BY DEF AddEvent, TypeOK
<1>2. /\ Held(begin, end)' = Held(begin, end) \union {end}
      /\ end \notin Held(begin, end)
      /\ Count(begin, end)' = Count(begin, end) + 1
  <2>1. Count(begin, end) < EventMax
    BY PendingHeld
  <2>2. /\ Held(begin, end)' = Held(begin, Advance(end))
        /\ Count(begin, end)' = Count(begin, Advance(end))
    BY <1>1 DEF Held, Count
  <2>. QED
    BY <1>1, <2>1, <2>2, HeldAdd
<1>3. \A i \in Held(begin, end) : i \in 0 .. EventMax /\ i # end /\ ring'[i] = ring[i]
  BY <1>1, <1>2 DEF Held
<1>4. ring'[end] = e
  BY <1>1
<1>5. Pending' = {ring'[i] : i \in Held(begin, end)'} /\ RingCount' = Count(begin, end)'
  BY DEF Pending, Held, RingCount, Count
<1>6. Pending' = Pending \union {e}
  BY <1>2, <1>3, <1>4, <1>5, PendingHeld
<1>7. ASSUME Unique, e \in Ports => e \notin Pending
      PROVE  Unique'
  <2>. SUFFICES ASSUME NEW i \in Held(begin, end)', NEW j \in Held(begin, end)',
                       ring'[i] = ring'[j], ring'[i] \in Ports
                PROVE  i = j
    BY DEF Unique
  <2>1. CASE i # end /\ j # end
    BY <1>2, <1>3, <1>7, <2>1 DEF Unique
  <2>2. CASE i = end /\ j # end
    BY <1>2, <1>3, <1>4, <1>7, <2>2, PendingHeld
  <2>3. CASE i # end /\ j = end
    BY <1>2, <1>3, <1>4, <1>7, <2>3, PendingHeld
  <2>. QED
    BY <2>1, <2>2, <2>3
<1>. QED
  BY <1>2, <1>5, <1>6, <1>7, PendingHeld

LEMMA AddNotFull ==
  ASSUME TypeOK, NEW e \in Events, AddEvent(e), RingCount < EventMax
  PROVE  begin' # end'
BY RingPositions DEF AddEvent, TypeOK, Advance, RingCount

(* What an extraction does to the events of a ring.                        *)
LEMMA TakeEffect ==
  ASSUME TypeOK, Unique, begin # end, Take
  PROVE  /\ RingCount' = RingCount - 1
         /\ taken' \in Pending /\ Pending' \subseteq Pending
         /\ taken' \in Ports => Pending' = Pending \ {taken'}
         /\ taken' \notin Ports => PortsPending' = PortsPending
         /\ Unique'
<1>1. /\ begin' = Advance(begin) /\ end' = end /\ ring' = ring /\ taken' = ring[begin]
      /\ begin \in 0 .. EventMax /\ end \in 0 .. EventMax
  BY DEF Take, TypeOK
<1>2. /\ Held(begin, end)' = Held(begin, end) \ {begin}
      /\ begin \in Held(begin, end)
      /\ Count(begin, end)' = Count(begin, end) - 1
  <2>1. /\ Held(begin, end)' = Held(Advance(begin), end)
        /\ Count(begin, end)' = Count(Advance(begin), end)
    BY <1>1 DEF Held, Count
  <2>. QED
    BY <1>1, <2>1, HeldTake
<1>3. Pending' = {ring[i] : i \in Held(begin, end)'} /\ RingCount' = Count(begin, end)'
  BY <1>1 DEF Pending, Held, RingCount, Count
<1>4. taken' \in Pending /\ Pending' \subseteq Pending
  BY <1>1, <1>2, <1>3, PendingHeld
<1>5. Pending \ {taken'} \subseteq Pending'
  BY <1>1, <1>2, <1>3, PendingHeld
<1>6. taken' \in Ports => taken' \notin Pending'
  BY <1>1, <1>2, <1>3 DEF Unique
<1>7. Unique'
  BY <1>1, <1>2 DEF Unique
<1>. QED
  BY <1>2, <1>3, <1>4, <1>5, <1>6, <1>7, PendingHeld DEF PortsPending

LEMMA SumBound ==
  \A x, y, u, v, max \in Int : u <= x /\ v <= y /\ x + y <= max => u + v <= max
OBVIOUS

(* The steps that leave the ring, the timer and the subscriptions alone.   *)
LEMMA RingUnchanged ==
  ASSUME UNCHANGED <<ring, begin, end, timer, subscribed>>
  PROVE  /\ Pending' = Pending /\ PortsPending' = PortsPending
         /\ TimersPending' = TimersPending /\ Armed' = Armed
         /\ Unique => Unique'
BY DEF Pending, PortsPending, TimersPending, RingCount, Armed, Unique, Held

(* An event of a port takes one of the places of the ports.                *)
LEMMA PortAdded ==
  ASSUME TypeOK, NEW p \in Ports, AddEvent(p), RingCount < EventMax, p \notin Pending
  PROVE  PortsPending' = PortsPending \union {p} /\ TimersPending' = TimersPending
<1>1. Pending' = Pending \union {p} /\ RingCount' = RingCount + 1
  BY AddEffect DEF Events
<1>2. PortsPending' = PortsPending \union {p} /\ p \notin PortsPending
  BY <1>1 DEF PortsPending
<1>3. PortsPending \subseteq Ports
  BY DEF PortsPending
<1>4. Cardinality(PortsPending') = Cardinality(PortsPending) + 1
  BY <1>2, <1>3, PortsFinite, FS_AddElement
<1>5. RingCount \in Int /\ Cardinality(PortsPending) \in Nat
  BY <1>3, PortsFinite, RingPositions DEF RingCount, TypeOK
<1>. QED
  BY <1>1, <1>2, <1>4, <1>5 DEF TimersPending

(* A timer event takes one of the others.                                  *)
LEMMA TimerAdded ==
  ASSUME TypeOK, AddEvent(TimerEvent), RingCount < EventMax
  PROVE  PortsPending' = PortsPending /\ TimersPending' = TimersPending + 1
<1>1. Pending' = Pending \union {TimerEvent} /\ RingCount' = RingCount + 1
  BY AddEffect DEF Events
<1>2. PortsPending' = PortsPending
  BY <1>1, EventsAssumption DEF PortsPending, EventsAssumption
<1>3. RingCount \in Int /\ Cardinality(PortsPending) \in Nat
  BY PortsFinite, RingPositions DEF RingCount, TypeOK, PortsPending
<1>. QED
  BY <1>1, <1>2, <1>3 DEF TimersPending

(* An event that is taken gives its place back.                            *)
LEMMA EventTaken ==
  ASSUME TypeOK, Unique, begin # end, Take
  PROVE  PortsPending' \subseteq PortsPending /\ TimersPending' <= TimersPending
<1>1. /\ RingCount' = RingCount - 1
      /\ taken' \in Pending /\ Pending' \subseteq Pending
      /\ taken' \in Ports => Pending' = Pending \ {taken'}
      /\ taken' \notin Ports => PortsPending' = PortsPending
  BY TakeEffect
<1>2. PortsPending \subseteq Ports /\ PortsPending' \subseteq PortsPending
  BY <1>1 DEF PortsPending
<1>3. RingCount \in Int /\ Cardinality(PortsPending) \in Nat
  BY <1>2, PortsFinite, RingPositions DEF RingCount, TypeOK
<1>4. CASE taken' \in Ports
  <2>1. PortsPending' = PortsPending \ {taken'} /\ taken' \in PortsPending
    BY <1>1, <1>4 DEF PortsPending
  <2>2. Cardinality(PortsPending') = Cardinality(PortsPending) - 1
    BY <1>2, <2>1, PortsFinite, FS_RemoveElement
  <2>. QED
    BY <1>1, <1>2, <1>3, <2>2 DEF TimersPending
<1>5. CASE taken' \notin Ports
  BY <1>1, <1>2, <1>3, <1>5 DEF TimersPending
<1>. QED
  BY <1>4, <1>5

(* An empty ring holds no event.                                           *)
LEMMA RingEmpty ==
  ASSUME TypeOK, begin = end
  PROVE  Pending = {} /\ PortsPending = {} /\ TimersPending = 0 /\ Unique
<1>1. Pending = {} /\ RingCount = 0 /\ Unique
  BY HeldNone, PendingHeld DEF TypeOK, Unique
<1>2. PortsPending = {} /\ Cardinality({}) = 0
  BY <1>1, FS_EmptySet DEF PortsPending
<1>. QED
  BY <1>1, <1>2 DEF TimersPending

Room == Unique /\ Unsubscribed /\ BeingHandled /\ TimerSlots /\ TakesOne

LEMMA RingKept ==
  ASSUME RInv, UNCHANGED <<ring, begin, end, timer, subscribed>>,
         UNCHANGED <<pc, taken>> \/ pc' \notin {"timer", "handle", "take"}
  PROVE  Room'
BY RingUnchanged
DEF RInv, Room, Unsubscribed, BeingHandled, TimerSlots, TakesOne

LEMMA RInvStep ==
  ASSUME RInv, [Next]_vars
  PROVE  RInv'
<1>1. EInv'
  BY EInvStep DEF RInv
<1>2. TypeOK /\ RingHasRoom /\ EInv
  BY RoomLeft DEF RInv, EInv
<1>. SUFFICES Room'
  BY <1>1 DEF RInv, Room
<1>3. RingCount \in Int /\ Cardinality(subscribed) \in Nat /\ TimersPending \in Int
  <2>1. RingCount \in Int
    BY <1>2, RingPositions DEF RingCount, TypeOK
  <2>2. PortsPending \subseteq Ports /\ subscribed \subseteq Ports
    BY <1>2 DEF PortsPending, TypeOK
  <2>3. Cardinality(PortsPending) \in Nat /\ Cardinality(subscribed) \in Nat
    BY <2>2, PortsFinite
  <2>. QED
    BY <2>1, <2>3 DEF TimersPending
<1>4. CASE LocalEnable \/ Switch \/ Recheck \/ Preempt
  <2>1. UNCHANGED <<ring, begin, end, timer, subscribed>>
    BY <1>4 DEF LocalEnable, Switch, Recheck, Preempt, Step, shared, port
  <2>2. UNCHANGED <<pc, taken>> \/ pc' \notin {"timer", "handle", "take"}
    BY <1>4 DEF LocalEnable, Switch, Recheck, Preempt, Step
  <2>. QED
    BY <2>1, <2>2, RingKept
<1>5. CASE TestFlag
  <2>1. CASE isEvent
    BY <1>5, <2>1, RingKept DEF TestFlag, Step, shared, port
  <2>2. CASE ~isEvent
    <3>1. begin = end
      BY <1>2, <1>5, <2>2 DEF TestFlag, Step, EInv, NoEventForgotten
    <3>2. /\ UNCHANGED <<ring, begin, end, timer, subscribed>>
          /\ pc' = "timer"
      BY <1>5, <2>2 DEF TestFlag, Step, shared, port
    <3>3. TimersPending = 0 /\ Armed \in {0, 1}
      BY <1>2, <3>1, RingEmpty DEF Armed
    <3>. QED
      BY <3>2, <3>3, RingUnchanged
      DEF RInv, Room, Unsubscribed, BeingHandled, TimerSlots, TakesOne
  <2>. QED
    BY <2>1, <2>2
<1>6. CASE Tick
  BY <1>6, RingKept DEF Tick, shared, port
<1>7. CASE Return
  <2>1. CASE TimerExpired
    <3>1. /\ AddEvent(TimerEvent) /\ Armed = 1 /\ Armed' = 0
          /\ subscribed' = subscribed /\ taken' = taken
          /\ pc' \in {pc, "test"}
      BY <1>7, <2>1 DEF Return, TimerExpired, Armed, port
    <3>2. RingCount < EventMax
      BY <1>2, <1>3, <3>1, RingPositions DEF RingHasRoom, Armed
    <3>3. /\ Pending' = Pending \union {TimerEvent} /\ Unique'
          /\ PortsPending' = PortsPending /\ TimersPending' = TimersPending + 1
      BY <1>2, <3>1, <3>2, AddEffect, TimerAdded, EventsAssumption
      DEF Events, RInv, EventsAssumption
    <3>4. Unsubscribed' /\ BeingHandled'
      BY <3>1, <3>3, EventsAssumption
      DEF RInv, Unsubscribed, BeingHandled, EventsAssumption
    <3>5. TimerSlots'
      BY <1>3, <3>1, <3>3 DEF RInv, TimerSlots
    <3>6. TakesOne'
      BY <1>2, <3>1, <3>2, AddNotFull DEF TakesOne, Events
    <3>. QED
      BY <3>3, <3>4, <3>5, <3>6 DEF Room
  <2>2. CASE ~TimerExpired
    BY <1>7, <2>2, RingKept DEF Return, shared, port
  <2>. QED
    BY <2>1, <2>2
<1>8. CASE Restart
  <2>1. TypeOK' /\ begin' = end' /\ pc' = "loop" /\ subscribed' = {} /\ timer' = timer
    BY <1>1, <1>8 DEF Restart, EInv
  <2>2. Pending' = {} /\ PortsPending' = {} /\ TimersPending' = 0 /\ Unique'
    <3>1. (TypeOK /\ begin = end => Pending = {} /\ PortsPending = {}
                                      /\ TimersPending = 0 /\ Unique)'
      BY RingEmpty, PTL
    <3>. QED
      BY <2>1, <3>1
  <2>. QED
    BY <2>1, <2>2 DEF Room, Unsubscribed, BeingHandled, TimerSlots, TakesOne, Armed
<1>9. ASSUME NEW p \in Ports, PortEvent(p)  PROVE Room'
  <2>1. /\ p \in subscribed /\ subscribed' = subscribed \ {p} /\ AddEvent(p)
        /\ timer' = timer /\ pc' = pc /\ taken' = taken
    BY <1>9 DEF PortEvent
  <2>2. Cardinality(subscribed) >= 1
    <3>1. IsFiniteSet(subscribed)
      BY <1>2, PortsFinite DEF TypeOK
    <3>2. Cardinality(subscribed) # 0
      BY <2>1, <3>1, FS_EmptySet
    <3>. QED
      BY <1>3, <3>2
  <2>3. RingCount < EventMax
    <3>1. RingCount + Cardinality(subscribed) + Armed <= EventMax /\ Armed \in {0, 1}
      BY <1>2 DEF RingHasRoom, Armed
    <3>. QED
      BY <1>3, <2>2, <3>1, RingPositions
  <2>4. p \notin Pending
    BY <2>1 DEF RInv, Unsubscribed, PortsPending
  <2>5. /\ Pending' = Pending \union {p} /\ Unique' /\ begin' # end'
        /\ PortsPending' = PortsPending \union {p} /\ TimersPending' = TimersPending
    BY <1>2, <2>1, <2>3, <2>4, AddEffect, AddNotFull, PortAdded DEF Events, RInv
  <2>6. Unsubscribed' /\ BeingHandled'
    BY <2>1, <2>5 DEF RInv, Unsubscribed, BeingHandled
  <2>7. TimerSlots' /\ TakesOne'
    BY <2>1, <2>5 DEF RInv, TimerSlots, TakesOne, Armed
  <2>. QED
    BY <2>5, <2>6, <2>7 DEF Room
<1>10. ASSUME NEW p \in Ports, Wait(p)  PROVE Room'
  <2>1. /\ UNCHANGED <<ring, begin, end, timer>> /\ pc' = "kernel"
        /\ subscribed' = subscribed \/ (p \notin Pending /\ subscribed' = subscribed \union {p})
    BY <1>10 DEF Wait, Step, shared
  <2>2. /\ Pending' = Pending /\ PortsPending' = PortsPending
        /\ TimersPending' = TimersPending /\ Armed' = Armed /\ Unique'
    BY <2>1 DEF Pending, PortsPending, TimersPending, RingCount, Armed, Unique, Held, RInv
  <2>. QED
    BY <2>1, <2>2
    DEF RInv, Room, Unsubscribed, BeingHandled, TimerSlots, TakesOne, PortsPending
<1>11. CASE SystemCall \/ \E e \in Delayed, t \in Times : Delay(e, t)
  BY <1>11, RingKept DEF SystemCall, Delay, Step, shared, port
<1>12. CASE ClearFlag
  BY <1>12, RingKept DEF ClearFlag, Step, port
<1>13. CASE Drain
  <2>1. UNCHANGED <<ring, begin, end, timer, subscribed>>
    BY <1>13 DEF Drain, shared, port
  <2>2. /\ Unique' /\ Unsubscribed' /\ BeingHandled' /\ TakesOne'
        /\ TimersPending' = TimersPending /\ Armed' = Armed
    BY <1>13, <2>1, RingUnchanged
    DEF Drain, Step, RInv, Unsubscribed, BeingHandled, TakesOne
  <2>3. begin = end => TimersPending = 0
    BY <1>2, RingEmpty
  <2>4. pc' = "timer" => begin = end
    BY <1>13 DEF Drain, Step
  <2>5. TimerSlots'
    BY <1>3, <2>2, <2>3, <2>4 DEF RInv, TimerSlots, Armed
  <2>. QED
    BY <2>2, <2>5 DEF Room
<1>14. CASE Take
  <2>1. /\ begin # end /\ subscribed' = subscribed /\ timer' = timer /\ pc' = "handle"
    BY <1>14 DEF Take, Step, RInv, TakesOne, port
  <2>2. /\ taken' \in Pending /\ Pending' \subseteq Pending
        /\ taken' \in Ports => Pending' = Pending \ {taken'}
        /\ Unique'
        /\ PortsPending' \subseteq PortsPending /\ TimersPending' <= TimersPending
    BY <1>2, <1>14, <2>1, TakeEffect, EventTaken DEF RInv
  <2>3. TimersPending' \in Int
    <3>1. begin' \in 0 .. EventMax /\ end' \in 0 .. EventMax
      BY <1>1 DEF EInv, TypeOK
    <3>3. EventMax' = EventMax
      BY DEF EventMax
    <3>4. RingCount' \in Int
      BY <3>1, <3>3, RingPositions DEF RingCount
    <3>2. Cardinality(PortsPending') \in Nat
      BY <2>2, PortsFinite DEF PortsPending
    <3>. QED
      BY <3>2, <3>4 DEF TimersPending
  <2>6. Armed' = Armed /\ Armed \in {0, 1}
    BY <2>1 DEF Armed
  <2>7. TimersPending + Armed <= 2
    BY DEF RInv, TimerSlots
  <2>8. TimersPending' + Armed' <= 2
    <3>1. Armed' \in Int /\ Armed' <= Armed /\ Armed \in Int /\ 2 \in Int
      BY <2>6
    <3>. QED
      BY <1>3, <2>2, <2>3, <2>7, <3>1, SumBound, Zenon
  <2>4. TimerSlots' /\ TakesOne'
    BY <2>1, <2>8 DEF TimerSlots, TakesOne
  <2>5. Unsubscribed' /\ BeingHandled'
    BY <2>1, <2>2 DEF RInv, Unsubscribed, BeingHandled, PortsPending
  <2>. QED
    BY <2>2, <2>4, <2>5 DEF Room
<1>15. CASE Handle
  <2>1. /\ UNCHANGED <<ring, begin, end, timer>> /\ pc = "handle" /\ pc' = "drain"
        /\ \/ subscribed' = subscribed
           \/ taken \in Ports /\ subscribed' = subscribed \union {taken}
    BY <1>2, <1>15 DEF Handle, Fired, Step, shared, port, TypeOK, Events
  <2>2. /\ Pending' = Pending /\ PortsPending' = PortsPending
        /\ TimersPending' = TimersPending /\ Armed' = Armed /\ Unique'
    BY <2>1 DEF Pending, PortsPending, TimersPending, RingCount, Armed, Unique, Held, RInv
  <2>. QED
    BY <2>1, <2>2
    DEF RInv, Room, Unsubscribed, BeingHandled, TimerSlots, TakesOne, PortsPending
<1>16. CASE SetTimer
  <2>1. /\ UNCHANGED <<ring, begin, end, subscribed>> /\ pc = "timer"
        /\ pc' \in {"switch", "compare"}
    BY <1>16 DEF SetTimer, Step, port
  <2>2. /\ Pending' = Pending /\ PortsPending' = PortsPending
        /\ TimersPending' = TimersPending /\ Unique'
    BY <2>1 DEF Pending, PortsPending, TimersPending, RingCount, Unique, Held, RInv
  <2>3. TimersPending <= 1 /\ Armed' \in {0, 1}
    <3>1. TimersPending + Armed <= 1 /\ Armed \in {0, 1} /\ Armed' \in {0, 1}
      BY <2>1 DEF RInv, TimerSlots, Armed
    <3>. QED
      BY <1>3, <3>1
  <2>4. TimersPending' + Armed' <= 2
    <3>1. Armed' \in Int /\ Armed' <= 1 /\ TimersPending' \in Int /\ TimersPending' <= 1
      BY <1>3, <2>2, <2>3
    <3>2. 1 \in Int /\ 2 \in Int /\ 1 + 1 <= 2
      OBVIOUS
    <3>. QED
      BY <3>1, <3>2, SumBound, Zenon
  <2>5. TimerSlots' /\ TakesOne' /\ BeingHandled'
    BY <2>1, <2>4 DEF TimerSlots, TakesOne, BeingHandled
  <2>6. Unsubscribed'
    BY <2>1, <2>2 DEF RInv, Unsubscribed
  <2>. QED
    BY <2>2, <2>5, <2>6 DEF Room
<1>17. CASE Compare
  BY <1>17, RingKept DEF Compare, Step, shared, port
<1>18. CASE Reset \/ Again \/ Loop
  BY <1>18, RingKept DEF Reset, Again, Loop, Step, shared, port
<1>19. CASE UNCHANGED vars
  BY <1>19, RingKept DEF vars, shared, port
<1>. QED
  BY <1>4, <1>5, <1>6, <1>7, <1>8, <1>9, <1>10, <1>11, <1>12, <1>13, <1>14, <1>15,
     <1>16, <1>17, <1>18, <1>19 DEF Next, Scheduler

LEMMA RInvInit == Init => RInv
<1>. SUFFICES ASSUME Init PROVE RInv
  OBVIOUS
<1>1. TypeOK /\ EInv /\ begin = end /\ subscribed = {} /\ timer = 0 /\ pc = "loop"
  BY EInvInit DEF EInv, Init
<1>2. PortsPending = {} /\ TimersPending = 0 /\ Unique
  BY <1>1, RingEmpty
<1>. QED
  BY <1>1, <1>2
  DEF RInv, Unsubscribed, BeingHandled, TimerSlots, TakesOne, Armed

(* The ring never overflows: the two places for timer events, and one for   *)
(* each port, are enough wherever the partition is interrupted.            *)
THEOREM RingNeverOverflows == Spec => []RingHasRoom
<1>1. Init => RInv
  BY RInvInit
<1>2. RInv /\ [Next]_vars => RInv'
  BY RInvStep
<1>3. RInv => RingHasRoom
  BY RoomLeft
<1>. QED
  BY <1>1, <1>2, <1>3, PTL DEF Spec

--------------------------------------------------------------------------------
(* The timer is right, or its event is in the ring, from the moment it is   *)
(* set until a process goes on.                                            *)
Covered == IsCheckTime(0) \/ IsCheckTime(timer) \/ TimerEvent \in Pending

CInv ==
  pc \in {"compare", "switch", "reset", "loop", "user", "recheck", "again"} => Covered

(* What is covered stays so while the delayed events do not change and the  *)
(* ring only grows.                                                        *)
LEMMA StaysCovered ==
  ASSUME Covered, UNCHANGED <<delayed, timer>>, Pending \subseteq Pending'
  PROVE  Covered'
BY DEF Covered, IsCheckTime

LEMMA CoveredUnchanged ==
  ASSUME Covered, UNCHANGED <<delayed, ring, begin, end, timer>>
  PROVE  Covered'
<1>1. Pending' = Pending
  BY DEF Pending
<1>. QED
  BY <1>1, StaysCovered

LEMMA CInvStep ==
  ASSUME RInv, CInv, [Next]_vars
  PROVE  CInv'
<1>1. TypeOK /\ RingHasRoom
  BY RoomLeft DEF RInv, EInv
<1>2. RingCount \in Int /\ Cardinality(subscribed) \in Nat
      /\ IsFiniteSet(subscribed)
  BY <1>1, PortsFinite, RingPositions DEF RingCount, TypeOK
<1>3. \/ UNCHANGED vars \/ Preempt \/ Tick \/ Return \/ Restart
      \/ (\E p \in Ports : PortEvent(p)) \/ (\E p \in Ports : Wait(p))
      \/ SystemCall \/ LocalEnable \/ (\E e \in Delayed, t \in Times : Delay(e, t))
      \/ TestFlag \/ ClearFlag \/ Drain \/ Take \/ Handle \/ SetTimer \/ Compare
      \/ Switch \/ Reset \/ Recheck \/ Again \/ Loop
  BY DEF Next, Scheduler
<1>4. CASE UNCHANGED vars \/ Preempt \/ Tick
  BY <1>4, CoveredUnchanged DEF vars, shared, Preempt, Tick, CInv
<1>5. CASE Return
  <2>1. CASE TimerExpired
    <3>1. AddEvent(TimerEvent) /\ TimerEvent \in Events /\ timer # 0
      BY <1>5, <2>1 DEF Return, TimerExpired, Events
    <3>2. RingCount < EventMax
      BY <1>1, <1>2, <3>1, RingPositions DEF RingHasRoom
    <3>3. TimerEvent \in Pending'
      BY <1>1, <3>1, <3>2, AddEffect
    <3>. QED
      BY <3>3 DEF CInv, Covered
  <2>2. CASE ~TimerExpired
    <3>1. UNCHANGED <<delayed, ring, begin, end, timer>> /\ (pc' = pc \/ pc' = "test")
      BY <1>5, <2>2 DEF Return, shared
    <3>. QED
      BY <3>1, CoveredUnchanged DEF CInv
  <2>. QED
    BY <2>1, <2>2
<1>6. CASE Restart
  <2>1. \A e \in Delayed : delayed'[e] = 0
    BY <1>6 DEF Restart
  <2>2. {delayed'[e] : e \in Delayed} \ {0} = {}
    BY <2>1
  <2>3. IsCheckTime(0)'
    BY <2>2 DEF IsCheckTime
  <2>. QED
    BY <2>3 DEF CInv, Covered, IsCheckTime
<1>7. CASE \E p \in Ports : PortEvent(p)
  <2>1. PICK p \in Ports : PortEvent(p)
    BY <1>7
  <2>2. AddEvent(p) /\ p \in Events /\ UNCHANGED <<delayed, timer, pc>>
    BY <2>1 DEF PortEvent, Events
  <2>3. Cardinality(subscribed) # 0
    BY <1>2, <2>1, FS_EmptySet DEF PortEvent
  <2>4. RingCount < EventMax
    <3>1. CASE timer = 0
      BY <1>1, <1>2, <2>3, <3>1, RingPositions DEF RingHasRoom
    <3>2. CASE timer # 0
      BY <1>1, <1>2, <2>3, <3>2, RingPositions DEF RingHasRoom
    <3>. QED
      BY <3>1, <3>2
  <2>5. Pending \subseteq Pending'
    BY <1>1, <2>2, <2>4, AddEffect
  <2>. QED
    BY <2>2, <2>5, StaysCovered DEF CInv
<1>8. CASE (\E p \in Ports : Wait(p)) \/ SystemCall \/ LocalEnable
           \/ (\E e \in Delayed, t \in Times : Delay(e, t))
           \/ TestFlag \/ ClearFlag \/ Drain \/ Take \/ Handle
  BY <1>8 DEF CInv, Wait, SystemCall, LocalEnable, Delay, TestFlag, ClearFlag, Drain,
     Take, Handle, Step
<1>9. CASE SetTimer
  BY <1>9 DEF SetTimer, CInv, Covered, IsCheckTime
<1>10. CASE Compare
  <2>1. CASE pc' = "test"
    BY <2>1 DEF CInv
  <2>2. CASE pc' # "test"
    <3>1. UNCHANGED <<delayed, ring, begin, end, timer>> /\ pc = "compare"
      BY <1>10, <2>2 DEF Compare, Step, shared
    <3>. QED
      BY <3>1, CoveredUnchanged DEF CInv
  <2>. QED
    BY <2>1, <2>2
<1>11. CASE Switch \/ Reset \/ Recheck \/ Again \/ Loop
  <2>1. UNCHANGED <<delayed, ring, begin, end, timer>>
        /\ pc \in {"switch", "reset", "recheck", "again", "loop"}
    BY <1>11 DEF Switch, Reset, Recheck, Again, Loop, Step, shared
  <2>. QED
    BY <2>1, CoveredUnchanged DEF CInv
<1>. QED
  BY <1>3, <1>4, <1>5, <1>6, <1>7, <1>8, <1>9, <1>10, <1>11

(* The timer always covers the first delayed event when a process goes on,  *)
(* for any number of them, wherever the partition is interrupted between    *)
(* the computation of the time and its setting (sched_arinc).              *)
THEOREM TimerNeverMissed == Spec => []TimerCovers
<1>1. Spec => []RInv
  <2>1. Init => RInv
    BY RInvInit
  <2>. QED
    BY <2>1, RInvStep, PTL DEF Spec
<1>2. Init => CInv
  <2>. SUFFICES ASSUME Init PROVE CInv
    OBVIOUS
  <2>1. {delayed[e] : e \in Delayed} \ {0} = {}
    BY DEF Init
  <2>. QED
    BY <2>1 DEF CInv, Covered, IsCheckTime
<1>3. RInv /\ CInv /\ [Next]_vars => CInv'
  BY CInvStep
<1>4. CInv => TimerCovers
  BY DEF CInv, Covered, TimerCovers
<1>. QED
  BY <1>1, <1>2, <1>3, <1>4, PTL DEF Spec

--------------------------------------------------------------------------------
(* The list of delayed events.  The cell at place i of a list of events: the  *)
(* head, the cells of the events, and nothing.                               *)
At(q, i) == IF i = 0 THEN FirstCell ELSE IF i \in 1 .. Len(q) THEN q[i] ELSE Null

Links == [next : [Cells -> DelayedEvent \union {Null}], pprev : [DelayedEvent -> Cells \union {Null}]]

Distinct(q) == \A i, j \in 1 .. Len(q) : q[i] = q[j] => i = j

(* The links are those of the list q.                                        *)
Holds(l, q) ==
  /\ \A i \in 0 .. Len(q) : l.next[At(q, i)] = At(q, i + 1)
  /\ \A i \in 1 .. Len(q) : l.pprev[q[i]] = At(q, i - 1)
  /\ \A e \in DelayedEvent : l.pprev[e] # Null => \E i \in 1 .. Len(q) : q[i] = e

Ordered(q, time) == \A i, j \in 1 .. Len(q) : i < j => time[q[i]] <= time[q[j]]

(* The list of delayed events has no cycle, and is sorted by time.           *)
SomeList ==
  /\ links \in Links
  /\ \E q \in Seq(DelayedEvent) : Distinct(q) /\ Holds(links, q) /\ Ordered(q, timepoint)

(* What is assumed of the constants.                                         *)
LEMMA Constants ==
  /\ IsFiniteSet(DelayedEvent) /\ FirstCell \notin DelayedEvent /\ Null \notin DelayedEvent
  /\ FirstCell # Null /\ MaxTimepoint \in Nat \ {0} /\ Null \notin Cells /\ FirstCell \in Cells
  /\ DelayedEvent \subseteq Cells
BY DelayedAssumption DEF DelayedAssumption, Cells

(* The cells of a list, one by one.                                          *)
LEMMA Places ==
  ASSUME NEW q \in Seq(DelayedEvent)
  PROVE  /\ Len(q) \in Nat /\ At(q, 0) = FirstCell
         /\ \A i \in 1 .. Len(q) : At(q, i) = q[i] /\ q[i] \in DelayedEvent
         /\ \A i \in Int : i > Len(q) => At(q, i) = Null
         /\ \A i \in 0 .. Len(q) : At(q, i) \in Cells
<1>1. Len(q) \in Nat /\ \A i \in 1 .. Len(q) : q[i] \in DelayedEvent
  OBVIOUS
<1>2. \A i \in 1 .. Len(q) : i # 0
  BY <1>1
<1>3. \A i \in 1 .. Len(q) : At(q, i) = q[i]
  BY <1>1, <1>2 DEF At
<1>4. \A i \in Int : i > Len(q) => At(q, i) = Null
  BY <1>1 DEF At
<1>5. At(q, 0) = FirstCell
  BY DEF At
<1>6. \A i \in 0 .. Len(q) : i = 0 \/ i \in 1 .. Len(q)
  BY <1>1
<1> QED
  BY <1>1, <1>3, <1>4, <1>5, <1>6, Constants

(* What the links are when one is changed.                                   *)
LEMMA Pointed ==
  ASSUME NEW l \in Links, NEW cell \in Cells, NEW to \in DelayedEvent \union {Null}
  PROVE  /\ Point(l, cell, to) \in Links
         /\ \A c \in Cells : Point(l, cell, to).next[c] = IF c = cell THEN to ELSE l.next[c]
         /\ \A e \in DelayedEvent : Point(l, cell, to).pprev[e] = IF e = to THEN cell ELSE l.pprev[e]
BY DEF Point, Links

LEMMA Cleared ==
  ASSUME NEW l \in Links, NEW e \in DelayedEvent
  PROVE  /\ Clear(l, e) \in Links /\ Clear(l, e).next = l.next
         /\ \A d \in DelayedEvent : Clear(l, e).pprev[d] = IF d = e THEN Null ELSE l.pprev[d]
BY DEF Clear, Links

(* A list without its event at place k.                                      *)
Omit(q, k) == [i \in 1 .. Len(q) - 1 |-> IF i < k THEN q[i] ELSE q[i + 1]]

(* What that list is, place by place.                                        *)
LEMMA Omitted ==
  ASSUME NEW q \in Seq(DelayedEvent), NEW k \in 1 .. Len(q), Distinct(q)
  PROVE  /\ Omit(q, k) \in Seq(DelayedEvent) /\ Len(Omit(q, k)) = Len(q) - 1 /\ Distinct(Omit(q, k))
         /\ \A i \in 1 .. Len(q) - 1 : Omit(q, k)[i] = IF i < k THEN q[i] ELSE q[i + 1]
         /\ \A i \in 0 .. Len(q) : At(Omit(q, k), i) = IF i < k THEN At(q, i) ELSE At(q, i + 1)
         /\ \A i \in 1 .. Len(q) - 1 : Omit(q, k)[i] # q[k]
         /\ \A i \in 1 .. Len(q) : q[i] # q[k] => \E j \in 1 .. Len(q) - 1 : Omit(q, k)[j] = q[i]
<1> DEFINE r == Omit(q, k)
           n == Len(q)
<1>1. n \in Nat /\ k \in 1 .. n /\ \A i \in 1 .. n : q[i] \in DelayedEvent
  OBVIOUS
<1>2. r \in [1 .. n - 1 -> DelayedEvent] /\ n - 1 \in Nat
  BY <1>1 DEF Omit
<1>3. r \in Seq(DelayedEvent) /\ Len(r) = n - 1
  BY <1>2
<1>4. \A i \in 1 .. n - 1 : r[i] = IF i < k THEN q[i] ELSE q[i + 1]
  BY DEF Omit
<1> HIDE DEF r
<1>5. \A i, j \in 1 .. n - 1 : r[i] = r[j] => i = j
  BY <1>1, <1>4 DEF Distinct
<1>6. \A i \in 0 .. n : At(r, i) = IF i < k THEN At(q, i) ELSE At(q, i + 1)
  BY <1>1, <1>3, <1>4 DEF At
<1>7. ASSUME NEW i \in 1 .. n - 1 PROVE r[i] # q[k]
  <2>1. i \in 1 .. n /\ i + 1 \in 1 .. n /\ (i < k => i # k) /\ (~(i < k) => i + 1 # k)
    BY <1>1
  <2> QED
    BY <1>1, <1>4, <2>1 DEF Distinct
<1>8. ASSUME NEW i \in 1 .. n, q[i] # q[k] PROVE \E j \in 1 .. n - 1 : r[j] = q[i]
  <2>1. CASE i < k
    BY <1>1, <1>4, <2>1
  <2>2. CASE ~(i < k)
    <3>1. i # k
      BY <1>8
    <3>2. i - 1 \in 1 .. n - 1 /\ ~(i - 1 < k) /\ (i - 1) + 1 = i
      BY <1>1, <2>2, <3>1
    <3> QED
      BY <1>4, <3>2
  <2> QED
    BY <2>1, <2>2
<1> QED
  BY <1>3, <1>4, <1>5, <1>6, <1>7, <1>8 DEF r, Distinct

(* delayed_event_remove: the event leaves the list, from any place.          *)
LEMMA Unlinked ==
  ASSUME NEW l \in Links, NEW q \in Seq(DelayedEvent), Distinct(q), Holds(l, q), NEW k \in 1 .. Len(q)
  PROVE  Unlink(l, q[k]) \in Links /\ Holds(Unlink(l, q[k]), Omit(q, k))
<1> DEFINE r == Omit(q, k)
           n == Len(q)
           e == q[k]
           b == At(q, k - 1)
           a == At(q, k + 1)
           p == Point(l, b, a)
           u == Clear(p, e)
<1>1. /\ n \in Nat /\ k \in 1 .. n /\ e \in DelayedEvent /\ b \in Cells /\ a \in DelayedEvent \union {Null}
      /\ k - 1 \in 0 .. n
  BY Places
<1>2. l.pprev[e] = b /\ l.next[e] = a /\ Unlink(l, e) = u
  BY Places DEF Holds, Unlink
<1>3. /\ u \in Links
      /\ \A c \in Cells : u.next[c] = IF c = b THEN a ELSE l.next[c]
      /\ \A d \in DelayedEvent : u.pprev[d] = IF d = e THEN Null ELSE IF d = a THEN b ELSE l.pprev[d]
  <2>1. /\ p \in Links
        /\ \A c \in Cells : p.next[c] = IF c = b THEN a ELSE l.next[c]
        /\ \A d \in DelayedEvent : p.pprev[d] = IF d = a THEN b ELSE l.pprev[d]
    <3> HIDE DEF a, b
    <3> QED
      BY <1>1, Pointed
  <2> HIDE DEF p
  <2>2. /\ u \in Links /\ u.next = p.next
        /\ \A d \in DelayedEvent : u.pprev[d] = IF d = e THEN Null ELSE p.pprev[d]
    BY <1>1, <2>1, Cleared
  <2> QED
    BY <2>1, <2>2
<1> HIDE DEF u, p
<1>4. /\ \A i \in 0 .. n : At(r, i) = IF i < k THEN At(q, i) ELSE At(q, i + 1)
      /\ Len(r) = n - 1 /\ r \in Seq(DelayedEvent)
  BY Omitted
<1>5. \A i, j \in 0 .. n : At(q, i) = At(q, j) => i = j
  BY <1>1, Places, Constants DEF Distinct
<1>6. ASSUME NEW i \in 0 .. n - 1 PROVE u.next[At(r, i)] = At(r, i + 1)
  <2>1. i + 1 \in 0 .. n /\ i \in 0 .. n /\ At(q, i) \in Cells /\ At(q, i + 1) \in Cells
    BY <1>1, Places
  <2>2. CASE i = k - 1
    BY <1>1, <1>3, <1>4, <2>1, <2>2
  <2>3. CASE i < k - 1
    <3>1. At(r, i) = At(q, i) /\ At(r, i + 1) = At(q, i + 1) /\ At(q, i) # b
      BY <1>1, <1>4, <1>5, <2>1, <2>3
    <3> QED
      BY <1>3, <2>1, <3>1 DEF Holds
  <2>4. CASE i > k - 1
    <3>1. At(r, i) = At(q, i + 1) /\ At(r, i + 1) = At(q, (i + 1) + 1) /\ At(q, i + 1) # b
      BY <1>1, <1>4, <1>5, <2>1, <2>4
    <3> QED
      BY <1>3, <2>1, <3>1 DEF Holds
  <2> QED
    BY <1>1, <2>2, <2>3, <2>4
<1>7. ASSUME NEW i \in 1 .. n - 1 PROVE u.pprev[r[i]] = At(r, i - 1)
  <2>1. /\ i \in 1 .. n /\ i + 1 \in 1 .. n /\ i - 1 \in 0 .. n /\ i \in 0 .. n /\ i + 1 \in 0 .. n
        /\ r[i] = At(r, i) /\ r[i] \in DelayedEvent
    BY <1>1, <1>4, Places
  <2>2. CASE i < k
    <3>1. r[i] = q[i] /\ At(r, i - 1) = At(q, i - 1) /\ q[i] = At(q, i) /\ i # k /\ i # k + 1
      BY <1>1, <1>4, <2>1, <2>2, Places
    <3>2. r[i] # e /\ r[i] # a
      BY <1>1, <1>5, <2>1, <3>1, Places, Constants DEF At
    <3>3. l.pprev[q[i]] = At(q, i - 1)
      BY <2>1 DEF Holds
    <3> QED
      BY <1>3, <2>1, <3>1, <3>2, <3>3
  <2>3. CASE i = k
    <3>1. r[i] = a /\ At(r, i - 1) = b /\ a # e
      BY <1>1, <1>4, <1>5, <2>1, <2>3, Places
    <3> QED
      BY <1>3, <2>1, <3>1
  <2>4. CASE i > k
    <3>1. r[i] = q[i + 1] /\ At(r, i - 1) = At(q, i) /\ q[i + 1] = At(q, i + 1) /\ i + 1 # k /\ i + 1 # k + 1
      <4>1. ~(i < k) /\ ~(i - 1 < k) /\ (i - 1) + 1 = i /\ i + 1 # k /\ i + 1 # k + 1
        BY <1>1, <2>1, <2>4
      <4> QED
        BY <1>4, <2>1, <4>1, Places
    <3>2. r[i] # e /\ r[i] # a
      BY <1>1, <1>5, <2>1, <3>1, Places, Constants DEF At
    <3>3. l.pprev[q[i + 1]] = At(q, (i + 1) - 1) /\ (i + 1) - 1 = i
      <4>1. (i + 1) - 1 = i
        BY <1>1
      <4>2. \A j \in 1 .. n : l.pprev[q[j]] = At(q, j - 1)
        BY DEF Holds
      <4> QED
        BY <2>1, <4>1, <4>2
    <3> QED
      BY <1>3, <2>1, <3>1, <3>2, <3>3
  <2> QED
    BY <1>1, <2>2, <2>3, <2>4
<1>8. ASSUME NEW d \in DelayedEvent, u.pprev[d] # Null PROVE \E i \in 1 .. n - 1 : r[i] = d
  <2>1. d # e /\ (d = a \/ l.pprev[d] # Null)
    BY <1>3, <1>8
  <2>2. \E i \in 1 .. n : q[i] = d
    BY <1>1, <2>1, Constants DEF Holds, At
  <2>3. \A i \in 1 .. n : q[i] # e => \E j \in 1 .. n - 1 : r[j] = q[i]
    BY Omitted
  <2> QED
    BY <2>1, <2>2, <2>3
<1> QED
  BY <1>2, <1>3, <1>4, <1>6, <1>7, <1>8 DEF Holds

(* A list with an event behind its first k.                                  *)
Put(q, k, e) == [i \in 1 .. Len(q) + 1 |-> IF i <= k THEN q[i] ELSE IF i = k + 1 THEN e ELSE q[i - 1]]

(* What that list is, place by place.                                        *)
LEMMA PutIs ==
  ASSUME NEW q \in Seq(DelayedEvent), NEW k \in 0 .. Len(q), Distinct(q),
         NEW e \in DelayedEvent, \A i \in 1 .. Len(q) : q[i] # e
  PROVE  /\ Put(q, k, e) \in Seq(DelayedEvent) /\ Len(Put(q, k, e)) = Len(q) + 1
         /\ Distinct(Put(q, k, e))
         /\ \A i \in 1 .. Len(q) + 1 :
              Put(q, k, e)[i] = IF i <= k THEN q[i] ELSE IF i = k + 1 THEN e ELSE q[i - 1]
         /\ \A i \in 0 .. Len(q) + 2 :
              At(Put(q, k, e), i) = IF i <= k THEN At(q, i) ELSE IF i = k + 1 THEN e ELSE At(q, i - 1)
         /\ \A i \in 1 .. Len(q) : \E j \in 1 .. Len(q) + 1 : Put(q, k, e)[j] = q[i]
<1> DEFINE r == Put(q, k, e)
           n == Len(q)
<1>1. n \in Nat /\ k \in 0 .. n /\ \A i \in 1 .. n : q[i] \in DelayedEvent
  OBVIOUS
<1>2. r \in [1 .. n + 1 -> DelayedEvent]
  BY <1>1 DEF Put
<1>3. r \in Seq(DelayedEvent) /\ Len(r) = n + 1
  BY <1>1, <1>2
<1>4. \A i \in 1 .. n + 1 : r[i] = IF i <= k THEN q[i] ELSE IF i = k + 1 THEN e ELSE q[i - 1]
  BY DEF Put
<1> HIDE DEF r
<1>5. \A i, j \in 1 .. n + 1 : r[i] = r[j] => i = j
  BY <1>1, <1>4 DEF Distinct
<1>6. \A i \in 0 .. n + 2 : At(r, i) = IF i <= k THEN At(q, i) ELSE IF i = k + 1 THEN e ELSE At(q, i - 1)
  BY <1>1, <1>3, <1>4 DEF At
<1>7. ASSUME NEW i \in 1 .. n PROVE \E j \in 1 .. n + 1 : r[j] = q[i]
  <2>1. CASE i <= k
    BY <1>1, <1>4, <2>1
  <2>2. CASE ~(i <= k)
    <3>1. i + 1 \in 1 .. n + 1 /\ ~(i + 1 <= k) /\ i + 1 # k + 1 /\ (i + 1) - 1 = i
      BY <1>1, <2>2
    <3> QED
      BY <1>4, <3>1
  <2> QED
    BY <2>1, <2>2
<1> QED
  BY <1>3, <1>4, <1>5, <1>6, <1>7 DEF r, Distinct

(* delayed_event_add, from the insertion point: the event is behind k others.*)
LEMMA Linked ==
  ASSUME NEW l \in Links, NEW q \in Seq(DelayedEvent), Distinct(q), Holds(l, q),
         NEW k \in 0 .. Len(q), NEW e \in DelayedEvent, \A i \in 1 .. Len(q) : q[i] # e
  PROVE  LET m == Point(Point(l, e, l.next[At(q, k)]), At(q, k), e) IN
         m \in Links /\ Holds(m, Put(q, k, e))
<1> DEFINE r == Put(q, k, e)
           n == Len(q)
           b == At(q, k)
           a == At(q, k + 1)
           p == Point(l, e, a)
           m == Point(p, b, e)
<1>1. /\ n \in Nat /\ k \in 0 .. n /\ b \in Cells /\ a \in DelayedEvent \union {Null}
      /\ e \in Cells /\ l.next[b] = a
  <2>1. n \in Nat /\ b \in Cells
    BY Places
  <2>2. k + 1 \in 1 .. n \/ k + 1 > n
    BY <2>1
  <2>3. a \in DelayedEvent \union {Null}
    BY <2>1, <2>2, Places
  <2> QED
    BY <2>1, <2>3, Constants DEF Holds
<1>2. b # e /\ a # e
  BY <1>1, Constants DEF At
<1>3. /\ m \in Links
      /\ \A c \in Cells : m.next[c] = IF c = b THEN e ELSE IF c = e THEN a ELSE l.next[c]
      /\ \A d \in DelayedEvent : m.pprev[d] = IF d = e THEN b ELSE IF d = a THEN e ELSE l.pprev[d]
  <2> HIDE DEF a, b
  <2>1. /\ p \in Links
        /\ \A c \in Cells : p.next[c] = IF c = e THEN a ELSE l.next[c]
        /\ \A d \in DelayedEvent : p.pprev[d] = IF d = a THEN e ELSE l.pprev[d]
    BY <1>1, Pointed
  <2> HIDE DEF p
  <2>2. /\ m \in Links
        /\ \A c \in Cells : m.next[c] = IF c = b THEN e ELSE p.next[c]
        /\ \A d \in DelayedEvent : m.pprev[d] = IF d = e THEN b ELSE p.pprev[d]
    BY <1>1, <2>1, Pointed
  <2> QED
    BY <2>1, <2>2
<1>4. Point(Point(l, e, l.next[At(q, k)]), At(q, k), e) = m
  BY <1>1
<1> HIDE DEF m, p
<1>5. /\ \A i \in 0 .. n + 2 : At(r, i) = IF i <= k THEN At(q, i) ELSE IF i = k + 1 THEN e ELSE At(q, i - 1)
      /\ Len(r) = n + 1 /\ r \in Seq(DelayedEvent)
  BY PutIs
<1>6. /\ \A i, j \in 0 .. n : At(q, i) = At(q, j) => i = j
      /\ \A i \in 0 .. n : At(q, i) # e
  BY <1>1, Places, Constants DEF Distinct
<1>7. ASSUME NEW i \in 0 .. n + 1 PROVE m.next[At(r, i)] = At(r, i + 1)
  <2>1. i \in 0 .. n + 2 /\ i + 1 \in 0 .. n + 2
    BY <1>1
  <2>2. CASE i < k
    <3>1. At(r, i) = At(q, i) /\ At(r, i + 1) = At(q, i + 1) /\ At(q, i) # b /\ At(q, i) # e /\ i \in 0 .. n
      BY <1>1, <1>5, <1>6, <2>1, <2>2
    <3> QED
      BY <1>3, <3>1, Places DEF Holds
  <2>3. CASE i = k
    BY <1>1, <1>3, <1>5, <2>1, <2>3
  <2>4. CASE i = k + 1
    BY <1>1, <1>2, <1>3, <1>5, <2>1, <2>4
  <2>5. CASE i > k + 1
    <3>1. i - 1 \in 0 .. n /\ (i + 1) - 1 = (i - 1) + 1 /\ ~(i <= k) /\ i # k + 1 /\ ~(i + 1 <= k) /\ i + 1 # k + 1
      BY <1>1, <2>5
    <3>2. At(r, i) = At(q, i - 1) /\ At(r, i + 1) = At(q, (i - 1) + 1)
      BY <1>5, <2>1, <3>1
    <3>3. At(q, i - 1) # b /\ At(q, i - 1) # e /\ At(q, i - 1) \in Cells
      BY <1>1, <1>6, <2>5, <3>1, Places
    <3>4. l.next[At(q, i - 1)] = At(q, (i - 1) + 1)
      BY <3>1 DEF Holds
    <3> QED
      BY <1>3, <3>2, <3>3, <3>4
  <2> QED
    BY <1>1, <2>2, <2>3, <2>4, <2>5
<1>8. ASSUME NEW i \in 1 .. n + 1 PROVE m.pprev[r[i]] = At(r, i - 1)
  <2>1. /\ i \in 0 .. n + 2 /\ i - 1 \in 0 .. n + 2 /\ i - 1 \in 0 .. n
        /\ r[i] = At(r, i) /\ r[i] \in DelayedEvent
    BY <1>1, <1>5, Places
  <2>2. CASE i <= k
    <3>1. r[i] = q[i] /\ At(r, i - 1) = At(q, i - 1) /\ i \in 1 .. n /\ q[i] = At(q, i) /\ i # k + 1
      BY <1>1, <1>5, <2>1, <2>2, Places
    <3>2. r[i] # e /\ r[i] # a
      BY <1>1, <1>6, <2>1, <3>1, Places, Constants DEF At
    <3>3. l.pprev[q[i]] = At(q, i - 1)
      BY <3>1 DEF Holds
    <3> QED
      BY <1>3, <2>1, <3>1, <3>2, <3>3
  <2>3. CASE i = k + 1
    <3>1. r[i] = e /\ At(r, i - 1) = b
      BY <1>1, <1>5, <2>1, <2>3
    <3> QED
      BY <1>3, <3>1
  <2>4. CASE i = k + 2
    <3>1. r[i] = At(q, k + 1) /\ At(r, i - 1) = e
      <4>1. ~(i <= k) /\ i # k + 1 /\ i - 1 = k + 1 /\ ~(i - 1 <= k)
        BY <1>1, <2>4
      <4> QED
        BY <1>5, <2>1, <4>1
    <3> QED
      BY <1>2, <1>3, <2>1, <3>1
  <2>5. CASE i > k + 2
    <3>1. ~(i <= k) /\ i # k + 1 /\ ~(i - 1 <= k) /\ i - 1 # k + 1 /\ i - 1 \in 1 .. n /\ i - 1 # k + 1
      BY <1>1, <2>5
    <3>2. r[i] = q[i - 1] /\ At(r, i - 1) = At(q, (i - 1) - 1) /\ q[i - 1] = At(q, i - 1)
      BY <1>5, <2>1, <3>1, Places
    <3>3. r[i] # e /\ r[i] # a
      BY <1>1, <1>6, <2>1, <3>1, <3>2, Places, Constants DEF At
    <3>4. \A j \in 1 .. n : l.pprev[q[j]] = At(q, j - 1)
      BY DEF Holds
    <3> QED
      BY <1>3, <2>1, <3>1, <3>2, <3>3, <3>4
  <2> QED
    BY <1>1, <2>2, <2>3, <2>4, <2>5
<1>9. ASSUME NEW d \in DelayedEvent, m.pprev[d] # Null PROVE \E i \in 1 .. n + 1 : r[i] = d
  <2>1. r[k + 1] = e /\ k + 1 \in 1 .. n + 1
    <3>1. k + 1 \in 1 .. n + 1 /\ ~(k + 1 <= k)
      BY <1>1
    <3>2. r[k + 1] = IF k + 1 <= k THEN q[k + 1] ELSE IF k + 1 = k + 1 THEN e ELSE q[(k + 1) - 1]
      BY <3>1, PutIs
    <3> QED
      BY <3>1, <3>2
  <2>2. d = e \/ d = a \/ l.pprev[d] # Null
    BY <1>3, <1>9
  <2>3. d = e \/ \E i \in 1 .. n : q[i] = d
    BY <1>1, <2>2, Constants DEF Holds, At
  <2>4. \A i \in 1 .. n : \E j \in 1 .. n + 1 : r[j] = q[i]
    BY PutIs
  <2> QED
    BY <2>1, <2>3, <2>4
<1> QED
  BY <1>3, <1>4, <1>5, <1>7, <1>8, <1>9 DEF Holds

(* Every set of natural numbers that is not empty has a least element.       *)
LEMMA Least ==
  ASSUME NEW S \in SUBSET Nat, S # {}
  PROVE  \E m \in S : \A k \in S : m <= k
<1> DEFINE R == OpToRel(<, Nat)
<1>1. IsWellFoundedOn(R, Nat)
  BY NatLessThanWellFounded
<1> HIDE DEF R
<1>2. \E m \in S : \A k \in S : <<k, m>> \notin R
  BY <1>1, WFMin
<1>3. ASSUME NEW m \in S, NEW k \in S, <<k, m>> \notin R PROVE m <= k
  BY <1>3 DEF R, OpToRel
<1> QED
  BY <1>2, <1>3

(* The size of an interval.                                                  *)
LEMMA UpTo ==
  ASSUME NEW n \in Nat
  PROVE  IsFiniteSet(1 .. n) /\ Cardinality(1 .. n) = n
BY FS_Interval

(* A list of distinct events is not longer than there are events.            *)
LEMMA ListBounded ==
  ASSUME NEW q \in Seq(DelayedEvent), Distinct(q)
  PROVE  Cardinality(DelayedEvent) \in Nat /\ Len(q) <= Cardinality(DelayedEvent)
<1>1. Len(q) \in Nat /\ q \in [1 .. Len(q) -> DelayedEvent]
  OBVIOUS
<1>2. q \in Injection(1 .. Len(q), DelayedEvent)
  BY <1>1 DEF Distinct, Injection, IsInjective
<1>3. IsFiniteSet(1 .. Len(q)) /\ Cardinality(1 .. Len(q)) = Len(q)
  BY <1>1, UpTo
<1>4. IsFiniteSet(DelayedEvent) /\ Cardinality(DelayedEvent) \in Nat
  BY Constants, FS_CardinalityType
<1> QED
  BY <1>2, <1>3, <1>4, FS_Injection DEF ExistsInjection

(* The cells that a walk from the head meets are those of the list.          *)
LEMMA ChainIs ==
  ASSUME NEW l \in Links, NEW q \in Seq(DelayedEvent), Distinct(q), Holds(l, q)
  PROVE  Chain(l) = [n \in 0 .. Cardinality(DelayedEvent) |-> At(q, n)]
<1> DEFINE N == Cardinality(DelayedEvent)
           H(c) == [n \in 0 .. N |-> IF n = 0 THEN FirstCell
                                     ELSE IF c[n - 1] = Null THEN Null ELSE l.next[c[n - 1]]]
           g == [n \in 0 .. N |-> At(q, n)]
           C == Chain(l)
<1>1. N \in Nat /\ Len(q) <= N /\ Len(q) \in Nat
  BY ListBounded
<1> HIDE DEF N
<1>2. ASSUME NEW n \in 1 .. N PROVE At(q, n) = IF At(q, n - 1) = Null THEN Null ELSE l.next[At(q, n - 1)]
  <2>1. n - 1 \in Nat /\ n \in Int /\ (n - 1) + 1 = n
    BY <1>1
  <2>2. CASE n - 1 \in 0 .. Len(q)
    <3>1. At(q, n - 1) \in Cells /\ l.next[At(q, n - 1)] = At(q, (n - 1) + 1)
      BY <2>2, Places DEF Holds
    <3> QED
      BY <2>1, <3>1, Constants
  <2>3. CASE n - 1 \notin 0 .. Len(q)
    <3>1. n > Len(q) /\ n - 1 > Len(q) /\ n - 1 \in Int
      BY <1>1, <2>1, <2>3
    <3> QED
      BY <2>1, <3>1, Places
  <2> QED
    BY <2>2, <2>3
<1>3. At(q, 0) = FirstCell
  BY Places
<1>4. g = H(g)
  <2>1. \A n \in 0 .. N : n = 0 \/ (n \in 1 .. N /\ n - 1 \in 0 .. N /\ n # 0)
    BY <1>1
  <2> QED
    BY <1>2, <1>3, <2>1
<1>5. C = CHOOSE c : c = H(c)
  BY DEF Chain, N
<1> HIDE DEF g, H, C
<1>6. C = H(C)
  BY <1>4, <1>5
<1>7. C = [n \in 0 .. N |-> C[n]] /\ \A n \in 0 .. N :
        C[n] = IF n = 0 THEN FirstCell ELSE IF C[n - 1] = Null THEN Null ELSE l.next[C[n - 1]]
  BY <1>6 DEF H
<1> DEFINE Wrong == {n \in 0 .. N : C[n] # At(q, n)}
<1>8. Wrong = {}
  <2> SUFFICES ASSUME Wrong # {} PROVE FALSE
    OBVIOUS
  <2>1. Wrong \in SUBSET Nat /\ \A n \in 0 .. N : n \notin Wrong => C[n] = At(q, n)
    BY <1>1
  <2>2. \A n \in Wrong : n \in 0 .. N /\ C[n] # At(q, n)
    OBVIOUS
  <2> HIDE DEF Wrong
  <2>3. PICK m \in Wrong : \A k \in Wrong : m <= k
    BY <2>1, Least
  <2>4. m # 0 /\ m \in 0 .. N
    BY <1>1, <1>3, <1>7, <2>2
  <2>5. m \in 1 .. N /\ m - 1 \in 0 .. N /\ m - 1 \notin Wrong
    BY <1>1, <2>1, <2>3, <2>4
  <2>6. C[m - 1] = At(q, m - 1)
    BY <2>1, <2>5
  <2> QED
    BY <1>2, <1>7, <2>2, <2>4, <2>5, <2>6
<1>9. \A n \in 0 .. N : C[n] = At(q, n)
  BY <1>8
<1> QED
  BY <1>7, <1>9 DEF C, N

(* What WellLinked and the refinement see of a list.                         *)
LEMMA EventsOnIs ==
  ASSUME NEW l \in Links, NEW q \in Seq(DelayedEvent), Distinct(q), Holds(l, q)
  PROVE  /\ EventsOn(l) = {q[i] : i \in 1 .. Len(q)} /\ Cardinality(EventsOn(l)) = Len(q)
         /\ \A n \in 1 .. Len(q) : Chain(l)[n] = q[n]
<1>1. Len(q) \in Nat /\ Cardinality(DelayedEvent) \in Nat /\ Len(q) <= Cardinality(DelayedEvent)
  BY ListBounded
<1>2. \A n \in 0 .. Cardinality(DelayedEvent) : Chain(l)[n] = At(q, n)
  BY ChainIs
<1>2a. IsFiniteSet(1 .. Len(q)) /\ Cardinality(1 .. Len(q)) = Len(q)
  BY <1>1, UpTo
<1>3. \A n \in 1 .. Len(q) : Chain(l)[n] = q[n] /\ q[n] # Null /\ n \in 1 .. Cardinality(DelayedEvent)
  BY <1>1, <1>2, Places, Constants
<1>4. ASSUME NEW n \in 1 .. Cardinality(DelayedEvent), n \notin 1 .. Len(q) PROVE Chain(l)[n] = Null
  BY <1>1, <1>2, <1>4, Places
<1> DEFINE S == {q[i] : i \in 1 .. Len(q)}
<1>5. EventsOn(l) = S
  BY <1>3, <1>4 DEF EventsOn
<1>6. Cardinality(S) = Len(q)
  <2>1. q \in [1 .. Len(q) -> S]
    BY <1>1
  <2>2. q \in Bijection(1 .. Len(q), S)
    <3>1. q \in Injection(1 .. Len(q), S)
      BY <2>1 DEF Distinct, Injection, IsInjective
    <3>2. q \in Surjection(1 .. Len(q), S)
      BY <2>1 DEF Surjection
    <3> QED
      BY <3>1, <3>2 DEF Bijection
  <2> QED
    BY <1>2a, <2>2, FS_Bijection DEF ExistsBijection
<1>7. Cardinality(EventsOn(l)) = Len(q)
  <2> HIDE DEF S
  <2> QED
    BY <1>5, <1>6
<1> QED
  BY <1>3, <1>5, <1>7

(* The loop of delayed_event_add stops behind the events that are not later. *)
LEMMA InsertionPointIs ==
  ASSUME NEW l \in Links, NEW q \in Seq(DelayedEvent), Distinct(q), Holds(l, q),
         timepoint \in [DelayedEvent -> Timepoints], Ordered(q, timepoint), NEW t \in Timepoints
  PROVE  \E k \in 0 .. Len(q) :
           /\ InsertionPoint(l, t) = At(q, k)
           /\ \A i \in 1 .. Len(q) : i <= k <=> timepoint[q[i]] <= t
<1> DEFINE N == Cardinality(DelayedEvent)
           n == Len(q)
           C == Chain(l)
           Stops == {i \in DOMAIN C : C[i] # Null /\ StopsAt(l, C[i], t)}
<1>1. n \in Nat /\ N \in Nat /\ n <= N /\ \A i \in 1 .. n : timepoint[q[i]] \in Int
  BY ListBounded, Places, Constants DEF Timepoints
<1>2. t \in Int
  BY Constants DEF Timepoints
<1>3. DOMAIN C = 0 .. N /\ \A i \in 0 .. N : C[i] = At(q, i)
  BY ChainIs
<1>4. InsertionPoint(l, t) = C[CHOOSE i \in Stops : \A m \in Stops : i <= m]
  BY DEF InsertionPoint
<1>5. ASSUME NEW i \in 0 .. N PROVE i \in Stops <=> i \in 0 .. n /\ (i = n \/ timepoint[q[i + 1]] > t)
  <2>1. CASE i \in 0 .. n
    <3>1. C[i] = At(q, i) /\ At(q, i) # Null /\ l.next[At(q, i)] = At(q, i + 1)
      BY <1>3, <2>1, Places, Constants DEF Holds
    <3>2. CASE i = n
      BY <1>1, <1>3, <3>1, <3>2, Places DEF StopsAt
    <3>3. CASE i # n
      <4>1. i + 1 \in 1 .. n
        BY <1>1, <2>1, <3>3
      <4>2. At(q, i + 1) = q[i + 1] /\ q[i + 1] # Null
        BY <4>1, Places, Constants
      <4> QED
        BY <1>3, <2>1, <3>1, <3>3, <4>2 DEF StopsAt
    <3> QED
      BY <3>2, <3>3
  <2>2. CASE i \notin 0 .. n
    <3>1. i > n /\ i \in Int
      BY <1>1, <2>2
    <3> QED
      BY <1>3, <2>2, <3>1, Places
  <2> QED
    BY <2>1, <2>2
<1>6. Stops \in SUBSET Nat /\ \A i \in Stops : i \in 0 .. N
  BY <1>1, <1>3
<1> HIDE DEF Stops, C
<1>7. n \in Stops
  BY <1>1, <1>5
<1> DEFINE k == CHOOSE i \in Stops : \A m \in Stops : i <= m
<1>8. k \in Stops /\ \A m \in Stops : k <= m
  <2>1. \E i \in Stops : \A m \in Stops : i <= m
    BY <1>6, <1>7, Least
  <2> QED
    BY <2>1
<1>9. InsertionPoint(l, t) = C[k]
  BY <1>4
<1> HIDE DEF k
<1>10. k \in 0 .. n /\ k \in 0 .. N /\ (k = n \/ timepoint[q[k + 1]] > t)
  BY <1>5, <1>6, <1>8
<1>11. ASSUME NEW i \in 1 .. n, i <= k PROVE timepoint[q[i]] <= t
  <2>1. i - 1 \in 0 .. N /\ i - 1 \in 0 .. n /\ i - 1 # n /\ ~(k <= i - 1) /\ (i - 1) + 1 = i
    BY <1>1, <1>10, <1>11
  <2>2. i - 1 \notin Stops
    BY <1>8, <2>1
  <2>3. ~(timepoint[q[i]] > t)
    BY <1>5, <2>1, <2>2
  <2> QED
    BY <1>1, <1>2, <2>3
<1>12. ASSUME NEW i \in 1 .. n, ~(i <= k) PROVE timepoint[q[i]] > t
  <2>1. k # n /\ k + 1 \in 1 .. n /\ (k + 1 = i \/ k + 1 < i)
    BY <1>1, <1>10, <1>12
  <2>2. timepoint[q[k + 1]] > t /\ (k + 1 = i \/ timepoint[q[k + 1]] <= timepoint[q[i]])
    BY <1>10, <2>1 DEF Ordered
  <2>3. timepoint[q[k + 1]] \in Int /\ timepoint[q[i]] \in Int
    BY <1>1, <2>1
  <2> QED
    BY <1>2, <2>2, <2>3
<1>13. C[k] = At(q, k)
  BY <1>3, <1>10
<1>14. \A i \in 1 .. n : i <= k <=> timepoint[q[i]] <= t
  BY <1>1, <1>2, <1>11, <1>12
<1> QED
  BY <1>9, <1>10, <1>13, <1>14

(* The list that the links hold.                                             *)
IsList(l, q, times) ==
  l \in Links /\ q \in Seq(DelayedEvent) /\ Distinct(q) /\ Holds(l, q) /\ Ordered(q, times)

(* The inductive invariant of the list of delayed events.                    *)
ListInv ==
  /\ timepoint \in [DelayedEvent -> Timepoints] /\ checking \in Timepoints \union {0}
  /\ fired \in Seq(DelayedEvent)
  /\ \E q : IsList(links, q, timepoint)

(* An event is in the list if its pprev is not NULL.                         *)
LEMMA QueuedIs ==
  ASSUME NEW l, NEW q, NEW times, IsList(l, q, times), NEW e \in DelayedEvent
  PROVE  l.pprev[e] # Null <=> \E i \in 1 .. Len(q) : q[i] = e
<1>1. q \in Seq(DelayedEvent) /\ l \in Links /\ Len(q) \in Nat
  BY DEF IsList
<1>2. ASSUME NEW i \in 1 .. Len(q) PROVE l.pprev[q[i]] # Null
  <2>1. i - 1 \in 0 .. Len(q) /\ l.pprev[q[i]] = At(q, i - 1)
    BY <1>1 DEF IsList, Holds
  <2> QED
    BY <1>1, <2>1, Places, Constants
<1> QED
  BY <1>2 DEF IsList, Holds

(* The list without an event, which may be in it or not.                     *)
IsWithout(r, q, e) ==
  \/ r = q /\ \A i \in 1 .. Len(q) : q[i] # e
  \/ \E j \in 1 .. Len(q) : q[j] = e /\ r = Omit(q, j)

(* A list that loses an event stays sorted.                                  *)
LEMMA OmittedOrdered ==
  ASSUME NEW q \in Seq(DelayedEvent), Distinct(q), NEW j \in 1 .. Len(q),
         NEW times \in [DelayedEvent -> Timepoints], Ordered(q, times)
  PROVE  Ordered(Omit(q, j), times)
<1> DEFINE r == Omit(q, j)
<1>1. /\ Len(r) = Len(q) - 1 /\ Len(q) \in Nat
      /\ \A i \in 1 .. Len(q) - 1 : r[i] = IF i < j THEN q[i] ELSE q[i + 1]
  BY Omitted
<1> HIDE DEF r
<1>2. ASSUME NEW i \in 1 .. Len(r), NEW m \in 1 .. Len(r), i < m PROVE times[r[i]] <= times[r[m]]
  <2>1. /\ i \in 1 .. Len(q) /\ i + 1 \in 1 .. Len(q) /\ m \in 1 .. Len(q) /\ m + 1 \in 1 .. Len(q)
        /\ i < m + 1 /\ i + 1 < m + 1 /\ (i < j \/ ~(m < j))
    BY <1>1, <1>2
  <2> QED
    BY <1>1, <1>2, <2>1 DEF Ordered
<1> QED
  BY <1>2 DEF Ordered, r

(* The first part of delayed_event_add, and delayed_event_remove.            *)
Loosened(l, e) == IF l.pprev[e] # Null THEN Unlink(l, e) ELSE l

LEMMA Detached ==
  ASSUME NEW l, NEW q, NEW times \in [DelayedEvent -> Timepoints], IsList(l, q, times),
         NEW e \in DelayedEvent
  PROVE  \E r : /\ IsList(Loosened(l, e), r, times)
                /\ IsWithout(r, q, e) /\ \A i \in 1 .. Len(r) : r[i] # e
<1>1. q \in Seq(DelayedEvent) /\ l \in Links /\ Len(q) \in Nat /\ Distinct(q) /\ Holds(l, q) /\ Ordered(q, times)
  BY DEF IsList
<1>2. CASE l.pprev[e] = Null
  BY <1>2, QueuedIs DEF IsWithout, Loosened
<1>3. CASE l.pprev[e] # Null
  <2>1. PICK j \in 1 .. Len(q) : q[j] = e
    BY <1>3, QueuedIs
  <2>2. Unlink(l, e) \in Links /\ Holds(Unlink(l, e), Omit(q, j))
    BY <1>1, <2>1, Unlinked
  <2>3. /\ Omit(q, j) \in Seq(DelayedEvent) /\ Distinct(Omit(q, j)) /\ Len(Omit(q, j)) = Len(q) - 1
        /\ \A i \in 1 .. Len(q) - 1 : Omit(q, j)[i] # q[j]
    BY <1>1, Omitted
  <2>4. Ordered(Omit(q, j), times)
    BY <1>1, OmittedOrdered
  <2>5. IsList(Unlink(l, e), Omit(q, j), times)
    BY <2>2, <2>3, <2>4 DEF IsList
  <2>6. IsWithout(Omit(q, j), q, e) /\ \A i \in 1 .. Len(Omit(q, j)) : Omit(q, j)[i] # e
    BY <2>1, <2>3 DEF IsWithout
  <2> QED
    BY <1>3, <2>5, <2>6 DEF Loosened
<1> QED
  BY <1>2, <1>3

(* What delayed_event_add does to the list.                                  *)
LEMMA AddIs ==
  ASSUME ListInv, NEW q, IsList(links, q, timepoint),
         NEW e \in DelayedEvent, NEW t \in Timepoints, Add(e, t)
  PROVE  \E r, k : /\ IsWithout(r, q, e) /\ IsList(links', Put(r, k, e), timepoint')
                   /\ r \in Seq(DelayedEvent) /\ Distinct(r) /\ k \in 0 .. Len(r)
                   /\ \A i \in 1 .. Len(r) : r[i] # e /\ (i <= k <=> timepoint[r[i]] <= t)
<1> DEFINE l == Loosened(links, e)
<1>1. timepoint \in [DelayedEvent -> Timepoints]
  BY DEF ListInv
<1>2. PICK r : IsList(l, r, timepoint) /\ IsWithout(r, q, e) /\ \A i \in 1 .. Len(r) : r[i] # e
  BY <1>1, Detached DEF l
<1>3. /\ links' = Point(Point(l, e, l.next[InsertionPoint(l, t)]), InsertionPoint(l, t), e)
      /\ timepoint' = [timepoint EXCEPT ![e] = t]
  BY DEF Add, Queued, Loosened
<1> HIDE DEF l
<1>4. l \in Links /\ r \in Seq(DelayedEvent) /\ Distinct(r) /\ Holds(l, r) /\ Ordered(r, timepoint) /\ Len(r) \in Nat
  BY <1>2 DEF IsList
<1>5. PICK k \in 0 .. Len(r) : /\ InsertionPoint(l, t) = At(r, k)
                               /\ \A i \in 1 .. Len(r) : i <= k <=> timepoint[r[i]] <= t
  BY <1>1, <1>4, InsertionPointIs
<1>6. links' \in Links /\ Holds(links', Put(r, k, e))
  BY <1>2, <1>3, <1>4, <1>5, Linked
<1> DEFINE p == Put(r, k, e)
<1>7. /\ p \in Seq(DelayedEvent) /\ Len(p) = Len(r) + 1 /\ Distinct(p)
      /\ \A i \in 1 .. Len(r) + 1 : p[i] = IF i <= k THEN r[i] ELSE IF i = k + 1 THEN e ELSE r[i - 1]
  BY <1>2, <1>4, PutIs
<1> HIDE DEF p
<1>8. timepoint'[e] = t /\ \A i \in 1 .. Len(r) : timepoint'[r[i]] = timepoint[r[i]] /\ timepoint[r[i]] \in Int
  BY <1>1, <1>2, <1>3, <1>4, Constants DEF Timepoints
<1>9. t \in Int
  BY Constants DEF Timepoints
<1>10. ASSUME NEW i \in 1 .. Len(p), NEW j \in 1 .. Len(p), i < j PROVE timepoint'[p[i]] <= timepoint'[p[j]]
  <2>1. i \in 1 .. Len(r) + 1 /\ j \in 1 .. Len(r) + 1 /\ k \in 0 .. Len(r)
    BY <1>7
  <2>2. CASE j <= k
    <3>1. p[i] = r[i] /\ p[j] = r[j] /\ i \in 1 .. Len(r) /\ j \in 1 .. Len(r)
      BY <1>4, <1>7, <1>10, <2>1, <2>2
    <3> QED
      BY <1>4, <1>8, <1>10, <3>1 DEF Ordered
  <2>3. CASE i <= k /\ j = k + 1
    <3>1. p[i] = r[i] /\ p[j] = e /\ i \in 1 .. Len(r)
      BY <1>4, <1>7, <2>1, <2>3
    <3> QED
      BY <1>5, <1>8, <2>3, <3>1
  <2>4. CASE i <= k /\ j > k + 1
    <3>1. p[i] = r[i] /\ p[j] = r[j - 1] /\ i \in 1 .. Len(r) /\ j - 1 \in 1 .. Len(r) /\ i < j - 1
      BY <1>4, <1>7, <2>1, <2>4
    <3> QED
      BY <1>4, <1>8, <3>1 DEF Ordered
  <2>5. CASE i = k + 1
    <3>1. p[i] = e /\ p[j] = r[j - 1] /\ j - 1 \in 1 .. Len(r) /\ ~(j - 1 <= k)
      BY <1>4, <1>7, <1>10, <2>1, <2>5
    <3>2. ~(timepoint[r[j - 1]] <= t)
      BY <1>5, <3>1
    <3> QED
      BY <1>8, <1>9, <3>1, <3>2
  <2>6. CASE i > k + 1
    <3>1. p[i] = r[i - 1] /\ p[j] = r[j - 1] /\ i - 1 \in 1 .. Len(r) /\ j - 1 \in 1 .. Len(r) /\ i - 1 < j - 1
      BY <1>4, <1>7, <1>10, <2>1, <2>6
    <3> QED
      BY <1>4, <1>8, <3>1 DEF Ordered
  <2> QED
    BY <1>4, <1>10, <2>1, <2>2, <2>3, <2>4, <2>5, <2>6
<1>11. IsList(links', p, timepoint')
  BY <1>6, <1>7, <1>10 DEF IsList, Ordered, p
<1> QED
  BY <1>2, <1>4, <1>5, <1>11 DEF p

(* What delayed_event_remove does.                                           *)
LEMMA RemoveIs ==
  ASSUME ListInv, NEW q, IsList(links, q, timepoint), NEW e \in DelayedEvent, Remove(e)
  PROVE  \E r : IsWithout(r, q, e) /\ IsList(links', r, timepoint)
<1>1. timepoint \in [DelayedEvent -> Timepoints]
  BY DEF ListInv
<1>2. links' = Loosened(links, e)
  BY DEF Remove, Queued, Loosened
<1> QED
  BY <1>1, <1>2, Detached

(* The first event is called back: delayed_event_queue_check unlinks it      *)
(* without looking at its pprev.                                             *)
LEMMA FireIs ==
  ASSUME ListInv, NEW q, IsList(links, q, timepoint), Fire
  PROVE  1 \in 1 .. Len(q) /\ First = q[1] /\ q[1] \in DelayedEvent /\ IsList(links', Omit(q, 1), timepoint)
<1>1. /\ q \in Seq(DelayedEvent) /\ links \in Links /\ Len(q) \in Nat /\ Distinct(q) /\ Holds(links, q)
      /\ Ordered(q, timepoint) /\ timepoint \in [DelayedEvent -> Timepoints]
  BY DEF IsList, ListInv
<1>2. 0 \in 0 .. Len(q) /\ 0 + 1 = 1 /\ At(q, 0) = FirstCell
  BY <1>1, Places
<1>3. First = At(q, 1)
  BY <1>2 DEF First, Holds, IsList
<1>4. First # Null /\ links' = Clear(Point(links, FirstCell, links.next[First]), First)
  BY DEF Fire
<1>5. 1 \in 1 .. Len(q)
  BY <1>1, <1>3, <1>4, Places
<1>6. First = q[1] /\ q[1] \in DelayedEvent
  BY <1>1, <1>3, <1>5, Places
<1>7. links.pprev[q[1]] = FirstCell
  <2>1. links.pprev[q[1]] = At(q, 1 - 1) /\ 1 - 1 = 0
    BY <1>1, <1>5 DEF Holds
  <2> QED
    BY <1>2, <2>1
<1>8. links' = Unlink(links, q[1])
  BY <1>4, <1>6, <1>7 DEF Unlink
<1> QED
  BY <1>1, <1>5, <1>6, <1>8, Unlinked, Omitted, OmittedOrdered DEF IsList

(* The list is empty at first ...                                            *)
LEMMA ListStarts == ListInit => ListInv
<1> SUFFICES ASSUME ListInit PROVE ListInv
  OBVIOUS
<1>1. links \in Links /\ \A c \in Cells : links.next[c] = Null
  BY DEF ListInit, Links
<1>2. \A e \in DelayedEvent : links.pprev[e] = Null
  BY DEF ListInit
<1>3. <<>> \in Seq(DelayedEvent) /\ Len(<<>>) = 0
  OBVIOUS
<1>4. Distinct(<<>>) /\ Ordered(<<>>, timepoint)
  BY DEF Distinct, Ordered
<1>5. At(<<>>, 0) = FirstCell /\ At(<<>>, 0 + 1) = Null
  BY <1>3 DEF At
<1>6. Holds(links, <<>>)
  BY <1>1, <1>2, <1>3, <1>5, Constants DEF Holds
<1>7. timepoint \in [DelayedEvent -> Timepoints] /\ checking = 0 /\ fired = <<>>
  BY Constants DEF ListInit, Timepoints
<1> QED
  BY <1>1, <1>3, <1>4, <1>6, <1>7 DEF ListInv, IsList

(* ... and is a list after each step.                                        *)
LEMMA ListKept == ListInv /\ [ListNext]_list => ListInv'
<1> SUFFICES ASSUME ListInv, [ListNext]_list PROVE ListInv'
  OBVIOUS
<1>1. PICK q : IsList(links, q, timepoint)
  BY DEF ListInv
<1>2. /\ timepoint \in [DelayedEvent -> Timepoints] /\ checking \in Timepoints \union {0}
      /\ fired \in Seq(DelayedEvent)
  BY DEF ListInv
<1>3. ASSUME NEW e \in DelayedEvent, NEW t \in Timepoints, Add(e, t) PROVE ListInv'
  <2>1. \E p : IsList(links', p, timepoint')
    BY <1>1, <1>3, AddIs
  <2> QED
    BY <1>2, <1>3, <2>1 DEF ListInv, Add
<1>4. ASSUME NEW e \in DelayedEvent, Remove(e) PROVE ListInv'
  <2>1. (\E p : IsList(links', p, timepoint)) /\ UNCHANGED <<timepoint, checking, fired>>
    BY <1>1, <1>4, RemoveIs DEF Remove
  <2> QED
    BY <1>2, <2>1 DEF ListInv
<1>5. CASE Fire
  <2>1. First \in DelayedEvent /\ IsList(links', Omit(q, 1), timepoint)
    BY <1>1, <1>5, FireIs
  <2>2. timepoint' = timepoint /\ checking' = checking /\ fired' = Append(fired, First)
    BY <1>5 DEF Fire
  <2> QED
    BY <1>2, <2>1, <2>2 DEF ListInv
<1>6. ASSUME UNCHANGED <<links, timepoint>>, checking' \in Timepoints \union {0}, fired' \in Seq(DelayedEvent)
      PROVE  ListInv'
  BY <1>1, <1>2, <1>6 DEF ListInv
<1>7. ASSUME NEW t \in Timepoints, Start(t) PROVE ListInv'
  BY <1>2, <1>6, <1>7 DEF Start
<1>8. CASE Finish
  BY <1>2, <1>6, <1>8 DEF Finish
<1>9. CASE UNCHANGED list
  BY <1>2, <1>6, <1>9 DEF list
<1> QED
  BY <1>3, <1>4, <1>5, <1>7, <1>8, <1>9 DEF ListNext

(* The list of delayed events is always one.                                 *)
LEMMA ListAlways == ListSpec => []ListInv
BY ListStarts, ListKept, PTL DEF ListSpec

(* The list of delayed events has no cycle, holds the events with a pprev,   *)
(* and each pprev is the cell that points to the event, for any number of    *)
(* events and whatever the callbacks of a check add and remove.              *)
THEOREM ListWellLinked == ListSpec => []WellLinked
<1>1. ASSUME ListInv PROVE WellLinked
  <2>1. PICK q : IsList(links, q, timepoint)
    BY <1>1 DEF ListInv
  <2>2. q \in Seq(DelayedEvent) /\ links \in Links /\ Len(q) \in Nat /\ Distinct(q) /\ Holds(links, q)
    BY <2>1 DEF IsList
  <2>3. ListTypes
    BY <1>1, <2>2 DEF ListInv, ListTypes, Links
  <2>4. EventsOn(links) = {e \in DelayedEvent : Queued(e)}
    <3>1. EventsOn(links) = {q[i] : i \in 1 .. Len(q)} /\ \A i \in 1 .. Len(q) : q[i] \in DelayedEvent
      BY <2>2, EventsOnIs
    <3> QED
      BY <2>1, <3>1, QueuedIs DEF Queued
  <2>5. ASSUME NEW e \in DelayedEvent, Queued(e) PROVE links.next[links.pprev[e]] = e
    <3>1. PICK i \in 1 .. Len(q) : q[i] = e
      BY <2>1, <2>5, QueuedIs DEF Queued
    <3>2. i - 1 \in 0 .. Len(q) /\ (i - 1) + 1 = i /\ At(q, i) = q[i]
      BY <2>2, Places
    <3>3. links.pprev[e] = At(q, i - 1) /\ links.next[At(q, i - 1)] = At(q, (i - 1) + 1)
      BY <2>2, <3>1, <3>2 DEF Holds
    <3> QED
      BY <3>1, <3>2, <3>3
  <2>6. ASSUME Chain(links)[Cardinality(DelayedEvent)] # Null
        PROVE  links.next[Chain(links)[Cardinality(DelayedEvent)]] = Null
    <3> DEFINE N == Cardinality(DelayedEvent)
    <3>1. N \in Nat /\ Len(q) <= N /\ Chain(links)[N] = At(q, N)
      BY <2>2, ListBounded, ChainIs
    <3>2. N = Len(q)
      BY <2>2, <2>6, <3>1, Places
    <3>3. links.next[At(q, N)] = At(q, N + 1) /\ At(q, N + 1) = Null
      BY <2>2, <3>1, <3>2, Places DEF Holds
    <3> QED
      BY <3>1, <3>3
  <2> QED
    BY <2>3, <2>4, <2>5, <2>6 DEF WellLinked
<1> QED
  BY <1>1, ListAlways, PTL

--------------------------------------------------------------------------------
(* The abstract queue of a list.                                             *)
Entry == [event : DelayedEvent, time : Timepoints]

IsEntries(s, q, times) ==
  /\ s \in Seq(Entry) /\ Len(s) = Len(q)
  /\ \A i \in 1 .. Len(q) : s[i].event = q[i] /\ s[i].time = times[q[i]]

(* A list and its times have one abstract queue,                             *)
LEMMA SameEntries ==
  ASSUME NEW s, NEW z, NEW q, NEW times, IsEntries(s, q, times), IsEntries(z, q, times)
  PROVE  s = z
<1>1. s \in Seq(Entry) /\ z \in Seq(Entry) /\ Len(s) = Len(z)
  BY DEF IsEntries
<1>2. ASSUME NEW i \in 1 .. Len(s) PROVE s[i] = z[i]
  <2>1. s[i] \in Entry /\ z[i] \in Entry
    BY <1>1
  <2>2. s[i].event = z[i].event /\ s[i].time = z[i].time
    BY <1>1 DEF IsEntries
  <2> QED
    BY <2>1, <2>2 DEF Entry
<1> QED
  BY <1>1, <1>2

(* and Entries is that queue.                                                *)
LEMMA EntriesAre ==
  ASSUME NEW l, NEW q, NEW times \in [DelayedEvent -> Timepoints], IsList(l, q, times)
  PROVE  IsEntries(Entries(l, times), q, times)
<1>1. l \in Links /\ q \in Seq(DelayedEvent) /\ Distinct(q) /\ Holds(l, q) /\ Len(q) \in Nat
  BY DEF IsList
<1>2. Cardinality(EventsOn(l)) = Len(q) /\ \A n \in 1 .. Len(q) : Chain(l)[n] = q[n] /\ q[n] \in DelayedEvent
  BY <1>1, EventsOnIs
<1> DEFINE s == Entries(l, times)
<1>3. s = [n \in 1 .. Len(q) |-> [event |-> Chain(l)[n], time |-> times[Chain(l)[n]]]]
  BY <1>2 DEF Entries
<1> HIDE DEF s
<1>4. \A n \in 1 .. Len(q) : s[n] = [event |-> q[n], time |-> times[q[n]]] /\ s[n] \in Entry
  BY <1>2, <1>3 DEF Entry
<1>5. s \in Seq(Entry) /\ Len(s) = Len(q)
  <2>1. s \in [1 .. Len(q) -> Entry]
    BY <1>3, <1>4
  <2> QED
    BY <1>1, <2>1
<1>6. ASSUME NEW n \in 1 .. Len(q) PROVE s[n].event = q[n] /\ s[n].time = times[q[n]]
  <2>1. s[n] = [event |-> q[n], time |-> times[q[n]]]
    BY <1>4
  <2> QED
    BY <2>1
<1>7. IsEntries(s, q, times)
  BY <1>5, <1>6 DEF IsEntries
<1> QED
  BY <1>7 DEF s

(* Two sequences, one behind the other.                                      *)
LEMMA Joined ==
  ASSUME NEW x \in Seq(Entry), NEW y \in Seq(Entry)
  PROVE  /\ x \o y \in Seq(Entry) /\ Len(x \o y) = Len(x) + Len(y)
         /\ \A i \in 1 .. Len(x) + Len(y) : (x \o y)[i] = IF i <= Len(x) THEN x[i] ELSE y[i - Len(x)]
OBVIOUS

(* A sequence without its element at place j, and with one behind the first k.*)
Cut(s, j) == SubSeq(s, 1, j - 1) \o SubSeq(s, j + 1, Len(s))
Wedged(s, k, new) == SubSeq(s, 1, k) \o <<new>> \o SubSeq(s, k + 1, Len(s))

LEMMA CutIs ==
  ASSUME NEW s \in Seq(Entry), NEW j \in 1 .. Len(s)
  PROVE  /\ Cut(s, j) \in Seq(Entry) /\ Len(Cut(s, j)) = Len(s) - 1
         /\ \A i \in 1 .. Len(s) - 1 : Cut(s, j)[i] = IF i < j THEN s[i] ELSE s[i + 1]
<1> DEFINE x == SubSeq(s, 1, j - 1)
           y == SubSeq(s, j + 1, Len(s))
<1>1. Len(s) \in Nat /\ j \in 1 .. Len(s)
  OBVIOUS
<1>2. x \in Seq(Entry) /\ Len(x) = j - 1 /\ \A i \in 1 .. j - 1 : x[i] = s[i]
  BY <1>1
<1>3. y \in Seq(Entry) /\ Len(y) = Len(s) - j /\ \A i \in 1 .. Len(s) - j : y[i] = s[j + i]
  BY <1>1
<1> HIDE DEF x, y
<1> DEFINE c == x \o y
<1>j. /\ c \in Seq(Entry) /\ Len(c) = Len(x) + Len(y)
      /\ \A i \in 1 .. Len(x) + Len(y) : c[i] = IF i <= Len(x) THEN x[i] ELSE y[i - Len(x)]
  BY <1>2, <1>3, Joined
<1> HIDE DEF c
<1>4. c \in Seq(Entry) /\ Len(c) = Len(s) - 1
  BY <1>1, <1>2, <1>3, <1>j
<1>l. Len(x) = j - 1 /\ Len(y) = Len(s) - j
  BY <1>2, <1>3
<1>5. ASSUME NEW i \in 1 .. Len(s) - 1 PROVE c[i] = IF i < j THEN s[i] ELSE s[i + 1]
  <2>1. CASE i < j
    <3>1. i \in 1 .. Len(x) + Len(y) /\ i <= Len(x) /\ i \in 1 .. j - 1
      BY <1>1, <1>l, <2>1
    <3> QED
      BY <1>2, <1>j, <2>1, <3>1
  <2>2. CASE ~(i < j)
    <3>1. /\ i \in 1 .. Len(x) + Len(y) /\ ~(i <= Len(x)) /\ i - Len(x) \in 1 .. Len(s) - j
          /\ j + (i - Len(x)) = i + 1
      BY <1>1, <1>l, <2>2
    <3> QED
      BY <1>3, <1>j, <2>2, <3>1
  <2> QED
    BY <2>1, <2>2
<1> QED
  BY <1>4, <1>5 DEF Cut, x, y, c

(* What it is when an entry is put in.                                       *)
LEMMA WedgedIs ==
  ASSUME NEW s \in Seq(Entry), NEW k \in 0 .. Len(s), NEW new \in Entry
  PROVE  /\ Wedged(s, k, new) \in Seq(Entry) /\ Len(Wedged(s, k, new)) = Len(s) + 1
         /\ \A i \in 1 .. Len(s) + 1 :
              Wedged(s, k, new)[i] = IF i <= k THEN s[i] ELSE IF i = k + 1 THEN new ELSE s[i - 1]
<1> DEFINE x == SubSeq(s, 1, k)
           y == SubSeq(s, k + 1, Len(s))
           z == x \o <<new>>
<1>1. Len(s) \in Nat /\ k \in 0 .. Len(s)
  OBVIOUS
<1>2. x \in Seq(Entry) /\ Len(x) = k /\ \A i \in 1 .. k : x[i] = s[i]
  BY <1>1
<1>3. y \in Seq(Entry) /\ Len(y) = Len(s) - k /\ \A i \in 1 .. Len(s) - k : y[i] = s[k + i]
  BY <1>1
<1> HIDE DEF x, y
<1>4. z \in Seq(Entry) /\ Len(z) = k + 1 /\ \A i \in 1 .. k + 1 : z[i] = IF i <= k THEN s[i] ELSE new
  BY <1>1, <1>2
<1> HIDE DEF z
<1> DEFINE c == z \o y
<1>j. /\ c \in Seq(Entry) /\ Len(c) = Len(z) + Len(y)
      /\ \A i \in 1 .. Len(z) + Len(y) : c[i] = IF i <= Len(z) THEN z[i] ELSE y[i - Len(z)]
  BY <1>3, <1>4, Joined
<1> HIDE DEF c
<1>5. c \in Seq(Entry) /\ Len(c) = Len(s) + 1
  BY <1>1, <1>3, <1>4, <1>j
<1>l. Len(z) = k + 1 /\ Len(y) = Len(s) - k
  BY <1>3, <1>4
<1>6. ASSUME NEW i \in 1 .. Len(s) + 1
      PROVE  c[i] = IF i <= k THEN s[i] ELSE IF i = k + 1 THEN new ELSE s[i - 1]
  <2>1. CASE i <= k + 1
    <3>1. i \in 1 .. Len(z) + Len(y) /\ i <= Len(z) /\ i \in 1 .. k + 1 /\ (~(i <= k) => i = k + 1)
      BY <1>1, <1>l, <2>1
    <3> QED
      BY <1>4, <1>j, <3>1
  <2>2. CASE ~(i <= k + 1)
    <3>1. /\ i \in 1 .. Len(z) + Len(y) /\ ~(i <= Len(z)) /\ i - Len(z) \in 1 .. Len(s) - k
          /\ k + (i - Len(z)) = i - 1 /\ ~(i <= k) /\ i # k + 1
      BY <1>1, <1>l, <2>2
    <3> QED
      BY <1>3, <1>j, <3>1
  <2> QED
    BY <2>1, <2>2
<1> QED
  BY <1>5, <1>6 DEF Wedged, x, y, z, c

(* The entries without an event.                                             *)
LEMMA WithoutIs ==
  ASSUME NEW q \in Seq(DelayedEvent), Distinct(q), NEW r, NEW e \in DelayedEvent, IsWithout(r, q, e),
         IsEntries(Entries(links, timepoint), q, timepoint)
  PROVE  IsEntries(Queue!Without(e), r, timepoint)
<1> DEFINE s == Entries(links, timepoint)
           Is(i) == i \in DOMAIN s /\ s[i].event = e
           j == CHOOSE i \in DOMAIN s : s[i].event = e
<1>1. /\ s \in Seq(Entry) /\ Len(s) = Len(q) /\ Len(q) \in Nat /\ DOMAIN s = 1 .. Len(q)
      /\ \A i \in 1 .. Len(q) : s[i].event = q[i] /\ s[i].time = timepoint[q[i]]
  BY DEF IsEntries
<1>2. Queue!Without(e) = IF \E i \in DOMAIN s : s[i].event = e
                         THEN SubSeq(s, 1, j - 1) \o SubSeq(s, j + 1, Len(s)) ELSE s
  BY DEF Queue!Without
<1> HIDE DEF s
<1>3. CASE r = q /\ \A i \in 1 .. Len(q) : q[i] # e
  BY <1>1, <1>2, <1>3 DEF IsEntries
<1>4. ASSUME NEW m \in 1 .. Len(q), q[m] = e, r = Omit(q, m) PROVE IsEntries(Queue!Without(e), r, timepoint)
  <2>1. j \in 1 .. Len(q) /\ s[j].event = e
    BY <1>1, <1>4
  <2>2. j = m
    BY <1>1, <1>4, <2>1 DEF Distinct
  <2> DEFINE c == Cut(s, m)
  <2>3. Queue!Without(e) = c
    BY <1>1, <1>2, <1>4, <2>2 DEF Cut
  <2>4. /\ c \in Seq(Entry) /\ Len(c) = Len(q) - 1
        /\ \A i \in 1 .. Len(q) - 1 : c[i] = IF i < m THEN s[i] ELSE s[i + 1]
    <3>1. m \in 1 .. Len(s) /\ s \in Seq(Entry)
      BY <1>1
    <3>2. /\ Cut(s, m) \in Seq(Entry) /\ Len(Cut(s, m)) = Len(s) - 1
          /\ \A i \in 1 .. Len(s) - 1 : Cut(s, m)[i] = IF i < m THEN s[i] ELSE s[i + 1]
      BY <3>1, CutIs
    <3> QED
      BY <1>1, <3>2
  <2>5. /\ Len(r) = Len(q) - 1
        /\ \A i \in 1 .. Len(q) - 1 : r[i] = IF i < m THEN q[i] ELSE q[i + 1]
    BY <1>4, Omitted
  <2> HIDE DEF c
  <2>6. ASSUME NEW i \in 1 .. Len(r) PROVE c[i].event = r[i] /\ c[i].time = timepoint[r[i]]
    <3>1. i \in 1 .. Len(q) - 1 /\ i \in 1 .. Len(q) /\ i + 1 \in 1 .. Len(q)
      BY <1>1, <2>5
    <3> QED
      BY <1>1, <2>4, <2>5, <3>1
  <2> QED
    BY <2>3, <2>4, <2>5, <2>6 DEF IsEntries
<1> QED
  BY <1>3, <1>4 DEF IsWithout

(* Each operation of the list is that of the queue: delayed_event_add,       *)
LEMMA AddRefines ==
  ASSUME ListInv, NEW e \in DelayedEvent, NEW t \in Timepoints, Add(e, t)
  PROVE  Queue!Add(e, t)
<1>1. PICK q : IsList(links, q, timepoint)
  BY DEF ListInv
<1>2. q \in Seq(DelayedEvent) /\ Distinct(q) /\ timepoint \in [DelayedEvent -> Timepoints]
  BY <1>1 DEF IsList, ListInv
<1>3. PICK r, k : /\ IsWithout(r, q, e) /\ IsList(links', Put(r, k, e), timepoint')
                  /\ r \in Seq(DelayedEvent) /\ Distinct(r) /\ k \in 0 .. Len(r)
                  /\ \A i \in 1 .. Len(r) : r[i] # e /\ (i <= k <=> timepoint[r[i]] <= t)
  BY <1>1, AddIs
<1> DEFINE s == Queue!Without(e)
           new == [event |-> e, time |-> t]
           c == Wedged(s, k, new)
           p == Put(r, k, e)
<1>4. IsEntries(s, r, timepoint)
  BY <1>1, <1>2, <1>3, EntriesAre, WithoutIs
<1>5. UNCHANGED <<checking, fired>> /\ timepoint' = [timepoint EXCEPT ![e] = t]
  BY DEF Add
<1>6. timepoint' \in [DelayedEvent -> Timepoints]
  BY <1>2, <1>5
<1>7. IsEntries(Entries(links', timepoint'), p, timepoint')
  BY <1>3, <1>6, EntriesAre
<1>8. /\ s \in Seq(Entry) /\ Len(s) = Len(r) /\ Len(r) \in Nat /\ DOMAIN s = 1 .. Len(r)
      /\ \A i \in 1 .. Len(r) : s[i].event = r[i] /\ s[i].time = timepoint[r[i]]
  BY <1>3, <1>4 DEF IsEntries
<1>9. new \in Entry /\ new.event = e /\ new.time = t
  BY DEF Entry
<1>10. /\ Len(p) = Len(r) + 1
       /\ \A i \in 1 .. Len(r) + 1 : p[i] = IF i <= k THEN r[i] ELSE IF i = k + 1 THEN e ELSE r[i - 1]
  BY <1>3, PutIs
<1>11. /\ c \in Seq(Entry) /\ Len(c) = Len(s) + 1
       /\ \A i \in 1 .. Len(s) + 1 : c[i] = IF i <= k THEN s[i] ELSE IF i = k + 1 THEN new ELSE s[i - 1]
  <2>1. k \in 0 .. Len(s)
    BY <1>3, <1>8
  <2> HIDE DEF s, new
  <2> QED
    BY <1>8, <1>9, <2>1, WedgedIs
<1>12. timepoint'[e] = t /\ \A i \in 1 .. Len(r) : timepoint'[r[i]] = timepoint[r[i]]
  BY <1>2, <1>3, <1>5
<1>13. IsEntries(c, p, timepoint')
  <2> HIDE DEF s, new, c, p
  <2>1. ASSUME NEW i \in 1 .. Len(p) PROVE c[i].event = p[i] /\ c[i].time = timepoint'[p[i]]
    <3>1. i \in 1 .. Len(r) + 1 /\ k \in 0 .. Len(r)
      BY <1>3, <1>10
    <3>2. CASE i <= k
      <4>1. i \in 1 .. Len(r)
        BY <1>8, <3>1, <3>2
      <4>2. c[i] = s[i] /\ p[i] = r[i]
        BY <1>8, <1>10, <1>11, <3>1, <3>2
      <4> QED
        BY <1>8, <1>12, <4>1, <4>2
    <3>3. CASE i = k + 1
      <4>1. c[i] = new /\ p[i] = e
        BY <1>8, <1>10, <1>11, <3>1, <3>3
      <4> QED
        BY <1>9, <1>12, <4>1
    <3>4. CASE ~(i <= k) /\ i # k + 1
      <4>1. i - 1 \in 1 .. Len(r)
        BY <1>8, <3>1, <3>4
      <4>2. c[i] = s[i - 1] /\ p[i] = r[i - 1]
        BY <1>8, <1>10, <1>11, <3>1, <3>4
      <4> QED
        BY <1>8, <1>12, <4>1, <4>2
    <3> QED
      BY <3>2, <3>3, <3>4
  <2> QED
    BY <1>8, <1>10, <1>11, <2>1 DEF IsEntries
<1>14. Entries(links', timepoint') = c
  BY <1>7, <1>13, SameEntries
<1>15. k \in 0 .. Len(s) /\ \A i \in DOMAIN s : i <= k <=> s[i].time <= t
  BY <1>3, <1>8
<1> HIDE DEF s
<1> QED
  BY <1>5, <1>14, <1>15 DEF Queue!Add, Wedged, s

(* delayed_event_remove,                                                     *)
LEMMA RemoveRefines ==
  ASSUME ListInv, NEW e \in DelayedEvent, Remove(e)
  PROVE  Queue!Remove(e)
<1>1. PICK q : IsList(links, q, timepoint)
  BY DEF ListInv
<1>2. q \in Seq(DelayedEvent) /\ Distinct(q) /\ timepoint \in [DelayedEvent -> Timepoints]
  BY <1>1 DEF IsList, ListInv
<1>3. PICK r : IsWithout(r, q, e) /\ IsList(links', r, timepoint)
  BY <1>1, RemoveIs
<1>4. UNCHANGED <<timepoint, checking, fired>>
  BY DEF Remove
<1>5. IsEntries(Queue!Without(e), r, timepoint)
  BY <1>1, <1>2, <1>3, EntriesAre, WithoutIs
<1>6. IsEntries(Entries(links', timepoint), r, timepoint)
  BY <1>2, <1>3, EntriesAre
<1>7. Entries(links', timepoint) = Queue!Without(e)
  BY <1>5, <1>6, SameEntries
<1> QED
  BY <1>4, <1>7 DEF Queue!Remove

(* the callback of the first event,                                          *)
LEMMA FireRefines ==
  ASSUME ListInv, Fire
  PROVE  Queue!Fire
<1>1. PICK q : IsList(links, q, timepoint)
  BY DEF ListInv
<1>2. /\ q \in Seq(DelayedEvent) /\ Distinct(q) /\ timepoint \in [DelayedEvent -> Timepoints] /\ Len(q) \in Nat
  BY <1>1 DEF IsList, ListInv
<1>3. 1 \in 1 .. Len(q) /\ First = q[1] /\ IsList(links', Omit(q, 1), timepoint)
  BY <1>1, FireIs
<1> DEFINE s == Entries(links, timepoint)
<1>4. /\ timepoint[First] <= checking /\ fired' = Append(fired, First)
      /\ UNCHANGED <<timepoint, checking>>
  BY DEF Fire, Due
<1>5. IsEntries(s, q, timepoint) /\ IsEntries(Entries(links', timepoint), Omit(q, 1), timepoint)
  BY <1>1, <1>2, <1>3, EntriesAre
<1> HIDE DEF s
<1>6. /\ s \in Seq(Entry) /\ Len(s) = Len(q)
      /\ \A i \in 1 .. Len(q) : s[i].event = q[i] /\ s[i].time = timepoint[q[i]]
  BY <1>5 DEF IsEntries
<1>7. s # <<>> /\ Head(s) = s[1]
  BY <1>2, <1>3, <1>6
<1>8. Tail(s) \in Seq(Entry) /\ Len(Tail(s)) = Len(q) - 1 /\ \A i \in 1 .. Len(q) - 1 : Tail(s)[i] = s[i + 1]
  BY <1>2, <1>6, <1>7
<1>9. Len(Omit(q, 1)) = Len(q) - 1 /\ \A i \in 1 .. Len(q) - 1 : Omit(q, 1)[i] = q[i + 1]
  <2>1. \A i \in 1 .. Len(q) - 1 : ~(i < 1)
    BY <1>2
  <2> QED
    BY <1>2, <1>3, <2>1, Omitted
<1>10. IsEntries(Tail(s), Omit(q, 1), timepoint)
  <2>1. ASSUME NEW i \in 1 .. Len(q) - 1
        PROVE  Tail(s)[i].event = Omit(q, 1)[i] /\ Tail(s)[i].time = timepoint[Omit(q, 1)[i]]
    <3>1. i + 1 \in 1 .. Len(q)
      BY <1>2
    <3> QED
      BY <1>6, <1>8, <1>9, <3>1
  <2> QED
    BY <1>8, <1>9, <2>1 DEF IsEntries
<1>11. Entries(links', timepoint) = Tail(s)
  BY <1>5, <1>10, SameEntries
<1>12. Head(s).event = First /\ Head(s).time = timepoint[First]
  BY <1>3, <1>6, <1>7
<1> QED
  BY <1>4, <1>7, <1>11, <1>12 DEF Queue!Fire, s

(* and the end of a check, when no event that is left is due.                *)
LEMMA FinishRefines ==
  ASSUME ListInv, Finish
  PROVE  Queue!Finish
<1>1. PICK q : IsList(links, q, timepoint)
  BY DEF ListInv
<1>2. /\ q \in Seq(DelayedEvent) /\ links \in Links /\ Len(q) \in Nat /\ Holds(links, q) /\ Ordered(q, timepoint)
      /\ timepoint \in [DelayedEvent -> Timepoints] /\ checking \in Timepoints \union {0}
  BY <1>1 DEF IsList, ListInv
<1>3. /\ checking # 0 /\ (First # Null => ~(timepoint[First] <= checking)) /\ checking' = 0 /\ fired' = <<>>
      /\ UNCHANGED <<links, timepoint>>
  BY DEF Finish, Due
<1> DEFINE s == Entries(links, timepoint)
<1>4. IsEntries(s, q, timepoint)
  BY <1>1, <1>2, EntriesAre
<1> HIDE DEF s
<1>5. /\ DOMAIN s = 1 .. Len(q) /\ \A i \in 1 .. Len(q) : s[i].time = timepoint[q[i]]
  BY <1>2, <1>4 DEF IsEntries
<1>6. ASSUME NEW i \in 1 .. Len(q) PROVE timepoint[q[i]] > checking
  <2>1. 1 \in 1 .. Len(q) /\ 0 \in 0 .. Len(q) /\ 0 + 1 = 1 /\ (i = 1 \/ 1 < i)
    BY <1>2
  <2>2. First = q[1] /\ q[1] \in DelayedEvent
    BY <1>2, <2>1, Places DEF First, Holds
  <2>3. ~(timepoint[q[1]] <= checking) /\ (i = 1 \/ timepoint[q[1]] <= timepoint[q[i]])
    BY <1>2, <1>3, <2>1, <2>2, Constants DEF Ordered
  <2>4. timepoint[q[1]] \in Int /\ timepoint[q[i]] \in Int /\ checking \in Int
    BY <1>2, <2>1, Constants DEF Timepoints
  <2> QED
    BY <2>3, <2>4
<1>7. \A i \in DOMAIN s : s[i].time > checking
  BY <1>5, <1>6
<1> QED
  BY <1>3, <1>7 DEF Queue!Finish, s

(* The list of cells implements the queue sorted by time: an event is behind *)
(* those that are due not later than it, and a check calls back all that are *)
(* due, the first one first.                                                 *)
THEOREM ListImplementsQueue == ListSpec => QueueSpec
<1>1. ASSUME ListInit PROVE Queue!Init
  <2>1. ListInv /\ \A e \in DelayedEvent : ~Queued(e)
    BY <1>1, ListStarts DEF ListInit, Queued
  <2>2. PICK q : IsList(links, q, timepoint)
    BY <2>1 DEF ListInv
  <2>3. q \in Seq(DelayedEvent) /\ Len(q) \in Nat /\ \A i \in 1 .. Len(q) : q[i] \in DelayedEvent
    BY <2>2 DEF IsList
  <2>4. Len(q) = 0
    <3>1. \A i \in 1 .. Len(q) : FALSE
      BY <2>1, <2>2, <2>3, QueuedIs DEF Queued
    <3>2. ~(1 <= Len(q))
      BY <2>3, <3>1
    <3> QED
      BY <2>3, <3>2
  <2>5. IsEntries(Entries(links, timepoint), q, timepoint)
    BY <2>1, <2>2, EntriesAre DEF ListInv
  <2>6. Entries(links, timepoint) \in Seq(Entry) /\ Len(Entries(links, timepoint)) = 0
    BY <2>4, <2>5 DEF IsEntries
  <2>7. Entries(links, timepoint) = <<>>
    BY <2>6
  <2> QED
    BY <1>1, <2>7 DEF Queue!Init, ListInit
<1>2. ASSUME ListInv, [ListNext]_list PROVE [Queue!Next]_Queue!vars
  <2>1. ASSUME NEW e \in DelayedEvent, NEW t \in Timepoints, Add(e, t) PROVE Queue!Next
    BY <1>2, <2>1, AddRefines DEF Queue!Next
  <2>2. ASSUME NEW e \in DelayedEvent, Remove(e) PROVE Queue!Next
    BY <1>2, <2>2, RemoveRefines DEF Queue!Next
  <2>3. ASSUME NEW t \in Timepoints, Start(t) PROVE Queue!Next
    BY <2>3 DEF Queue!Next, Queue!Start, Start
  <2>4. CASE Fire
    BY <1>2, <2>4, FireRefines DEF Queue!Next
  <2>5. CASE Finish
    BY <1>2, <2>5, FinishRefines DEF Queue!Next
  <2>6. CASE UNCHANGED list
    BY <2>6 DEF Queue!vars, list
  <2> QED
    BY <1>2, <2>1, <2>2, <2>3, <2>4, <2>5, <2>6 DEF ListNext
<1> QED
  BY <1>1, <1>2, ListAlways, PTL DEF ListSpec, QueueSpec, Queue!Spec
================================================================================
