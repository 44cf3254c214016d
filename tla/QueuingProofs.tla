----------------------------- MODULE QueuingProofs -----------------------------
(***************************************************************************)
(* Proofs about the queuing channel, for buffers of any size, and about the  *)
(* processes at its ports, for any number of processes, priorities and      *)
(* slots.                                                                  *)
(***************************************************************************)
EXTENDS QueuingPort, SequenceTheorems, FiniteSetTheorems, NaturalsInduction,
        WellFoundedInduction, TLAPS

(* The type invariant holds at first and is preserved by every step.       *)
LEMMA TypeInit == Init => TypeOK
<1>. SUFFICES ASSUME Init PROVE TypeOK
  OBVIOUS
<1>1. 0 \in Positions /\ 1 \in 1 .. MaxGeneration /\ 0 \in 0 .. MaxGeneration
  BY ChannelAssumption DEF ChannelAssumption, Positions, Total
<1>. QED
  BY <1>1, Zenon DEF Init, TypeOK

LEMMA FlagTyped ==
  ASSUME NEW f \in [Sides -> BOOLEAN], NEW g, NEW side \in Sides, NEW b \in BOOLEAN,
         g \in {f, [f EXCEPT ![side] = b], [f EXCEPT ![side] = @ \/ b]}
  PROVE  g \in [Sides -> BOOLEAN]
  OBVIOUS

LEMMA TypeStep ==
  ASSUME TypeOK, [Next]_vars
  PROVE  TypeOK'
<1>0. isNotify \in [Sides -> BOOLEAN] /\ fired \in [Sides -> BOOLEAN]
  BY DEF TypeOK
<1> USE ChannelAssumption DEF ChannelAssumption, TypeOK, Sides
<1>1. \A pos \in Positions : CyclicAdd(pos, 1) \in Positions
  BY DEF CyclicAdd, Positions, Total
<1>2. ASSUME NEW side \in Sides, Create(side)  PROVE TypeOK'
  BY <1>2 DEF Create, SideInit, params, ports
<1>3. ASSUME NEW side \in Sides, Restart(side)  PROVE TypeOK'
  BY <1>3 DEF Restart, params, struct
<1>4. CASE Clear
  BY <1>4 DEF Clear, SideInit, params
<1>5. ASSUME NEW side \in Sides, LocalEnable(side)  PROVE TypeOK'
  BY <1>5 DEF LocalEnable, params, struct
<1>6. ASSUME NEW side \in Sides, NobodyWaits(side) \/ OtherCall(side)  PROVE TypeOK'
  <2>1. CASE NobodyWaits(side)
    BY <2>1 DEF NobodyWaits, params, struct
  <2>2. CASE OtherCall(side)
    BY <2>2 DEF OtherCall, params, struct
  <2>. QED
    BY <1>6, <2>1, <2>2
<1>7. ASSUME NEW subscribe \in BOOLEAN, RecvGet(subscribe)  PROVE TypeOK'
  <2>1. /\ isNotify' \in {isNotify, [isNotify EXCEPT !["recv"] = @ \/ subscribe]}
        /\ fired' \in {fired, [fired EXCEPT !["recv"] = FALSE]}
    BY <1>7 DEF RecvGet, Granted, Denied
  <2>2. isNotify' \in [Sides -> BOOLEAN] /\ fired' \in [Sides -> BOOLEAN]
    BY <2>1, <1>0, FlagTyped
  <2>3. pc' \in [Sides -> {"idle", "loop", "got", "copied", "enable"}]
    BY <1>7 DEF RecvGet, Granted, Denied
  <2>. QED
    BY <1>7, <2>2, <2>3 DEF RecvGet, params
<1>8. ASSUME NEW subscribe \in BOOLEAN, SendGet(subscribe)  PROVE TypeOK'
  <2>1. /\ isNotify' \in {isNotify, [isNotify EXCEPT !["send"] = @ \/ subscribe]}
        /\ fired' \in {fired, [fired EXCEPT !["send"] = FALSE]}
    BY <1>8 DEF SendGet, Granted, Denied
  <2>2. isNotify' \in [Sides -> BOOLEAN] /\ fired' \in [Sides -> BOOLEAN]
    BY <2>1, <1>0, FlagTyped
  <2>3. pc' \in [Sides -> {"idle", "loop", "got", "copied", "enable"}]
    BY <1>8 DEF SendGet, Granted, Denied
  <2>. QED
    BY <1>8, <2>2, <2>3 DEF SendGet, params
<1>9. CASE RecvCopy
  BY <1>9 DEF RecvCopy, params, struct
<1>10. CASE RecvConsume
  <2>0. isNotify' \in {isNotify, [isNotify EXCEPT !["send"] = FALSE]}
    BY <1>10 DEF RecvConsume, SideNotify, MessagePasses
  <2>1. isNotify' \in [Sides -> BOOLEAN]
    BY <2>0, <1>0, FlagTyped
  <2>2. received' \in [message : Messages \union {NoMessage}, lost : BOOLEAN]
    BY <1>10 DEF RecvConsume
  <2>3. border' \in Positions /\ next' \in [Sides -> Positions]
    BY <1>1, <1>10 DEF RecvConsume
  <2>4. events' \in [Sides -> Nat]
    BY <1>10 DEF RecvConsume, SideNotify
  <2>5. pc' \in [Sides -> {"idle", "loop", "got", "copied", "enable"}]
    BY <1>10 DEF RecvConsume, Done
  <2>. QED
    BY <1>10, <2>1, <2>2, <2>3, <2>4, <2>5 DEF RecvConsume, Done, params
<1>11. ASSUME NEW m \in Messages, SendCopy(m)  PROVE TypeOK'
  BY <1>11 DEF SendCopy, params, struct
<1>12. CASE SendProduce
  <2>0. isNotify' \in {isNotify, [isNotify EXCEPT !["recv"] = FALSE]}
    BY <1>12 DEF SendProduce, SideNotify
  <2>1. isNotify' \in [Sides -> BOOLEAN]
    BY <2>0, <1>0, FlagTyped
  <2>3. border' \in Positions /\ next' \in [Sides -> Positions]
    BY <1>1, <1>12 DEF SendProduce
  <2>4. events' \in [Sides -> Nat]
    BY <1>12 DEF SendProduce, SideNotify
  <2>5. pc' \in [Sides -> {"idle", "loop", "got", "copied", "enable"}]
    BY <1>12 DEF SendProduce, Done
  <2>6. discarded' \in BOOLEAN
    BY <1>12 DEF SendProduce
  <2>. QED
    BY <1>12, <2>1, <2>3, <2>4, <2>5, <2>6 DEF SendProduce, Done, params
<1>13. CASE UNCHANGED vars
  BY <1>13 DEF vars, params, struct, ports
<1>. QED
  BY <1>2, <1>3, <1>4, <1>5, <1>6, <1>7, <1>8, <1>9, <1>10, <1>11, <1>12,
     <1>13 DEF Next

--------------------------------------------------------------------------------
(***************************************************************************)
(* The inductive invariant.  A receiver that is cleared or restarted finds  *)
(* itself empty in front of up to SendMax waiting messages, which reach it  *)
(* all at once with the next one sent: it has room for them only if it has  *)
(* as many slots as the sender.                                            *)
(***************************************************************************)
Sized == SendMax <= RecvMax \/ ~recvReinit

Counts ==
  /\ SendCount <= SendMax /\ RecvWithinLimit
  /\ SendCount > 0 => ~discard /\ (Ready("recv") \/ recvReinit)

Operations ==
  \A side \in Sides :
    /\ generation[side] <= partGen[side]
    /\ pc[side] # "idle" => Ready(side)
    /\ pc[side] = "loop" => fired[side]
    /\ fired[side] => pc[side] \in {"loop", "got", "copied"}

Subscriptions ==
  /\ isNotify["recv"] /\ Ready("recv") => RecvCount = 0
  /\ isNotify["send"] => SendCount = SendMax
  /\ \A side \in Sides :
       events[side] > 0 \/ fired[side] => ~isNotify[side]

(* The event of a port is there because of what it announces, until the    *)
(* operation that takes this away ends; by then the ring is emptied.       *)
Events ==
  /\ EventsFitRing
  /\ \A side \in Sides : fired[side] => events[side] = 0
  /\ events["recv"] > 0 /\ pc["recv"] # "enable" => RecvCount > 0
  /\ events["send"] > 0 /\ pc["send"] # "enable" => SendCount < SendMax

Core == Counts /\ Operations /\ AssertsHold /\ Subscriptions /\ Events
          /\ WaitingBehindFull

IInv == TypeOK /\ (Sized => Core)
--------------------------------------------------------------------------------
(* The cyclic arithmetic of channel.c: a distance is in the range of the   *)
(* positions, and zero between equal positions only.                       *)
LEMMA CyclicSubRange ==
  ASSUME NEW p \in Positions, NEW q \in Positions
  PROVE  CyclicSub(p, q) \in Nat /\ CyclicSub(p, q) < Total /\ (CyclicSub(p, q) = 0 <=> p = q)
BY ChannelAssumption DEF ChannelAssumption, CyclicSub, Positions, Total

(* One position further at the end, at the start, or at both.              *)
LEMMA CyclicSubAdd ==
  ASSUME NEW p \in Positions, NEW q \in Positions
  PROVE  /\ CyclicAdd(p, 1) \in Positions
         /\ CyclicSub(p, q) + 1 < Total =>
              CyclicSub(CyclicAdd(p, 1), q) = CyclicSub(p, q) + 1
         /\ p # q => CyclicSub(p, CyclicAdd(q, 1)) = CyclicSub(p, q) - 1
         /\ CyclicSub(CyclicAdd(p, 1), CyclicAdd(q, 1)) = CyclicSub(p, q)
BY ChannelAssumption DEF ChannelAssumption, CyclicAdd, CyclicSub, Positions, Total

(* Distances add up while they fit in the array.                           *)
LEMMA CyclicSubSum ==
  ASSUME NEW p \in Positions, NEW q \in Positions, NEW r \in Positions,
         CyclicSub(p, q) + CyclicSub(q, r) < Total
  PROVE  CyclicSub(p, r) = CyclicSub(p, q) + CyclicSub(q, r)
BY ChannelAssumption DEF ChannelAssumption, CyclicSub, Positions, Total

(* The range of the two counters of the channel.                           *)
LEMMA CountRange ==
  ASSUME TypeOK
  PROVE  /\ RecvCount \in Nat /\ RecvCount < Total
         /\ SendCount \in Nat /\ SendCount < Total
         /\ RecvCount = 0 <=> border = next["recv"]
         /\ SendCount = 0 <=> border = next["send"]
BY CyclicSubRange DEF TypeOK, RecvCount, SendCount, Sides

(* What a step does to the two counters, for the steps that move positions.*)
LEMMA ConsumeCounts ==
  ASSUME TypeOK, RecvConsume, RecvCount > 0
  PROVE  /\ MessagePasses => RecvCount' = RecvCount /\ SendCount' = SendCount - 1
         /\ ~MessagePasses => RecvCount' = RecvCount - 1 /\ SendCount' = SendCount
<1>1. border # next["recv"]
  BY CountRange
<1>2. next' = [next EXCEPT !["recv"] = CyclicAdd(@, 1)]
  BY DEF RecvConsume
<1>3. next["recv"] \in Positions /\ next["send"] \in Positions /\ border \in Positions
  BY DEF TypeOK, Sides
<1>4. next'["recv"] = CyclicAdd(next["recv"], 1) /\ next'["send"] = next["send"]
  BY <1>2 DEF TypeOK, Sides
<1>5. CASE MessagePasses
  <2>1. border' = CyclicAdd(border, 1) /\ border # next["send"]
    BY <1>5 DEF RecvConsume, MessagePasses
  <2>. QED
    BY <1>3, <1>4, <1>5, <2>1, CyclicSubAdd DEF RecvCount, SendCount
<1>6. CASE ~MessagePasses
  <2>1. border' = border
    BY <1>6 DEF RecvConsume
  <2>. QED
    BY <1>1, <1>3, <1>4, <1>6, <2>1, CyclicSubAdd DEF RecvCount, SendCount
<1>. QED
  BY <1>5, <1>6

LEMMA ProduceCounts ==
  ASSUME TypeOK, SendProduce, SendCount < SendMax,
         Ready("recv") => RecvCount <= RecvMax
  PROVE  /\ Ready("recv") /\ RecvHasRoom =>
              /\ SendCount' = 0
              /\ RecvCount + SendCount + 1 < Total =>
                   RecvCount' = RecvCount + SendCount + 1
         /\ Ready("recv") /\ ~RecvHasRoom =>
              /\ RecvCount' = RecvCount
              /\ discard => SendCount' = 0
              /\ ~discard => SendCount' = SendCount + 1
         /\ ~Ready("recv") => SendCount' = 0
<1>1. /\ next["recv"] \in Positions /\ next["send"] \in Positions
      /\ border \in Positions
  BY DEF TypeOK, Sides
<1> DEFINE filled == CyclicAdd(next["send"], 1)
<1>2. filled \in Positions /\ CyclicSub(filled, border) = SendCount + 1
  BY <1>1, CyclicSubAdd, CountRange, ChannelAssumption
  DEF SendCount, ChannelAssumption, Total
<1>3. CyclicSub(filled, filled) = 0 /\ CyclicSub(border, border) = 0
  BY <1>1, <1>2, CyclicSubRange
<1>4. ASSUME RecvCount + SendCount + 1 < Total
      PROVE  CyclicSub(filled, next["recv"]) = RecvCount + SendCount + 1
  <2>1. CyclicSub(filled, border) + CyclicSub(border, next["recv"]) < Total
    BY <1>2, <1>4, CountRange, ChannelAssumption DEF RecvCount, ChannelAssumption, Total
  <2>. HIDE DEF filled
  <2>2. CyclicSub(filled, next["recv"])
          = CyclicSub(filled, border) + CyclicSub(border, next["recv"])
    BY <1>1, <1>2, <2>1, CyclicSubSum
  <2>. QED
    BY <1>2, <2>2, CountRange DEF RecvCount
<1>5. CASE Ready("recv") /\ RecvHasRoom
  <2>1. border' = filled /\ next'["send"] = filled /\ next'["recv"] = next["recv"]
    BY <1>5 DEF SendProduce, TypeOK, Sides
  <2>. QED
    BY <1>3, <1>4, <1>5, <2>1 DEF RecvCount, SendCount
<1>6. CASE Ready("recv") /\ ~RecvHasRoom
  <2>1. /\ border' = border /\ next'["recv"] = next["recv"]
        /\ discard => next'["send"] = border
        /\ ~discard => next'["send"] = filled
    BY <1>6 DEF SendProduce, TypeOK, Sides
  <2>. QED
    BY <1>2, <1>3, <1>6, <2>1 DEF RecvCount, SendCount
<1>7. CASE ~Ready("recv")
  <2>1. border' = filled /\ next'["send"] = filled
    BY <1>7 DEF SendProduce, TypeOK, Sides
  <2>. QED
    BY <1>3, <1>7, <2>1 DEF SendCount
<1>. QED
  BY <1>5, <1>6, <1>7
--------------------------------------------------------------------------------
(* The initial state and every step establish the inductive invariant.     *)
LEMMA CoreInit == Init => Core
<1>1. ASSUME Init
      PROVE  /\ RecvCount = 0 /\ SendCount = 0
             /\ \A side \in Sides : ~Ready(side) /\ generation[side] <= partGen[side]
  BY <1>1 DEF Init, RecvCount, SendCount, CyclicSub, Ready, Sides
<1>2. ASSUME Init
      PROVE  \A side \in Sides :
               pc[side] = "idle" /\ ~fired[side] /\ ~isNotify[side] /\ events[side] = 0
  BY <1>2 DEF Init
<1>. QED
  BY <1>1, <1>2, ChannelAssumption
  DEF Sides, ChannelAssumption, Core, Counts, RecvWithinLimit, Operations, AssertsHold,
      Subscriptions, Events, EventsFitRing, WaitingBehindFull

LEMMA CoreStep ==
  ASSUME TypeOK, TypeOK', Sized, Core, [Next]_vars
  PROVE  Core'
<1> USE ChannelAssumption DEF ChannelAssumption
<1>1. /\ RecvCount \in Nat /\ SendCount \in Nat
      /\ RecvCount' \in Nat /\ SendCount' \in Nat
      /\ \A side \in Sides : generation[side] \in Nat /\ partGen[side] \in Nat
      /\ \A side \in Sides : events[side] \in Nat
  <2>1. TypeOK => RecvCount \in Nat /\ SendCount \in Nat
    BY CountRange
  <2>2. TypeOK' => RecvCount' \in Nat /\ SendCount' \in Nat
    BY CyclicSubRange DEF TypeOK, RecvCount, SendCount, Sides
  <2>. QED
    BY <2>1, <2>2 DEF TypeOK
<1>2. ASSUME NEW side \in Sides, Create(side)  PROVE Core'
  <2>1. /\ side = "recv" => RecvCount' = 0 /\ SendCount' = SendCount
        /\ side = "send" => RecvCount' = RecvCount /\ SendCount' = 0
    BY <1>2, CyclicSubRange DEF Create, SideInit, RecvCount, SendCount, TypeOK, Sides
  <2>2. /\ pc' = pc /\ fired' = fired /\ events' = events /\ partGen' = partGen
        /\ discard' = discard /\ recvReinit' = recvReinit
        /\ isNotify' = [isNotify EXCEPT ![side] = FALSE]
        /\ generation' = [generation EXCEPT ![side] = partGen[side]]
        /\ ~Ready(side) /\ pc[side] = "idle"
    BY <1>2 DEF Create, SideInit, ports, params
  <2>3. CASE side = "recv"
    <3>1. /\ ~isNotify'["recv"] /\ isNotify'["send"] = isNotify["send"]
          /\ generation'["recv"] = partGen["recv"] /\ generation'["send"] = generation["send"]
      BY <2>2, <2>3 DEF TypeOK, Sides
    <3>. QED
      BY <1>1, <2>1, <2>2, <2>3, <3>1
      DEF Ready, Sides, Core, Counts, RecvWithinLimit, Operations, AssertsHold,
          Subscriptions, Events, EventsFitRing, WaitingBehindFull
  <2>4. CASE side = "send"
    <3>1. /\ ~isNotify'["send"] /\ isNotify'["recv"] = isNotify["recv"]
          /\ generation'["send"] = partGen["send"] /\ generation'["recv"] = generation["recv"]
      BY <2>2, <2>4 DEF TypeOK, Sides
    <3>. QED
      BY <1>1, <2>1, <2>2, <2>4, <3>1
      DEF Ready, Sides, Core, Counts, RecvWithinLimit, Operations, AssertsHold,
          Subscriptions, Events, EventsFitRing, WaitingBehindFull
  <2>. QED
    BY <2>3, <2>4 DEF Sides
<1>3. ASSUME NEW side \in Sides, Restart(side)  PROVE Core'
  <2>1. RecvCount' = RecvCount /\ SendCount' = SendCount
    BY <1>3 DEF Restart, struct, RecvCount, SendCount
  <2>. QED
    BY <1>1, <1>3, <2>1
    DEF Restart, struct, params, Ready, TypeOK, Sides, Core, Counts, RecvWithinLimit,
        Operations, AssertsHold, Subscriptions, Events, EventsFitRing, WaitingBehindFull
<1>4. CASE Clear
  <2>1. RecvCount' = 0 /\ SendCount' = SendCount
    BY <1>4, CyclicSubRange DEF Clear, SideInit, RecvCount, SendCount, TypeOK, Sides
  <2>. QED
    BY <1>1, <1>4, <2>1
    DEF Clear, SideInit, params, Ready, TypeOK, Sides, Core, Counts, RecvWithinLimit,
        Operations, AssertsHold, Subscriptions, Events, EventsFitRing, WaitingBehindFull
<1>5. ASSUME NEW side \in Sides, LocalEnable(side)  PROVE Core'
  <2>1. RecvCount' = RecvCount /\ SendCount' = SendCount
    BY <1>5 DEF LocalEnable, struct, RecvCount, SendCount
  <2>2. Counts' /\ WaitingBehindFull'
    BY <1>1, <1>5, <2>1
    DEF LocalEnable, struct, params, Ready, TypeOK, Sides, Core, Counts, RecvWithinLimit,
        AssertsHold, WaitingBehindFull
  <2>3. Operations' /\ AssertsHold'
    <3>0. Ready(side)' <=> Ready(side)
      BY <1>5 DEF LocalEnable, struct, Ready
    <3>1. /\ pc'[side] # "idle" => Ready(side)
          /\ pc'[side] \in {"loop", "idle"} /\ (pc'[side] = "loop" <=> fired'[side])
      <4>1. CASE events[side] > 0
        <5>1. pc'[side] = "loop" /\ fired'[side] = TRUE
          BY <1>5, <4>1 DEF LocalEnable, TypeOK
        <5>. QED
          BY <1>1, <4>1, <5>1 DEF Core, Events, EventsFitRing
      <4>2. CASE ~(events[side] > 0)
        <5>1. pc'[side] = "idle"
          BY <1>5, <4>2 DEF LocalEnable, TypeOK
        <5>2. fired \in [Sides -> BOOLEAN] /\ fired' = [fired EXCEPT ![side] = events[side] > 0]
          BY <1>5 DEF LocalEnable, TypeOK
        <5>3. ~fired'[side]
          BY <4>2, <5>2, Zenon
        <5>. QED
          BY <5>1, <5>3
      <4>. QED
        BY <4>1, <4>2
    <3>2. \A other \in Sides : other # side =>
             pc'[other] = pc[other] /\ fired'[other] = fired[other]
      BY <1>5 DEF LocalEnable, TypeOK
    <3>3. generation' = generation /\ partGen' = partGen
      BY <1>5 DEF LocalEnable, struct
    <3>4. Operations'
      BY <3>0, <3>1, <3>2, <3>3 DEF Core, Operations, Ready
    <3>. QED
      BY <2>1, <3>1, <3>2, <3>4 DEF Core, AssertsHold, Sides
  <2>4. Subscriptions'
    BY <1>1, <1>5, <2>1
    DEF LocalEnable, struct, params, Ready, TypeOK, Sides, Core, Operations,
        Subscriptions, Events, EventsFitRing, AssertsHold
  <2>5. Events'
    BY <1>1, <1>5, <2>1
    DEF LocalEnable, struct, params, Ready, TypeOK, Sides, Core, Operations,
        Subscriptions, Events, EventsFitRing, AssertsHold
  <2>. QED
    BY <2>2, <2>3, <2>4, <2>5 DEF Core
<1>6. ASSUME NEW side \in Sides, NobodyWaits(side) \/ OtherCall(side)  PROVE Core'
  <2>1. RecvCount' = RecvCount /\ SendCount' = SendCount
    BY <1>6 DEF NobodyWaits, OtherCall, struct, RecvCount, SendCount
  <2>. QED
    BY <1>1, <1>6, <2>1
    DEF NobodyWaits, OtherCall, struct, params, Ready, TypeOK, Sides, Core, Counts,
        RecvWithinLimit, Operations, AssertsHold, Subscriptions, Events, EventsFitRing,
        WaitingBehindFull
<1>7. ASSUME NEW subscribe \in BOOLEAN, RecvGet(subscribe)  PROVE Core'
  <2>1. /\ RecvCount' = RecvCount /\ SendCount' = SendCount
        /\ RecvCount = 0 <=> border = next["recv"]
    BY <1>7, CountRange DEF RecvGet, RecvCount, SendCount
  <2>2. Counts' /\ WaitingBehindFull'
    BY <1>1, <1>7, <2>1
    DEF RecvGet, MayGet, Granted, Denied, params, Ready, TypeOK, Sides, Core, Counts,
        RecvWithinLimit, AssertsHold, WaitingBehindFull
  <2>3. Operations' /\ AssertsHold'
    BY <1>1, <1>7, <2>1
    DEF RecvGet, MayGet, Granted, Denied, params, Ready, TypeOK, Sides, Core, Operations,
        AssertsHold
  <2>4. Subscriptions'
    BY <1>1, <1>7, <2>1
    DEF RecvGet, MayGet, Granted, Denied, params, Ready, TypeOK, Sides, Core, Operations,
        Subscriptions, Events, EventsFitRing, AssertsHold
  <2>5. Events'
    BY <1>1, <1>7, <2>1
    DEF RecvGet, MayGet, Granted, Denied, params, Ready, TypeOK, Sides, Core, Operations,
        Subscriptions, Events, EventsFitRing, AssertsHold
  <2>. QED
    BY <2>2, <2>3, <2>4, <2>5 DEF Core
<1>8. ASSUME NEW subscribe \in BOOLEAN, SendGet(subscribe)  PROVE Core'
  <2>1. RecvCount' = RecvCount /\ SendCount' = SendCount
    BY <1>8 DEF SendGet, RecvCount, SendCount
  <2>2. Counts' /\ WaitingBehindFull'
    BY <1>1, <1>8, <2>1
    DEF SendGet, SendHasRoom, MayGet, Granted, Denied, params, Ready, TypeOK, Sides, Core,
        Counts, RecvWithinLimit, AssertsHold, WaitingBehindFull
  <2>3. Operations' /\ AssertsHold'
    BY <1>1, <1>8, <2>1
    DEF SendGet, SendHasRoom, MayGet, Granted, Denied, params, Ready, TypeOK, Sides, Core,
        Operations, AssertsHold
  <2>4. Subscriptions'
    BY <1>1, <1>8, <2>1
    DEF SendGet, SendHasRoom, MayGet, Granted, Denied, params, Ready, TypeOK, Sides, Core,
        Operations, Subscriptions, Events, EventsFitRing, AssertsHold, Counts
  <2>5. Events'
    BY <1>1, <1>8, <2>1
    DEF SendGet, SendHasRoom, MayGet, Granted, Denied, params, Ready, TypeOK, Sides, Core,
        Operations, Subscriptions, Events, EventsFitRing, AssertsHold
  <2>. QED
    BY <2>2, <2>3, <2>4, <2>5 DEF Core
<1>9. CASE RecvCopy
  <2>1. RecvCount' = RecvCount /\ SendCount' = SendCount
    BY <1>9 DEF RecvCopy, struct, RecvCount, SendCount
  <2>. QED
    BY <1>1, <1>9, <2>1
    DEF RecvCopy, struct, params, Ready, TypeOK, Sides, Core, Counts, RecvWithinLimit,
        Operations, AssertsHold, Subscriptions, Events, EventsFitRing, WaitingBehindFull
<1>10. CASE RecvConsume
  <2>1. RecvCount > 0
    BY <1>10 DEF RecvConsume, Core, AssertsHold
  <2>2. /\ MessagePasses => RecvCount' = RecvCount /\ SendCount' = SendCount - 1
        /\ ~MessagePasses => RecvCount' = RecvCount - 1 /\ SendCount' = SendCount
    BY <1>10, <2>1, ConsumeCounts
  <2>3. MessagePasses <=> Ready("send") /\ SendCount > 0
    BY <1>1, CountRange DEF MessagePasses
  <2>. HIDE DEF MessagePasses
  <2>. QED
    BY <1>1, <1>10, <2>1, <2>2, <2>3
    DEF RecvConsume, SideNotify, Done, params, Ready, TypeOK, Sides, Core, Counts,
        RecvWithinLimit, Operations, AssertsHold, Subscriptions, Events, EventsFitRing,
        WaitingBehindFull
<1>11. ASSUME NEW m \in Messages, SendCopy(m)  PROVE Core'
  <2>1. RecvCount' = RecvCount /\ SendCount' = SendCount
    BY <1>11 DEF SendCopy, struct, RecvCount, SendCount
  <2>. QED
    BY <1>1, <1>11, <2>1
    DEF SendCopy, struct, params, Ready, TypeOK, Sides, Core, Counts, RecvWithinLimit,
        Operations, AssertsHold, Subscriptions, Events, EventsFitRing, WaitingBehindFull
<1>12. CASE SendProduce
  <2>1. SendCount < SendMax /\ (Ready("recv") => RecvCount <= RecvMax) /\ Ready("send")
    BY <1>12
    DEF SendProduce, Core, AssertsHold, Counts, RecvWithinLimit, Operations, Sides
  <2>2. Ready("recv") /\ RecvHasRoom => RecvCount + SendCount + 1 <= RecvMax
    BY <1>1, <2>1 DEF RecvHasRoom, Core, WaitingBehindFull, Sized
  <2>3. RecvCount + SendCount + 1 <= RecvMax => RecvCount + SendCount + 1 < Total
    BY <1>1 DEF Total
  <2>4. /\ Ready("recv") /\ RecvHasRoom =>
             SendCount' = 0 /\ RecvCount' = RecvCount + SendCount + 1
        /\ Ready("recv") /\ ~RecvHasRoom =>
             /\ RecvCount' = RecvCount
             /\ discard => SendCount' = 0
             /\ ~discard => SendCount' = SendCount + 1
        /\ ~Ready("recv") => SendCount' = 0
    BY <1>12, <2>1, <2>2, <2>3, ProduceCounts
  <2>. QED
    BY <1>1, <1>12, <2>1, <2>2, <2>4
    DEF SendProduce, RecvHasRoom, SideNotify, Done, params, Ready, TypeOK, Sides, Core,
        Counts, RecvWithinLimit, Operations, AssertsHold, Subscriptions, Events,
        EventsFitRing, WaitingBehindFull
<1>13. CASE UNCHANGED vars
  <2>1. RecvCount' = RecvCount /\ SendCount' = SendCount
    BY <1>13 DEF vars, struct, RecvCount, SendCount
  <2>. QED
    BY <1>13, <2>1
    DEF vars, struct, ports, params, Ready, Core, Counts, RecvWithinLimit, Operations,
        AssertsHold, Subscriptions, Events, EventsFitRing, WaitingBehindFull
<1>. QED
  BY <1>2, <1>3, <1>4, <1>5, <1>6, <1>7, <1>8, <1>9, <1>10, <1>11, <1>12, <1>13
  DEF Next
--------------------------------------------------------------------------------
LEMMA Invariant == Spec => []IInv
<1>1. Init => IInv
  BY CoreInit, TypeInit DEF IInv
<1>2. IInv /\ [Next]_vars => IInv'
  <2> SUFFICES ASSUME IInv, [Next]_vars  PROVE IInv'
    OBVIOUS
  <2>1. TypeOK'
    BY TypeStep DEF IInv
  <2>2. recvReinit' = recvReinit
    BY DEF Next, Create, Restart, Clear, LocalEnable, OtherCall, NobodyWaits, RecvGet,
           SendGet, RecvCopy, RecvConsume, SendCopy, SendProduce, params, vars
  <2>. QED
    BY <2>1, <2>2, CoreStep DEF IInv, Sized
<1>. QED
  BY <1>1, <1>2, PTL DEF Spec

(* The type invariant: every position stays inside the array of messages.  *)
THEOREM TypeCorrect == Spec => []TypeOK
<1>1. IInv => TypeOK
  BY DEF IInv
<1>. QED
  BY <1>1, Invariant, PTL

(* A receiver with at least as many slots as the sender, or that connects   *)
(* once, never holds more messages than it has slots.                      *)
THEOREM ReceiverNeverOverfull == Spec => [](Sized => RecvWithinLimit)
<1>1. IInv => (Sized => RecvWithinLimit)
  BY DEF IInv, Core, Counts
<1>. QED
  BY <1>1, Invariant, PTL

(* The assertions of the channel's functions never fail in a port          *)
(* operation, wherever the other partition runs or restarts.               *)
THEOREM AssertionsNeverFail == Spec => [](Sized => AssertsHold)
<1>1. IInv => (Sized => AssertsHold)
  BY DEF IInv, Core
<1>. QED
  BY <1>1, Invariant, PTL

(* No side stays subscribed when there is something for it.                *)
THEOREM NoNotificationMissed == Spec => [](Sized => SubscriptionsKept)
<1>1. IInv => (Sized => SubscriptionsKept)
  BY DEF IInv, Core, Subscriptions, SubscriptionsKept
<1>. QED
  BY <1>1, Invariant, PTL

(* One entry of the event ring for each port is enough.                    *)
THEOREM RingLargeEnough == Spec => [](Sized => EventsFitRing)
<1>1. IInv => (Sized => EventsFitRing)
  BY DEF IInv, Core, Events
<1>. QED
  BY <1>1, Invariant, PTL

(* Between connected sides messages wait behind a full receiver only, or   *)
(* behind one that was emptied by its own side.                            *)
THEOREM MessagesWaitBehindFull == Spec => [](Sized => WaitingBehindFull)
<1>1. IInv => (Sized => WaitingBehindFull)
  BY DEF IInv, Core
<1>. QED
  BY <1>1, Invariant, PTL

(* With a receiver that connects once, messages are transmitted instantly, *)
(* as channel.h has it.                                                    *)
THEOREM InstantWhenConnectedOnce == Spec => [](~recvReinit => TransmittedInstantly)
<1>1. IInv => (~recvReinit => TransmittedInstantly)
  <2>1. TypeOK => RecvCount \in Nat
    BY CountRange
  <2>. QED
    BY <2>1, ChannelAssumption
    DEF ChannelAssumption, IInv, Core, WaitingBehindFull, Sized, TransmittedInstantly
<1>. QED
  BY <1>1, Invariant, PTL
--------------------------------------------------------------------------------
(***************************************************************************)
(* The refinement of the two FIFO queues.  Each queue is a stretch of the   *)
(* cyclic array; what is needed about stretches comes first.               *)
(***************************************************************************)
(* count slots of the array s, from the position first on.                 *)
Stretch(s, first, count) == [i \in 1 .. count |-> s[CyclicAdd(first, i - 1)]]

(* Steps forward add up, and different ones of less than a round lead to   *)
(* different positions.                                                    *)
LEMMA CyclicAddSum ==
  ASSUME NEW p \in Positions, NEW i \in 0 .. Total, NEW j \in 0 .. Total, i + j <= Total
  PROVE  /\ CyclicAdd(p, i) \in Positions
         /\ CyclicAdd(p, 0) = p
         /\ CyclicAdd(CyclicAdd(p, i), j) = CyclicAdd(p, i + j)
         /\ i < Total /\ j < Total /\ CyclicAdd(p, i) = CyclicAdd(p, j) => i = j
BY ChannelAssumption DEF ChannelAssumption, CyclicAdd, Positions, Total

(* The distance from q to p leads from q to p.                             *)
LEMMA CyclicAddSub ==
  ASSUME NEW p \in Positions, NEW q \in Positions
  PROVE  CyclicAdd(q, CyclicSub(p, q)) = p
BY ChannelAssumption DEF ChannelAssumption, CyclicAdd, CyclicSub, Positions, Total

(* seq is that list of elements of S.                                      *)
IsStretch(seq, S, s, first, count) ==
  /\ seq \in Seq(S)
  /\ Len(seq) = count
  /\ \A i \in 1 .. count : seq[i] = s[CyclicAdd(first, i - 1)]

LEMMA StretchTyped ==
  ASSUME NEW S, NEW s \in [Positions -> S], NEW first \in Positions, NEW count \in 0 .. Total
  PROVE  IsStretch(Stretch(s, first, count), S, s, first, count)
<1>1. Total \in Nat /\ count \in Nat
  BY ChannelAssumption DEF ChannelAssumption, Total
<1>2. \A i \in 1 .. count : CyclicAdd(first, i - 1) \in Positions
  <2>1. ASSUME NEW i \in 1 .. count  PROVE CyclicAdd(first, i - 1) \in Positions
    <3>1. i - 1 \in 0 .. Total /\ 0 \in 0 .. Total /\ (i - 1) + 0 <= Total
      BY <1>1
    <3>. QED
      BY <3>1, CyclicAddSum
  <2>. QED
    BY <2>1
<1>3. Stretch(s, first, count) \in [1 .. count -> S]
  BY <1>2 DEF Stretch
<1>. QED
  BY <1>1, <1>3 DEF Stretch, IsStretch

(* A stretch of no slot.                                                   *)
LEMMA StretchEmpty ==
  ASSUME NEW s, NEW first
  PROVE  Stretch(s, first, 0) = <<>>
BY DEF Stretch

(* A stretch becomes longer by the slot behind it.                         *)
LEMMA StretchAppend ==
  ASSUME NEW S, NEW s \in [Positions -> S], NEW first \in Positions,
         NEW count \in 0 .. Total, count < Total
  PROVE  Append(Stretch(s, first, count), s[CyclicAdd(first, count)])
           = Stretch(s, first, count + 1)
<1>1. Total \in Nat /\ count + 1 \in 0 .. Total
  BY ChannelAssumption DEF ChannelAssumption, Total
<1> DEFINE old == Stretch(s, first, count)
           last == s[CyclicAdd(first, count)]
           new == Stretch(s, first, count + 1)
<1>2. CyclicAdd(first, count) \in Positions
  BY <1>1, CyclicAddSum
<1>3. old \in Seq(S) /\ Len(old) = count
        /\ \A i \in 1 .. count : old[i] = s[CyclicAdd(first, i - 1)]
  <2>1. IsStretch(Stretch(s, first, count), S, s, first, count)
    BY StretchTyped, Zenon
  <2>. QED
    BY <2>1 DEF IsStretch
<1>4. new \in Seq(S) /\ Len(new) = count + 1
        /\ \A i \in 1 .. count + 1 : new[i] = s[CyclicAdd(first, i - 1)]
  <2>1. IsStretch(Stretch(s, first, count + 1), S, s, first, count + 1)
    BY <1>1, StretchTyped, Zenon
  <2>. QED
    BY <2>1 DEF IsStretch
<1>5. last \in S
  BY <1>2
<1>6. new[count + 1] = last
  <2>1. count + 1 \in 1 .. count + 1 /\ (count + 1) - 1 = count
    BY <1>1
  <2>2. new[count + 1] = s[CyclicAdd(first, (count + 1) - 1)]
    BY <1>4, <2>1
  <2>. QED
    BY <2>1, <2>2
<1> HIDE DEF old, last, new
<1>7. Append(old, last) \in Seq(S) /\ Len(Append(old, last)) = count + 1
        /\ \A i \in 1 .. count : Append(old, last)[i] = old[i]
        /\ Append(old, last)[count + 1] = last
  BY <1>1, <1>3, <1>5
<1>8. \A i \in 1 .. count + 1 : Append(old, last)[i] = new[i]
  BY <1>1, <1>3, <1>4, <1>6, <1>7
<1>9. Append(old, last) = new
  BY <1>4, <1>7, <1>8, SeqEqual
<1>. QED
  BY <1>9 DEF old, last, new

(* The rest of a stretch is the stretch from the next position on.         *)
LEMMA StretchTail ==
  ASSUME NEW S, NEW s \in [Positions -> S], NEW first \in Positions,
         NEW count \in 1 .. Total
  PROVE  /\ Stretch(s, first, count) # <<>>
         /\ Head(Stretch(s, first, count)) = s[first]
         /\ Tail(Stretch(s, first, count)) = Stretch(s, CyclicAdd(first, 1), count - 1)
<1>1. Total \in Nat /\ count \in 0 .. Total /\ count - 1 \in 0 .. Total /\ 1 \in 0 .. Total
  BY ChannelAssumption DEF ChannelAssumption, Total
<1> DEFINE old == Stretch(s, first, count)
           new == Stretch(s, CyclicAdd(first, 1), count - 1)
<1>2. CyclicAdd(first, 1) \in Positions /\ CyclicAdd(first, 0) = first
  BY <1>1, CyclicAddSum
<1>3. old \in Seq(S) /\ Len(old) = count
        /\ \A i \in 1 .. count : old[i] = s[CyclicAdd(first, i - 1)]
  <2>1. IsStretch(Stretch(s, first, count), S, s, first, count)
    BY <1>1, StretchTyped, Zenon
  <2>. QED
    BY <2>1 DEF IsStretch
<1>4. new \in Seq(S) /\ Len(new) = count - 1
        /\ \A i \in 1 .. count - 1 :
             new[i] = s[CyclicAdd(CyclicAdd(first, 1), i - 1)]
  <2>1. IsStretch(Stretch(s, CyclicAdd(first, 1), count - 1), S, s, CyclicAdd(first, 1), count - 1)
    BY <1>1, <1>2, StretchTyped, Zenon
  <2>. QED
    BY <2>1 DEF IsStretch
<1>5. ASSUME NEW i \in 1 .. count - 1  PROVE new[i] = old[i + 1]
  <2>1. i - 1 \in 0 .. Total /\ 1 + (i - 1) = i /\ 1 + (i - 1) <= Total
          /\ i + 1 \in 1 .. count /\ (i + 1) - 1 = i
    BY <1>1
  <2>2. CyclicAdd(CyclicAdd(first, 1), i - 1) = CyclicAdd(first, 1 + (i - 1))
    BY <1>1, <2>1, CyclicAddSum
  <2>3. old[i + 1] = s[CyclicAdd(first, (i + 1) - 1)]
    BY <1>3, <2>1
  <2>4. new[i] = s[CyclicAdd(CyclicAdd(first, 1), i - 1)]
    BY <1>4
  <2>. QED
    BY <2>1, <2>2, <2>3, <2>4
<1>6. old[1] = s[first]
  <2>1. 1 \in 1 .. count /\ 1 - 1 = 0
    BY <1>1
  <2>2. old[1] = s[CyclicAdd(first, 1 - 1)]
    BY <1>3, <2>1
  <2>. QED
    BY <1>2, <2>1, <2>2
<1> HIDE DEF old, new
<1>7. old # <<>>
  BY <1>1, <1>3
<1>8. Head(old) = old[1]
  BY <1>3, <1>7
<1>9. Tail(old) \in Seq(S) /\ Len(Tail(old)) = count - 1
        /\ \A i \in 1 .. count - 1 : Tail(old)[i] = old[i + 1]
  BY <1>3, <1>7, HeadTailProperties
<1>10. Tail(old) = new
  BY <1>4, <1>5, <1>9, SeqEqual
<1>. QED
  BY <1>6, <1>7, <1>8, <1>10 DEF old, new

(* Two stretches that follow each other are one.                           *)
LEMMA StretchConcat ==
  ASSUME NEW S, NEW s \in [Positions -> S], NEW first \in Positions,
         NEW n \in 0 .. Total, NEW m \in 0 .. Total, n + m <= Total
  PROVE  Stretch(s, first, n) \o Stretch(s, CyclicAdd(first, n), m)
           = Stretch(s, first, n + m)
<1>1. Total \in Nat /\ n + m \in 0 .. Total
  BY ChannelAssumption DEF ChannelAssumption, Total
<1> DEFINE one == Stretch(s, first, n)
           two == Stretch(s, CyclicAdd(first, n), m)
           all == Stretch(s, first, n + m)
<1>2. CyclicAdd(first, n) \in Positions
  BY <1>1, CyclicAddSum
<1>3. one \in Seq(S) /\ Len(one) = n
        /\ \A i \in 1 .. n : one[i] = s[CyclicAdd(first, i - 1)]
  <2>1. IsStretch(Stretch(s, first, n), S, s, first, n)
    BY StretchTyped, Zenon
  <2>. QED
    BY <2>1 DEF IsStretch
<1>4. two \in Seq(S) /\ Len(two) = m
        /\ \A i \in 1 .. m : two[i] = s[CyclicAdd(CyclicAdd(first, n), i - 1)]
  <2>1. IsStretch(Stretch(s, CyclicAdd(first, n), m), S, s, CyclicAdd(first, n), m)
    BY <1>2, StretchTyped, Zenon
  <2>. QED
    BY <2>1 DEF IsStretch
<1>5. all \in Seq(S) /\ Len(all) = n + m
        /\ \A i \in 1 .. n + m : all[i] = s[CyclicAdd(first, i - 1)]
  <2>1. IsStretch(Stretch(s, first, n + m), S, s, first, n + m)
    BY <1>1, StretchTyped, Zenon
  <2>. QED
    BY <2>1 DEF IsStretch
<1>6. ASSUME NEW i \in 1 .. n + m, ~(i <= n)  PROVE two[i - n] = all[i]
  <2>1. i - n \in 1 .. m /\ (i - n) - 1 \in 0 .. Total /\ n + ((i - n) - 1) = i - 1
          /\ n + ((i - n) - 1) <= Total
    BY <1>1, <1>6
  <2>2. CyclicAdd(CyclicAdd(first, n), (i - n) - 1) = CyclicAdd(first, n + ((i - n) - 1))
    BY <2>1, CyclicAddSum
  <2>3. two[i - n] = s[CyclicAdd(CyclicAdd(first, n), (i - n) - 1)]
    BY <1>4, <2>1
  <2>. QED
    BY <1>5, <2>1, <2>2, <2>3
<1>7. ASSUME NEW i \in 1 .. n + m, i <= n  PROVE one[i] = all[i]
  <2>1. i \in 1 .. n
    BY <1>1, <1>7
  <2>. QED
    BY <1>3, <1>5, <2>1
<1> HIDE DEF one, two, all
<1>8. one \o two \in Seq(S) /\ Len(one \o two) = n + m
        /\ \A i \in 1 .. n + m : (one \o two)[i] = IF i <= n THEN one[i] ELSE two[i - n]
  <2>1. one \o two \in Seq(S) /\ Len(one \o two) = Len(one) + Len(two)
          /\ \A i \in 1 .. Len(one) + Len(two) :
               (one \o two)[i] = IF i <= Len(one) THEN one[i] ELSE two[i - Len(one)]
    BY <1>3, <1>4, ConcatProperties, Zenon
  <2>. QED
    BY <1>3, <1>4, <2>1
<1>9. \A i \in 1 .. n + m : (one \o two)[i] = all[i]
  BY <1>6, <1>7, <1>8
<1>10. one \o two = all
  BY <1>5, <1>8, <1>9, SeqEqual
<1>. QED
  BY <1>10 DEF one, two, all

(* A stretch does not change with a slot that is not in it.                *)
LEMMA StretchElsewhere ==
  ASSUME NEW s, NEW t, NEW first \in Positions,
         NEW count \in 0 .. Total, NEW k \in 0 .. Total, count <= k, k < Total,
         \A pos \in Positions : pos # CyclicAdd(first, k) => t[pos] = s[pos]
  PROVE  Stretch(t, first, count) = Stretch(s, first, count)
<1>1. Total \in Nat /\ count \in Nat /\ k \in Nat
  BY ChannelAssumption DEF ChannelAssumption, Total
<1>2. ASSUME NEW i \in 1 .. count
      PROVE  CyclicAdd(first, i - 1) \in Positions /\ CyclicAdd(first, i - 1) # CyclicAdd(first, k)
  <2>1. i - 1 \in 0 .. Total /\ i - 1 < Total /\ i - 1 < k /\ 0 \in 0 .. Total
    BY <1>1
  <2>2. CASE (i - 1) + k <= Total
    BY <1>1, <2>1, <2>2, CyclicAddSum
  <2>3. CASE ~((i - 1) + k <= Total)
    BY <1>1, <2>1, <2>3 DEF CyclicAdd, Positions
  <2>. QED
    BY <2>2, <2>3
<1>. QED
  BY <1>2 DEF Stretch
--------------------------------------------------------------------------------
(* What a copy in progress holds is what is in the slot.                   *)
CopiesExact ==
  /\ pc["recv"] = "copied" => copy["recv"] = slots[next["recv"]]
  /\ pc["send"] = "copied" => copy["send"] = slots[next["send"]] /\ copy["send"] \in Messages

FifoInv == TypeOK /\ Sized /\ Core /\ CopiesExact

(* The two queues and the connected sides, as FifoSpec has them.           *)
RecvQueue == IF Ready("recv") THEN Queue(next["recv"], RecvCount) ELSE <<>>
SendQueue == Queue(border, SendCount)
Connected == {side \in Sides : Ready(side)}

(* The queues before and after a step, as stretches of the array.          *)
LEMMA QueuesAreStretches ==
  /\ RecvQueue = IF Ready("recv") THEN Stretch(slots, next["recv"], RecvCount) ELSE <<>>
  /\ RecvQueue' = IF Ready("recv")' THEN Stretch(slots', next'["recv"], RecvCount') ELSE <<>>
  /\ SendQueue = Stretch(slots, border, SendCount)
  /\ SendQueue' = Stretch(slots', border', SendCount')
BY DEF RecvQueue, SendQueue, Queue, Stretch

(* Positions and counts, as the lemmas about stretches ask for them.       *)
LEMMA FifoRanges ==
  ASSUME FifoInv
  PROVE  /\ next["recv"] \in Positions /\ next["send"] \in Positions /\ border \in Positions
         /\ slots \in [Positions -> Messages \union {NoMessage}]
         /\ RecvCount \in 0 .. Total /\ SendCount \in 0 .. Total
         /\ RecvCount < Total /\ SendCount < Total
         /\ border = CyclicAdd(next["recv"], RecvCount)
         /\ next["send"] = CyclicAdd(border, SendCount)
         /\ Ready("recv") => RecvCount <= RecvMax
         /\ SendCount <= SendMax
         /\ Total = RecvMax + SendMax /\ RecvMax \in Nat \ {0} /\ SendMax \in Nat \ {0}
<1>1. /\ next["recv"] \in Positions /\ next["send"] \in Positions /\ border \in Positions
      /\ slots \in [Positions -> Messages \union {NoMessage}]
  BY DEF FifoInv, TypeOK, Sides
<1>2. /\ RecvCount \in Nat /\ RecvCount < Total
      /\ SendCount \in Nat /\ SendCount < Total
  BY CountRange DEF FifoInv
<1>3. /\ border = CyclicAdd(next["recv"], RecvCount)
      /\ next["send"] = CyclicAdd(border, SendCount)
  BY <1>1, CyclicAddSub DEF RecvCount, SendCount
<1>4. (Ready("recv") => RecvCount <= RecvMax) /\ SendCount <= SendMax
  BY DEF FifoInv, Core, Counts, RecvWithinLimit
<1>5. Total = RecvMax + SendMax /\ RecvMax \in Nat \ {0} /\ SendMax \in Nat \ {0}
  BY ChannelAssumption DEF ChannelAssumption, Total
<1>. QED
  BY <1>1, <1>2, <1>3, <1>4, <1>5

(* The slot the sender fills is in neither queue.                          *)
LEMMA FreeSlot ==
  ASSUME FifoInv, Ready("recv"), RecvCount > 0, SendCount < SendMax
  PROVE  next["send"] # next["recv"]
<1>1. /\ RecvCount + SendCount \in 0 .. Total /\ 0 \in 0 .. Total
      /\ RecvCount + SendCount < Total /\ RecvCount + SendCount # 0
  BY FifoRanges
<1>2. next["send"] = CyclicAdd(next["recv"], RecvCount + SendCount)
  BY <1>1, FifoRanges, CyclicAddSum
<1>3. next["recv"] = CyclicAdd(next["recv"], 0)
  BY <1>1, FifoRanges, CyclicAddSum
<1>. QED
  BY <1>1, <1>2, <1>3, FifoRanges, CyclicAddSum

(* At first both queues are empty and no side is connected.                *)
LEMMA FifoInit ==
  ASSUME Init
  PROVE  CopiesExact /\ Fifo!Init
<1>1. /\ border = 0 /\ next["recv"] = 0 /\ next["send"] = 0
      /\ pc["recv"] = "idle" /\ pc["send"] = "idle"
      /\ \A side \in Sides : generation[side] = 0 /\ partGen[side] = 1
      /\ discarded = FALSE /\ discard \in BOOLEAN
      /\ received = [message |-> NoMessage, lost |-> FALSE]
  BY DEF Init, Sides
<1>2. CopiesExact
  BY <1>1 DEF CopiesExact
<1>3. RecvCount = 0 /\ SendCount = 0 /\ (\A side \in Sides : ~Ready(side))
  BY <1>1 DEF RecvCount, SendCount, CyclicSub, Ready
<1>4. ~Ready("recv") /\ Connected = {}
  BY <1>3 DEF Connected, Sides
<1>5. RecvQueue = <<>> /\ SendQueue = <<>>
  BY <1>3, <1>4, QueuesAreStretches, StretchEmpty
<1>. QED
  BY <1>1, <1>2, <1>4, <1>5 DEF Fifo!Init, RecvQueue, SendQueue, Connected

(* Steps that move nothing, and leave what a copy is made from.            *)
LEMMA FifoStutters ==
  ASSUME UNCHANGED <<discard, border, next, generation, discarded, slots, partGen, received>>
  PROVE  UNCHANGED Fifo!vars
<1>1. UNCHANGED <<RecvCount, SendCount>> /\ (\A side : Ready(side)' <=> Ready(side))
  BY DEF RecvCount, SendCount, Ready
<1>2. UNCHANGED <<RecvQueue, SendQueue, Connected>>
  BY <1>1, QueuesAreStretches DEF Connected
<1>. QED
  BY <1>2 DEF Fifo!vars, RecvQueue, SendQueue, Connected

(* A side becomes empty.                                                   *)
LEMMA FifoConnects ==
  ASSUME FifoInv, NEW side \in Sides, SideInit(side),
         UNCHANGED <<discard, slots, partGen, received>>
  PROVE  Fifo!Next
<1>0. generation \in [Sides -> Nat] /\ next \in [Sides -> Positions]
  BY ChannelAssumption DEF ChannelAssumption, FifoInv, TypeOK
<1>1. /\ generation' = [generation EXCEPT ![side] = partGen[side]]
      /\ next' = [next EXCEPT ![side] = border]
      /\ border' = border /\ discarded' = discarded
  BY DEF SideInit
<1>2. Connected' = Connected \union {side}
  BY <1>0, <1>1 DEF Connected, Ready
<1>3. CyclicSub(border, border) = 0
  BY FifoRanges, CyclicSubRange
<1>4. CASE side = "recv"
  <2>1. next'["recv"] = border /\ next'["send"] = next["send"]
    BY <1>0, <1>1, <1>4 DEF Sides
  <2>2. RecvCount' = 0 /\ SendCount' = SendCount
    BY <1>1, <1>3, <2>1 DEF RecvCount, SendCount
  <2>3. RecvQueue' = <<>> /\ SendQueue' = SendQueue
    BY <1>1, <2>2, QueuesAreStretches, StretchEmpty
  <2>4. Fifo!Connect("recv")
    BY <1>1, <1>2, <1>4, <2>3 DEF Fifo!Connect, RecvQueue, SendQueue, Connected
  <2>. QED
    BY <2>4 DEF Fifo!Next
<1>5. CASE side = "send"
  <2>1. next'["send"] = border /\ next'["recv"] = next["recv"]
    BY <1>0, <1>1, <1>5 DEF Sides
  <2>2. SendCount' = 0 /\ RecvCount' = RecvCount
    BY <1>1, <1>3, <2>1 DEF RecvCount, SendCount
  <2>3. Ready("recv")' <=> Ready("recv")
    BY <1>0, <1>1, <1>5 DEF Ready, Sides
  <2>4. SendQueue' = <<>> /\ RecvQueue' = RecvQueue
    BY <1>1, <2>1, <2>2, <2>3, QueuesAreStretches, StretchEmpty
  <2>5. Fifo!Connect("send")
    BY <1>1, <1>2, <1>5, <2>4 DEF Fifo!Connect, RecvQueue, SendQueue, Connected
  <2>. QED
    BY <2>5 DEF Fifo!Next
<1>. QED
  BY <1>4, <1>5 DEF Sides

(* The partition of a side restarts: the channel sees the new generation.  *)
LEMMA FifoRestarts ==
  ASSUME FifoInv, NEW side \in Sides, Restart(side)
  PROVE  [Fifo!Next]_Fifo!vars
<1>0. /\ generation \in [Sides -> Nat] /\ partGen \in [Sides -> Nat]
      /\ generation[side] <= partGen[side]
  BY ChannelAssumption DEF ChannelAssumption, FifoInv, TypeOK, Core, Operations
<1>1. /\ partGen' = [partGen EXCEPT ![side] = @ + 1]
      /\ UNCHANGED <<discard, border, next, generation, discarded, slots, received>>
  BY DEF Restart, params, struct
<1>2. ~Ready(side)' /\ (\A other \in Sides \ {side} : Ready(other)' <=> Ready(other))
  BY <1>0, <1>1 DEF Ready
<1>3. RecvCount' = RecvCount /\ SendCount' = SendCount
  BY <1>1 DEF RecvCount, SendCount
<1>4. SendQueue' = SendQueue
  BY <1>1, <1>3, QueuesAreStretches
<1>5. Connected' = Connected \ {side}
  BY <1>2 DEF Connected
<1>6. RecvQueue' = IF side = "recv" THEN <<>> ELSE RecvQueue
  <2>1. CASE side = "recv"
    BY <1>2, <2>1, QueuesAreStretches
  <2>2. CASE side # "recv"
    <3>1. Ready("recv")' <=> Ready("recv")
      BY <1>2, <2>2 DEF Sides
    <3>. QED
      BY <1>1, <1>3, <2>2, <3>1, QueuesAreStretches
  <2>. QED
    BY <2>1, <2>2
<1>7. CASE Ready(side)
  <2>1. side \in Connected
    BY <1>7 DEF Connected
  <2>2. Fifo!Disconnect(side)
    BY <1>1, <1>4, <1>5, <1>6, <2>1 DEF Fifo!Disconnect, RecvQueue, SendQueue, Connected
  <2>. QED
    BY <2>2 DEF Fifo!Next, Sides
<1>8. CASE ~Ready(side)
  <2>1. Connected' = Connected
    BY <1>5, <1>8 DEF Connected
  <2>2. RecvQueue' = RecvQueue
    BY <1>6, <1>8 DEF RecvQueue
  <2>. QED
    BY <1>1, <1>4, <2>1, <2>2 DEF Fifo!vars, RecvQueue, SendQueue, Connected
<1>. QED
  BY <1>7, <1>8

(* The sender writes to a slot that is in neither queue.                   *)
LEMMA FifoCopies ==
  ASSUME FifoInv, NEW m \in Messages, SendCopy(m)
  PROVE  UNCHANGED Fifo!vars
<1>1. /\ slots' = [slots EXCEPT ![next["send"]] = m] /\ pc["send"] = "got"
      /\ UNCHANGED <<discard, border, next, generation, discarded, partGen, received>>
  BY DEF SendCopy, params, struct
<1>2. SendCount < SendMax
  BY <1>1 DEF FifoInv, Core, AssertsHold
<1>3. UNCHANGED <<RecvCount, SendCount>> /\ (\A side : Ready(side)' <=> Ready(side))
  BY <1>1 DEF RecvCount, SendCount, Ready
<1>4. \A pos \in Positions : pos # next["send"] => slots'[pos] = slots[pos]
  BY <1>1, FifoRanges
<1>5. Stretch(slots', border, SendCount) = Stretch(slots, border, SendCount)
  <2>1. /\ border \in Positions /\ SendCount \in 0 .. Total
        /\ SendCount <= SendCount /\ SendCount < Total
        /\ \A pos \in Positions : pos # CyclicAdd(border, SendCount) => slots'[pos] = slots[pos]
    BY <1>4, FifoRanges
  <2>. QED
    BY <2>1, StretchElsewhere
<1>6. ASSUME Ready("recv")
      PROVE  Stretch(slots', next["recv"], RecvCount) = Stretch(slots, next["recv"], RecvCount)
  <2>1. PICK k \in 0 .. Total : k < Total /\ RecvCount <= k /\ k = RecvCount + SendCount
    BY <1>2, <1>6, FifoRanges
  <2>2. next["send"] = CyclicAdd(next["recv"], k)
    BY <2>1, FifoRanges, CyclicAddSum
  <2>3. /\ next["recv"] \in Positions /\ RecvCount \in 0 .. Total
        /\ RecvCount <= k /\ k < Total
        /\ \A pos \in Positions : pos # CyclicAdd(next["recv"], k) => slots'[pos] = slots[pos]
    BY <1>4, <2>1, <2>2, FifoRanges
  <2>. QED
    BY <2>3, StretchElsewhere
<1>7. UNCHANGED <<RecvQueue, SendQueue, Connected>>
  BY <1>1, <1>3, <1>5, <1>6, QueuesAreStretches DEF Connected
<1>. QED
  BY <1>1, <1>7 DEF Fifo!vars, RecvQueue, SendQueue, Connected

(* A reception returns the head of the receiver's queue; the head of the   *)
(* sender's follows it.                                                    *)
LEMMA FifoReceives ==
  ASSUME FifoInv, RecvConsume
  PROVE  Fifo!Next
<1>1. /\ pc["recv"] = "copied" /\ Ready("recv") /\ RecvCount > 0
      /\ copy["recv"] = slots[next["recv"]]
  BY DEF RecvConsume, FifoInv, Core, Operations, AssertsHold, CopiesExact, Sides
<1>2. /\ next' = [next EXCEPT !["recv"] = CyclicAdd(@, 1)]
      /\ received' = [message |-> copy["recv"], lost |-> discarded]
      /\ discarded' = FALSE
      /\ UNCHANGED <<discard, slots, generation, partGen>>
      /\ MessagePasses => border' = CyclicAdd(border, 1)
      /\ ~MessagePasses => border' = border
  BY DEF RecvConsume, params
<1>3. next'["recv"] = CyclicAdd(next["recv"], 1) /\ next'["send"] = next["send"]
  BY <1>2 DEF FifoInv, TypeOK, Sides
<1>4. \A side : Ready(side)' <=> Ready(side)
  BY <1>2 DEF Ready
<1>5. Connected' = Connected /\ "recv" \in Connected
  BY <1>1, <1>4 DEF Connected, Sides
<1>6. RecvCount \in 1 .. Total /\ RecvCount - 1 \in 0 .. Total /\ RecvCount - 1 < Total
        /\ 1 \in 0 .. Total /\ 1 + (RecvCount - 1) = RecvCount
  BY <1>1, FifoRanges
<1>7. RecvQueue = Stretch(slots, next["recv"], RecvCount)
  BY <1>1, QueuesAreStretches
<1>8. /\ RecvQueue # <<>> /\ Head(RecvQueue) = slots[next["recv"]]
      /\ Tail(RecvQueue) = Stretch(slots, next'["recv"], RecvCount - 1)
  <2>1. /\ Stretch(slots, next["recv"], RecvCount) # <<>>
        /\ Head(Stretch(slots, next["recv"], RecvCount)) = slots[next["recv"]]
        /\ Tail(Stretch(slots, next["recv"], RecvCount))
             = Stretch(slots, CyclicAdd(next["recv"], 1), RecvCount - 1)
    <3>1. next["recv"] \in Positions /\ slots \in [Positions -> Messages \union {NoMessage}]
      BY FifoRanges
    <3>. QED
      BY <1>6, <3>1, StretchTail, Zenon
  <2>. QED
    BY <1>3, <1>7, <2>1
<1>9. received' = [message |-> Head(RecvQueue), lost |-> discarded]
  BY <1>1, <1>2, <1>8
<1>10. CASE MessagePasses
  <2>1. Ready("send") /\ SendCount > 0
    BY <1>10, FifoRanges, CountRange DEF MessagePasses, FifoInv
  <2>2. SendCount \in 1 .. Total /\ "send" \in Connected
    BY <2>1, FifoRanges DEF Connected, Sides
  <2>3. RecvCount' = RecvCount /\ SendCount' = SendCount - 1
    BY <1>1, <1>10, ConsumeCounts DEF FifoInv
  <2>4. /\ SendQueue # <<>> /\ Head(SendQueue) = slots[border]
        /\ Tail(SendQueue) = Stretch(slots, border', SendCount')
    <3>1. /\ Stretch(slots, border, SendCount) # <<>>
          /\ Head(Stretch(slots, border, SendCount)) = slots[border]
          /\ Tail(Stretch(slots, border, SendCount))
               = Stretch(slots, CyclicAdd(border, 1), SendCount - 1)
      <4>1. border \in Positions /\ slots \in [Positions -> Messages \union {NoMessage}]
        BY FifoRanges
      <4>. QED
        BY <2>2, <4>1, StretchTail, Zenon
    <3>. QED
      BY <1>2, <1>10, <2>3, <3>1, QueuesAreStretches
  <2>5. SendQueue' = Tail(SendQueue)
    BY <1>2, <2>4, QueuesAreStretches
  <2>6. next'["recv"] \in Positions /\ border = CyclicAdd(next'["recv"], RecvCount - 1)
    <3>1. 1 + (RecvCount - 1) <= Total
      BY <1>6
    <3>2. CyclicAdd(next["recv"], 1) \in Positions
            /\ CyclicAdd(CyclicAdd(next["recv"], 1), RecvCount - 1)
                 = CyclicAdd(next["recv"], 1 + (RecvCount - 1))
      BY <1>6, <3>1, FifoRanges, CyclicAddSum
    <3>. QED
      BY <1>3, <1>6, <3>2, FifoRanges
  <2>7. Append(Tail(RecvQueue), Head(SendQueue)) = Stretch(slots, next'["recv"], RecvCount)
    <3> DEFINE first == next'["recv"]
               n == RecvCount - 1
    <3>0. n + 1 = RecvCount /\ first \in Positions /\ n \in 0 .. Total /\ n < Total
            /\ border = CyclicAdd(first, n) /\ Tail(RecvQueue) = Stretch(slots, first, n)
      BY <1>6, <1>8, <2>6
    <3>. HIDE DEF first, n
    <3>1. Append(Stretch(slots, first, n), slots[CyclicAdd(first, n)])
            = Stretch(slots, first, n + 1)
      BY <3>0, FifoRanges, StretchAppend
    <3>2. Append(Tail(RecvQueue), Head(SendQueue)) = Stretch(slots, first, RecvCount)
      BY <2>4, <3>0, <3>1
    <3>. QED
      BY <3>2 DEF first
  <2>8. RecvQueue' = Append(Tail(RecvQueue), Head(SendQueue))
    BY <1>1, <1>2, <1>4, <2>3, <2>7, QueuesAreStretches
  <2>9. Fifo!Receive
    BY <1>2, <1>5, <1>8, <1>9, <2>2, <2>4, <2>5, <2>8
    DEF Fifo!Receive, RecvQueue, SendQueue, Connected
  <2>. QED
    BY <2>9 DEF Fifo!Next
<1>11. CASE ~MessagePasses
  <2>1. ~Ready("send") \/ SendCount = 0
    BY <1>11, FifoRanges, CountRange DEF MessagePasses, FifoInv
  <2>2. RecvCount' = RecvCount - 1 /\ SendCount' = SendCount
    BY <1>1, <1>11, ConsumeCounts DEF FifoInv
  <2>3. SendQueue' = SendQueue
    BY <1>2, <1>11, <2>2, QueuesAreStretches
  <2>4. RecvQueue' = Tail(RecvQueue)
    BY <1>1, <1>2, <1>4, <1>8, <2>2, QueuesAreStretches
  <2>5. "send" \notin Connected \/ SendQueue = <<>>
    BY <2>1, QueuesAreStretches, StretchEmpty DEF Connected
  <2>6. Fifo!Receive
    BY <1>2, <1>5, <1>8, <1>9, <2>3, <2>4, <2>5
    DEF Fifo!Receive, RecvQueue, SendQueue, Connected
  <2>. QED
    BY <2>6 DEF Fifo!Next
<1>. QED
  BY <1>10, <1>11

(* The end of an emission: the new message joins the sender's queue, with  *)
(* which it reaches the receiver, waits or is dropped.                     *)
LEMMA FifoSends ==
  ASSUME FifoInv, SendProduce
  PROVE  Fifo!Next
<1> DEFINE m == copy["send"]
           filled == CyclicAdd(next["send"], 1)
<1>1. /\ pc["send"] = "copied" /\ Ready("send") /\ SendCount < SendMax
      /\ m = slots[next["send"]] /\ m \in Messages
  BY DEF SendProduce, FifoInv, Core, Operations, AssertsHold, CopiesExact, Sides
<1>2. UNCHANGED <<discard, slots, generation, partGen, received>>
  BY DEF SendProduce, params
<1>3. \A side : Ready(side)' <=> Ready(side)
  BY <1>2 DEF Ready
<1>4. Connected' = Connected /\ "send" \in Connected
  BY <1>1, <1>3 DEF Connected, Sides
<1>5. Len(SendQueue) < SendMax
  <2>1. border \in Positions /\ slots \in [Positions -> Messages \union {NoMessage}]
          /\ SendCount \in 0 .. Total
    BY FifoRanges
  <2>2. IsStretch(Stretch(slots, border, SendCount), Messages \union {NoMessage}, slots,
                  border, SendCount)
    BY <2>1, StretchTyped, Zenon
  <2>. QED
    BY <1>1, <2>2, QueuesAreStretches DEF IsStretch
<1>6. Append(SendQueue, m) = Stretch(slots, border, SendCount + 1)
  <2>1. border \in Positions /\ slots \in [Positions -> Messages \union {NoMessage}]
          /\ SendCount \in 0 .. Total /\ SendCount < Total
    BY FifoRanges
  <2>2. Append(Stretch(slots, border, SendCount), slots[CyclicAdd(border, SendCount)])
          = Stretch(slots, border, SendCount + 1)
    BY <2>1, StretchAppend, Zenon
  <2>. QED
    BY <1>1, <2>2, FifoRanges, QueuesAreStretches
<1>7. next["send"] \in Positions /\ border \in Positions /\ filled \in Positions
        /\ next \in [Sides -> Positions]
  BY FifoRanges, CyclicSubAdd DEF FifoInv, TypeOK
<1>8. Ready("recv") => Len(RecvQueue) = RecvCount
  <2>1. next["recv"] \in Positions /\ slots \in [Positions -> Messages \union {NoMessage}]
          /\ RecvCount \in 0 .. Total
    BY FifoRanges
  <2>2. IsStretch(Stretch(slots, next["recv"], RecvCount), Messages \union {NoMessage}, slots,
                  next["recv"], RecvCount)
    BY <2>1, StretchTyped, Zenon
  <2>. QED
    BY <2>2, QueuesAreStretches DEF IsStretch
<1>9. /\ Ready("recv") /\ RecvHasRoom =>
           SendCount' = 0 /\ RecvCount' = RecvCount + SendCount + 1
             /\ RecvCount + SendCount + 1 <= Total
      /\ Ready("recv") /\ ~RecvHasRoom =>
           /\ RecvCount' = RecvCount
           /\ discard => SendCount' = 0
           /\ ~discard => SendCount' = SendCount + 1
      /\ ~Ready("recv") => SendCount' = 0
  <2>1. Ready("recv") /\ RecvHasRoom => RecvCount + SendCount + 1 <= RecvMax
    BY <1>1, FifoRanges
    DEF RecvHasRoom, FifoInv, Core, WaitingBehindFull, Sized
  <2>2. RecvCount + SendCount + 1 <= RecvMax => RecvCount + SendCount + 1 < Total
    BY FifoRanges
  <2>. QED
    BY <1>1, <2>1, <2>2, FifoRanges, ProduceCounts DEF FifoInv
<1>. HIDE DEF m, filled
<1>10. CASE Ready("recv") /\ RecvHasRoom
  <2>1. next' = [next EXCEPT !["send"] = filled] /\ border' = filled /\ discarded' = discarded
    BY <1>10 DEF SendProduce, filled
  <2>2. next'["recv"] = next["recv"]
    BY <1>7, <2>1 DEF Sides
  <2>3. SendQueue' = <<>>
    BY <1>9, <1>10, QueuesAreStretches, StretchEmpty
  <2>4. RecvQueue \o Append(SendQueue, m)
          = Stretch(slots, next["recv"], RecvCount + (SendCount + 1))
    <3> DEFINE k == SendCount + 1
    <3>1. /\ next["recv"] \in Positions /\ slots \in [Positions -> Messages \union {NoMessage}]
          /\ RecvCount \in 0 .. Total /\ k \in 0 .. Total /\ RecvCount + k <= Total
      BY <1>1, <1>9, <1>10, FifoRanges
    <3>. HIDE DEF k
    <3>2. Stretch(slots, next["recv"], RecvCount)
            \o Stretch(slots, CyclicAdd(next["recv"], RecvCount), k)
            = Stretch(slots, next["recv"], RecvCount + k)
      BY <3>1, StretchConcat, Zenon
    <3>. QED
      BY <1>6, <1>10, <3>2, FifoRanges, QueuesAreStretches DEF k
  <2>5. RecvCount' = RecvCount + (SendCount + 1)
    BY <1>9, <1>10, FifoRanges
  <2>6. RecvQueue' = RecvQueue \o Append(SendQueue, m)
    BY <1>2, <1>3, <1>10, <2>2, <2>4, <2>5, QueuesAreStretches
  <2>7. "recv" \in Connected /\ Len(RecvQueue) < RecvMax
    BY <1>8, <1>10 DEF Connected, Sides, RecvHasRoom
  <2>8. Fifo!Send(m)
    BY <1>2, <1>4, <1>5, <2>1, <2>3, <2>6, <2>7
    DEF Fifo!Send, RecvQueue, SendQueue, Connected
  <2>. QED
    BY <1>1, <2>8 DEF Fifo!Next
<1>11. CASE Ready("recv") /\ ~RecvHasRoom
  <2>1. "recv" \in Connected /\ Len(RecvQueue) >= RecvMax
    BY <1>8, <1>11, FifoRanges DEF Connected, Sides, RecvHasRoom
  <2>2. /\ border' = border
        /\ discard => next' = [next EXCEPT !["send"] = border] /\ discarded' = TRUE
        /\ ~discard => next' = [next EXCEPT !["send"] = filled] /\ discarded' = discarded
    BY <1>11 DEF SendProduce, filled
  <2>3. next'["recv"] = next["recv"]
    BY <1>7, <2>2 DEF Sides, FifoInv, TypeOK
  <2>4. RecvQueue' = RecvQueue
    BY <1>2, <1>3, <1>9, <1>11, <2>3, QueuesAreStretches
  <2>5. /\ discard => SendQueue' = <<>>
        /\ ~discard => SendQueue' = Append(SendQueue, m)
    BY <1>2, <1>6, <1>9, <1>11, <2>2, QueuesAreStretches, StretchEmpty
  <2>6. Fifo!Send(m)
    <3>1. CASE discard
      BY <1>2, <1>4, <1>5, <2>1, <2>2, <2>4, <2>5, <3>1
      DEF Fifo!Send, RecvQueue, SendQueue, Connected
    <3>2. CASE ~discard
      BY <1>2, <1>4, <1>5, <2>1, <2>2, <2>4, <2>5, <3>2
      DEF Fifo!Send, RecvQueue, SendQueue, Connected
    <3>. QED
      BY <3>1, <3>2
  <2>. QED
    BY <1>1, <2>6 DEF Fifo!Next
<1>12. CASE ~Ready("recv")
  <2>1. discarded' = discarded
    BY <1>12 DEF SendProduce
  <2>2. RecvQueue' = RecvQueue /\ SendQueue' = <<>>
    BY <1>3, <1>9, <1>12, QueuesAreStretches, StretchEmpty
  <2>3. "recv" \notin Connected
    BY <1>12 DEF Connected
  <2>4. Fifo!Send(m)
    BY <1>2, <1>4, <1>5, <2>1, <2>2, <2>3
    DEF Fifo!Send, RecvQueue, SendQueue, Connected
  <2>. QED
    BY <1>1, <2>4 DEF Fifo!Next
<1>. QED
  BY <1>10, <1>11, <1>12

(* Every step keeps what the copies in progress hold.                      *)
LEMMA CopiesExactStep ==
  ASSUME FifoInv, [Next]_vars
  PROVE  CopiesExact'
<1>0. /\ pc \in [Sides -> {"idle", "loop", "got", "copied", "enable"}]
      /\ next \in [Sides -> Positions]
      /\ copy \in [Sides -> Messages \union {NoMessage}]
      /\ slots \in [Positions -> Messages \union {NoMessage}]
  BY DEF FifoInv, TypeOK
<1>1. CopiesExact
  BY DEF FifoInv
<1>2. ASSUME NEW side \in Sides, Create(side)  PROVE CopiesExact'
  BY <1>0, <1>1, <1>2 DEF CopiesExact, Create, SideInit, ports, Sides
<1>3. ASSUME NEW side \in Sides, Restart(side)  PROVE CopiesExact'
  BY <1>0, <1>1, <1>3 DEF CopiesExact, Restart, struct, Sides
<1>4. CASE Clear
  BY <1>0, <1>1, <1>4 DEF CopiesExact, Clear, SideInit, Sides
<1>5. ASSUME NEW side \in Sides, LocalEnable(side) \/ OtherCall(side) \/ NobodyWaits(side)
      PROVE  CopiesExact'
  BY <1>0, <1>1, <1>5 DEF CopiesExact, LocalEnable, OtherCall, NobodyWaits, struct, Sides
<1>6. ASSUME NEW subscribe \in BOOLEAN, RecvGet(subscribe) \/ SendGet(subscribe)
      PROVE  CopiesExact'
  BY <1>0, <1>1, <1>6 DEF CopiesExact, RecvGet, SendGet, Granted, Denied, Sides
<1>7. CASE RecvCopy
  BY <1>0, <1>1, <1>7 DEF CopiesExact, RecvCopy, struct, Sides
<1>8. CASE RecvConsume
  BY <1>0, <1>1, <1>8 DEF CopiesExact, RecvConsume, Done, Sides
<1>9. ASSUME NEW m \in Messages, SendCopy(m)  PROVE CopiesExact'
  <2>1. pc["send"] = "got" /\ SendCount < SendMax
    BY <1>9 DEF SendCopy, FifoInv, Core, AssertsHold
  <2>2. ASSUME pc["recv"] = "copied"  PROVE next["send"] # next["recv"]
    BY <2>1, <2>2, FreeSlot DEF FifoInv, Core, Operations, AssertsHold, Sides
  <2>. QED
    BY <1>0, <1>1, <1>9, <2>2 DEF CopiesExact, SendCopy, struct, Sides
<1>10. CASE SendProduce
  <2>1. /\ next'["recv"] = next["recv"] /\ slots' = slots
        /\ pc'["recv"] = pc["recv"] /\ copy'["recv"] = copy["recv"] /\ pc'["send"] # "copied"
    BY <1>0, <1>10 DEF SendProduce, Done, Sides
  <2>. QED
    BY <1>1, <2>1 DEF CopiesExact
<1>11. CASE UNCHANGED vars
  BY <1>1, <1>11 DEF CopiesExact, vars, struct, ports
<1>. QED
  BY <1>2, <1>3, <1>4, <1>5, <1>6, <1>7, <1>8, <1>9, <1>10, <1>11 DEF Next

(* Each step of the channel is a step of the two queues, or none.          *)
LEMMA FifoStep ==
  ASSUME FifoInv, [Next]_vars
  PROVE  [Fifo!Next]_Fifo!vars
<1>1. ASSUME NEW side \in Sides, Create(side)  PROVE Fifo!Next
  BY <1>1, FifoConnects DEF Create, params, ports
<1>2. CASE Clear
  BY <1>2, FifoConnects DEF Clear, params, Sides
<1>3. ASSUME NEW side \in Sides, LocalEnable(side) \/ OtherCall(side) \/ NobodyWaits(side)
      PROVE  UNCHANGED Fifo!vars
  BY <1>3, FifoStutters DEF LocalEnable, OtherCall, NobodyWaits, params, struct
<1>4. ASSUME NEW subscribe \in BOOLEAN, RecvGet(subscribe) \/ SendGet(subscribe)
      PROVE  UNCHANGED Fifo!vars
  BY <1>4, FifoStutters DEF RecvGet, SendGet, params
<1>5. CASE RecvCopy
  BY <1>5, FifoStutters DEF RecvCopy, params, struct
<1>6. CASE UNCHANGED vars
  BY <1>6, FifoStutters DEF vars, params, struct, ports
<1>. QED
  BY <1>1, <1>2, <1>3, <1>4, <1>5, <1>6, FifoRestarts, FifoCopies, FifoReceives, FifoSends
  DEF Next

(* The cyclic array implements the two FIFO queues: messages are received  *)
(* in the order in which they were sent, none twice and none altered, and  *)
(* none is lost but those the channel may drop, for arrays of any size.    *)
THEOREM ChannelIsFifo == Spec /\ Sized => FifoSpec
<1>1. Init /\ Sized => FifoInv /\ Fifo!Init
  BY TypeInit, CoreInit, FifoInit DEF FifoInv
<1>2. FifoInv /\ [Next]_vars => FifoInv'
  <2> SUFFICES ASSUME FifoInv, [Next]_vars  PROVE FifoInv'
    OBVIOUS
  <2>1. TypeOK'
    BY TypeStep DEF FifoInv
  <2>2. recvReinit' = recvReinit
    BY DEF Next, Create, Restart, Clear, LocalEnable, OtherCall, NobodyWaits, RecvGet,
           SendGet, RecvCopy, RecvConsume, SendCopy, SendProduce, params, vars
  <2>. QED
    BY <2>1, <2>2, CoreStep, CopiesExactStep DEF FifoInv, Sized
<1>3. FifoInv /\ [Next]_vars => [Fifo!Next]_Fifo!vars
  BY FifoStep
<1>. QED
  BY <1>1, <1>2, <1>3, PTL DEF Spec, FifoSpec, Fifo!Spec

--------------------------------------------------------------------------------
(* Every step of the ports is a step of the channel, or leaves it alone.   *)
LEMMA PortStepIsChannelStep ==
  ASSUME PortNext
  PROVE  [Next]_vars
<1> USE DEF Next, Sides
<1>1. PICK side \in Sides :
        \/ \E w \in Waits : \/ CallQueues(side, w)
                            \/ \E subscribe \in BOOLEAN : Call(side, w, subscribe)
        \/ CallReturns(side)
        \/ \E p \in Processes(side) : Stop(side, p) \/ Timeout(side, p)
        \/ Kernel(side)
        \/ PortCreate(side) \/ PortRestart(side)
        \/ side = "recv" /\ PortClear
  BY DEF PortNext
<1>2. CASE \E w \in Waits : CallQueues(side, w)
  BY <1>2 DEF CallQueues
<1>3. CASE \E w \in Waits : \E subscribe \in BOOLEAN : Call(side, w, subscribe)
  BY <1>3 DEF Call, Get
<1>4. CASE CallReturns(side)
  BY <1>4 DEF CallReturns
<1>5. CASE \E p \in Processes(side) : Stop(side, p) \/ Timeout(side, p)
  BY <1>5 DEF Stop, Timeout
<1>6. CASE Kernel(side)
  <2>1. CASE Enable(side) \/ FiredIdle(side)
    BY <2>1 DEF Enable, FiredIdle
  <2>2. CASE Fired(side)
    BY <2>2 DEF Fired, Get
  <2>3. CASE Copies(side) \/ Completes(side)
    BY <2>3 DEF Copies, Completes
  <2>. QED
    BY <1>6, <2>1, <2>2, <2>3 DEF Kernel
<1>7. CASE PortCreate(side) \/ PortRestart(side)
  BY <1>7 DEF PortCreate, PortRestart
<1>8. CASE side = "recv" /\ PortClear
  BY <1>8 DEF PortClear
<1>. QED
  BY <1>1, <1>2, <1>3, <1>4, <1>5, <1>6, <1>7, <1>8

(* The processes of the ports use the channel as QueuingChannel has it:     *)
(* what is proved of the channel holds at its ports.                       *)
THEOREM PortsUseChannel == PortSpec => Spec
<1>1. PortInit => Init
  BY DEF PortInit
<1>2. [PortNext]_allVars => [Next]_vars
  BY PortStepIsChannelStep DEF allVars
<1>. QED
  BY <1>1, <1>2, PTL DEF PortSpec, Spec
--------------------------------------------------------------------------------
(***************************************************************************)
(* Why no subscription is lost: port_queuing_fired is what clears it, and   *)
(* it goes on until it has subscribed again or nobody waits; a port that is *)
(* (re)created, which clears it too, has no process waiting.               *)
(***************************************************************************)
Progress ==
  \A side \in Sides :
    /\ pc[side] \in {"idle", "enable"} => ~fired[side]
    /\ pc[side] = "loop" => fired[side]

WaitersConnected == \A side \in Sides : waiters[side] # <<>> => Ready(side)

QueuesTyped == waiters = [side \in Sides |-> waiters[side]]

WInv == TypeOK /\ QueuesTyped /\ Progress /\ WaitersConnected /\ WaitersSubscribed

LEMMA ProgressStep ==
  ASSUME TypeOK, Progress, [Next]_vars
  PROVE  Progress'
<1> USE DEF TypeOK, Progress, Sides
<1>1. ASSUME NEW side \in Sides, Create(side) \/ OtherCall(side)  PROVE Progress'
  BY <1>1 DEF Create, OtherCall, ports
<1>2. ASSUME NEW side \in Sides, Restart(side)  PROVE Progress'
  BY <1>2 DEF Restart
<1>3. ASSUME NEW side \in Sides, LocalEnable(side)  PROVE Progress'
  <2>1. pc'[side] = (IF fired'[side] THEN "loop" ELSE "idle")
    BY <1>3 DEF LocalEnable
  <2>. QED
    BY <1>3, <2>1 DEF LocalEnable
<1>4. ASSUME NEW side \in Sides, NobodyWaits(side)  PROVE Progress'
  BY <1>4 DEF NobodyWaits
<1>5. CASE Clear
  BY <1>5 DEF Clear
<1>6. ASSUME NEW subscribe \in BOOLEAN, RecvGet(subscribe) \/ SendGet(subscribe)
      PROVE  Progress'
  BY <1>6 DEF RecvGet, SendGet, MayGet, Granted, Denied
<1>7. CASE RecvCopy \/ \E m \in Messages : SendCopy(m)
  BY <1>7 DEF RecvCopy, SendCopy
<1>8. CASE RecvConsume \/ SendProduce
  BY <1>8 DEF RecvConsume, SendProduce, Done
<1>9. CASE UNCHANGED vars
  BY <1>9 DEF vars, ports
<1>. QED
  BY <1>1, <1>2, <1>3, <1>4, <1>5, <1>6, <1>7, <1>8, <1>9 DEF Next

LEMMA OtherSideKept ==
  ASSUME NEW f \in [Sides -> BOOLEAN], NEW side \in Sides, NEW b,
         NEW s \in Sides \ {side}
  PROVE  [f EXCEPT ![side] = b][s] = f[s]
BY Zenon

(* What the channel's steps do to the side that takes them, and to the      *)
(* other one.                                                              *)
LEMMA GetStep ==
  ASSUME TypeOK, NEW side \in Sides, NEW subscribe \in BOOLEAN, Get(side, subscribe)
  PROVE  /\ Ready(side) /\ UNCHANGED <<generation, partGen, events>>
         /\ pc'[side] \in {"got", "enable"}
         /\ pc'[side] = "got" => UNCHANGED <<isNotify, fired>>
         /\ pc'[side] # "got" => isNotify' = [isNotify EXCEPT ![side] = @ \/ subscribe]
         /\ pc'[side] # "got" => fired' = [fired EXCEPT ![side] = FALSE]
<1>1. CASE side = "recv"
  <2>1. CASE next["recv"] # border
    BY <1>1, <2>1 DEF Get, RecvGet, MayGet, Granted, TypeOK
  <2>2. CASE next["recv"] = border
    BY <1>1, <2>2 DEF Get, RecvGet, MayGet, Denied, TypeOK
  <2>. QED
    BY <2>1, <2>2
<1>2. CASE side = "send"
  <2>1. CASE SendHasRoom
    BY <1>2, <2>1 DEF Get, SendGet, MayGet, Granted, TypeOK
  <2>2. CASE ~SendHasRoom
    BY <1>2, <2>2 DEF Get, SendGet, MayGet, Denied, TypeOK
  <2>. QED
    BY <2>1, <2>2
<1>. QED
  BY <1>1, <1>2 DEF Sides

LEMMA CompletesStep ==
  ASSUME TypeOK, NEW side \in Sides, Completes(side)
  PROVE  /\ UNCHANGED <<generation, partGen, fired, waiters>>
         /\ \A s \in Sides : \/ isNotify'[s] = isNotify[s] /\ events'[s] = events[s]
                             \/ events'[s] > 0
                             \/ ~isNotify[s] /\ events'[s] = events[s]
<1>1. /\ RecvConsume \/ SendProduce
      /\ UNCHANGED waiters
  BY DEF Completes
<1>2. UNCHANGED <<generation, partGen, fired>>
  BY <1>1 DEF RecvConsume, SendProduce, Done
<1>3. \/ UNCHANGED <<isNotify, events>>
      \/ SideNotify("send")
      \/ SideNotify("recv")
  BY <1>1 DEF RecvConsume, SendProduce
<1>4. ASSUME NEW other \in Sides, SideNotify(other), NEW s \in Sides
      PROVE  \/ isNotify'[s] = isNotify[s] /\ events'[s] = events[s]
             \/ events'[s] > 0
             \/ ~isNotify[s] /\ events'[s] = events[s]
  <2>1. CASE s = other
    <3>1. CASE isNotify[s]
      BY <1>4, <2>1, <3>1 DEF SideNotify, TypeOK
    <3>2. CASE ~isNotify[s]
      BY <1>4, <2>1, <3>2 DEF SideNotify, TypeOK
    <3>. QED
      BY <3>1, <3>2
  <2>2. CASE s # other
    BY <1>4, <2>2 DEF SideNotify, TypeOK
  <2>. QED
    BY <2>1, <2>2
<1>. QED
  BY <1>1, <1>2, <1>3, <1>4 DEF Sides

LEMMA WInvStep ==
  ASSUME WInv, ~ClearWhileWaiting, [PortNext]_allVars, TypeOK'
  PROVE  WInv'
<1> USE DEF WInv
<1>1. Progress'
  BY PortStepIsChannelStep, ProgressStep DEF allVars
<1>2. SUFFICES QueuesTyped' /\ WaitersConnected' /\ WaitersSubscribed'
  BY <1>1
<1>3. ASSUME NEW side \in Sides,
             UNCHANGED <<isNotify, events, fired, generation, partGen>>,
             waiters' = waiters \/ waiters[side] # <<>>,
             waiters' = [waiters EXCEPT ![side] = waiters'[side]]
      PROVE  QueuesTyped' /\ WaitersConnected' /\ WaitersSubscribed'
  BY <1>3 DEF QueuesTyped, WaitersConnected, WaitersSubscribed, Ready
<1>4. ASSUME NEW side \in Sides, NEW w \in Waits, CallQueues(side, w)
      PROVE  QueuesTyped' /\ WaitersConnected' /\ WaitersSubscribed'
  BY <1>3, <1>4 DEF CallQueues, OtherCall, WqAdd, struct, QueuesTyped
<1>5. ASSUME NEW side \in Sides, NEW w \in Waits, NEW subscribe \in BOOLEAN,
             Call(side, w, subscribe)
      PROVE  QueuesTyped' /\ WaitersConnected' /\ WaitersSubscribed'
  <2>1. CASE pc'[side] = "got"
    <3>1. UNCHANGED <<isNotify, fired, events, generation, partGen, waiters>>
      BY <1>5, <2>1, GetStep DEF Call
    <3>. QED
      BY <3>1, <1>3 DEF QueuesTyped
  <2>2. CASE pc'[side] # "got" /\ ~subscribe
    <3>1. UNCHANGED <<events, generation, partGen, waiters>>
      BY <1>5, <2>2, GetStep DEF Call, portVars
    <3>2. waiters[side] = <<>>
      BY <1>5 DEF Call
    <3>3. \A s \in Sides \ {side} : isNotify'[s] = isNotify[s] /\ fired'[s] = fired[s]
      BY <1>5, <2>2, GetStep DEF Call, TypeOK
    <3>. QED
      BY <3>1, <3>2, <3>3 DEF QueuesTyped, WaitersConnected, WaitersSubscribed, Ready
  <2>3. CASE pc'[side] # "got" /\ subscribe
    <3>1. UNCHANGED <<events, generation, partGen>> /\ Ready(side)
      BY <1>5, <2>3, GetStep DEF Call
    <3>2. isNotify' = [isNotify EXCEPT ![side] = @ \/ subscribe]
      BY <1>5, <2>3, GetStep DEF Call
    <3>3. isNotify'[side]
      BY <3>2, <2>3, Zenon DEF TypeOK
    <3>4. fired' = [fired EXCEPT ![side] = FALSE]
      BY <1>5, <2>3, GetStep DEF Call
    <3>5. \A s \in Sides \ {side} : isNotify'[s] = isNotify[s] /\ fired'[s] = fired[s]
      <4>1. isNotify \in [Sides -> BOOLEAN] /\ fired \in [Sides -> BOOLEAN]
        BY DEF TypeOK
      <4>. QED
        BY <3>2, <3>4, <4>1, OtherSideKept, Zenon
    <3>6. waiters' = [waiters EXCEPT ![side] = waiters'[side]]
      BY <1>5, <2>3 DEF Call, WqAdd, QueuesTyped
    <3>. QED
      BY <3>1, <3>3, <3>5, <3>6 DEF QueuesTyped, WaitersConnected, WaitersSubscribed, Ready
  <2>. QED
    BY <2>1, <2>2, <2>3
<1>6. ASSUME NEW side \in Sides, NEW p, Stop(side, p) \/ Timeout(side, p)
      PROVE  QueuesTyped' /\ WaitersConnected' /\ WaitersSubscribed'
  <2>1. waiters[side] # <<>>
    BY <1>6 DEF Stop, Timeout, Waiting
  <2>2. UNCHANGED <<isNotify, events, fired, generation, partGen>>
    BY <1>6 DEF Stop, Timeout, OtherCall, struct, vars, ports
  <2>3. waiters' = [waiters EXCEPT ![side] = waiters'[side]]
    BY <1>6 DEF Stop, Timeout, WqRemove, QueuesTyped
  <2>. QED
    BY <2>1, <2>2, <2>3, <1>3
<1>7. ASSUME NEW side \in Sides, Fired(side)
      PROVE  QueuesTyped' /\ WaitersConnected' /\ WaitersSubscribed'
  <2>1. Get(side, TRUE) /\ waiters[side] # <<>> /\ pc[side] = "loop" /\ fired[side]
    BY <1>7 DEF Fired, Progress
  <2>2. waiters' = [waiters EXCEPT ![side] = waiters'[side]]
    BY <1>7 DEF Fired, WqRemove, QueuesTyped, portVars
  <2>3. CASE pc'[side] = "got"
    BY <2>1, <2>2, <2>3, GetStep, <1>3
  <2>4. CASE pc'[side] # "got"
    <3>1. isNotify' = [isNotify EXCEPT ![side] = @ \/ TRUE]
      BY <2>1, <2>4, GetStep
    <3>2. isNotify'[side]
      BY <3>1, Zenon DEF TypeOK
    <3>3. UNCHANGED <<events, generation, partGen>>
      BY <2>1, <2>4, GetStep
    <3>4. fired' = [fired EXCEPT ![side] = FALSE]
      BY <2>1, <2>4, GetStep
    <3>5. \A s \in Sides \ {side} : isNotify'[s] = isNotify[s] /\ fired'[s] = fired[s]
      <4>1. isNotify \in [Sides -> BOOLEAN] /\ fired \in [Sides -> BOOLEAN]
        BY DEF TypeOK
      <4>. QED
        BY <3>1, <3>4, <4>1, OtherSideKept, Zenon
    <3>. QED
      BY <2>1, <2>2, <3>2, <3>3, <3>5
      DEF QueuesTyped, WaitersConnected, WaitersSubscribed, Ready
  <2>. QED
    BY <2>3, <2>4
<1>8. ASSUME NEW side \in Sides, FiredIdle(side)
      PROVE  QueuesTyped' /\ WaitersConnected' /\ WaitersSubscribed'
  <2>1. /\ waiters[side] = <<>>
        /\ UNCHANGED <<isNotify, events, generation, partGen, waiters>>
    BY <1>8 DEF FiredIdle, NobodyWaits, struct, portVars
  <2>2. \A s \in Sides \ {side} : fired'[s] = fired[s]
    BY <1>8 DEF FiredIdle, NobodyWaits, TypeOK
  <2>. QED
    BY <2>1, <2>2 DEF QueuesTyped, WaitersConnected, WaitersSubscribed, Ready
<1>9. ASSUME NEW side \in Sides, Copies(side) \/ CallReturns(side)
      PROVE  QueuesTyped' /\ WaitersConnected' /\ WaitersSubscribed'
  BY <1>9 DEF Copies, RecvCopy, SendCopy, CallReturns, OtherCall, portVars, struct,
              QueuesTyped, WaitersConnected, WaitersSubscribed, Ready
<1>10. ASSUME NEW side \in Sides, Completes(side)
      PROVE  QueuesTyped' /\ WaitersConnected' /\ WaitersSubscribed'
  BY <1>10, CompletesStep
  DEF QueuesTyped, WaitersConnected, WaitersSubscribed, Ready, TypeOK
<1>11. ASSUME NEW side \in Sides, Enable(side)
      PROVE  QueuesTyped' /\ WaitersConnected' /\ WaitersSubscribed'
  <2>1. /\ UNCHANGED <<isNotify, generation, partGen, waiters>>
        /\ ~fired[side]
        /\ fired' = [fired EXCEPT ![side] = events[side] > 0]
        /\ events' = [events EXCEPT ![side] = 0]
    BY <1>11 DEF Enable, LocalEnable, struct, portVars, Progress
  <2>2. events[side] > 0 => fired'[side]
    BY <2>1, Zenon DEF TypeOK
  <2>3. \A s \in Sides \ {side} : fired'[s] = fired[s] /\ events'[s] = events[s]
    BY <2>1 DEF TypeOK
  <2>. QED
    BY <2>1, <2>2, <2>3 DEF QueuesTyped, WaitersConnected, WaitersSubscribed, Ready
<1>12. ASSUME NEW side \in Sides, PortCreate(side)
      PROVE  QueuesTyped' /\ WaitersConnected' /\ WaitersSubscribed'
  <2>1. waiters[side] = <<>>
    BY <1>12 DEF PortCreate, Create, WaitersConnected
  <2>2. UNCHANGED <<events, fired, partGen, waiters>>
    BY <1>12 DEF PortCreate, Create, ports, portVars
  <2>3. \A s \in Sides \ {side} :
          isNotify'[s] = isNotify[s] /\ generation'[s] = generation[s]
    BY <1>12 DEF PortCreate, Create, SideInit, TypeOK
  <2>. QED
    BY <2>1, <2>2, <2>3 DEF QueuesTyped, WaitersConnected, WaitersSubscribed, Ready
<1>13. CASE PortClear
  <2>1. waiters["recv"] = <<>>
    BY <1>13 DEF PortClear
  <2>2. UNCHANGED <<events, fired, partGen, waiters>>
    BY <1>13 DEF PortClear, Clear, portVars
  <2>3. \A s \in Sides \ {"recv"} :
          isNotify'[s] = isNotify[s] /\ generation'[s] = generation[s]
    BY <1>13 DEF PortClear, Clear, SideInit, TypeOK
  <2>. QED
    BY <2>1, <2>2, <2>3 DEF QueuesTyped, WaitersConnected, WaitersSubscribed, Ready
<1>14. ASSUME NEW side \in Sides, PortRestart(side)
      PROVE  QueuesTyped' /\ WaitersConnected' /\ WaitersSubscribed'
  <2>1. /\ waiters' = [waiters EXCEPT ![side] = <<>>]
        /\ UNCHANGED <<isNotify, generation>>
    BY <1>14 DEF PortRestart, Restart, struct
  <2>2. \A s \in Sides \ {side} :
          events'[s] = events[s] /\ fired'[s] = fired[s] /\ partGen'[s] = partGen[s]
    BY <1>14 DEF PortRestart, Restart, TypeOK
  <2>3. waiters'[side] = <<>>
    BY <2>1 DEF QueuesTyped
  <2>. QED
    BY <2>1, <2>2, <2>3 DEF QueuesTyped, WaitersConnected, WaitersSubscribed, Ready
<1>15. CASE UNCHANGED allVars
  BY <1>15 DEF allVars, vars, struct, ports, portVars, QueuesTyped, WaitersConnected,
               WaitersSubscribed, Ready
<1>. QED
  BY <1>4, <1>5, <1>6, <1>7, <1>8, <1>9, <1>10, <1>11, <1>12, <1>13, <1>14, <1>15
  DEF PortNext, Kernel

LEMMA PortInvariant == ASSUME ~ClearWhileWaiting PROVE PortSpec => []WInv
<1>1. PortInit => WInv
  BY TypeInit DEF PortInit, WInv, Init, QueuesTyped, Progress, WaitersConnected,
                  WaitersSubscribed, Sides
<1>2. WInv /\ [PortNext]_allVars /\ TypeOK' => WInv'
  BY WInvStep
<1>. QED
  BY <1>1, <1>2, PortsUseChannel, TypeCorrect, PTL DEF PortSpec

(* No process waits at a port whose partition is not subscribed to what it  *)
(* waits for, provided that a port is never cleared while processes wait.  *)
THEOREM NoWaiterForgotten ==
  ASSUME ~ClearWhileWaiting
  PROVE  PortSpec => []WaitersSubscribed
<1>1. WInv => WaitersSubscribed
  BY DEF WInv
<1>. QED
  BY <1>1, PortInvariant, PTL
--------------------------------------------------------------------------------
(***************************************************************************)
(* The order of service.  The wait queue of a port is sorted by what the    *)
(* queuing discipline says of any two processes in it; a process that       *)
(* comes is put behind those that go before it, one that leaves takes       *)
(* nothing else with it, and port_queuing_fired serves the first.           *)
(***************************************************************************)
(* Each process is once in a queue, and once in the history.               *)
EachOnce(w, a) ==
  /\ \A i, j \in DOMAIN w : w[i].process = w[j].process => i = j
  /\ \A i, j \in DOMAIN a : a[i] = a[j] => i = j

(* p came before q.                                                        *)
Came(a, p, q) == \E i, j \in DOMAIN a : i < j /\ a[i] = p /\ a[j] = q

(* What one entry of the queue has over those behind it.                   *)
Outranks(prio, v, w, a) ==
  IF prio /\ v.priority # w.priority THEN v.priority > w.priority
  ELSE Came(a, v.process, w.process)

(* The queue holds the processes of the history, in the order in which      *)
(* they are served.                                                        *)
Ordered(prio, w, a) ==
  /\ w \in Seq(Waits) /\ a \in Seq(Receivers \union Senders)
  /\ EachOnce(w, a)
  /\ {w[i].process : i \in DOMAIN w} = {a[i] : i \in DOMAIN a}
  /\ \A i, j \in DOMAIN w : i < j => Outranks(prio, w[i], w[j], a)

(* Where the entries of a sequence are when one is taken out or put in.    *)
LEMMA Removed ==
  ASSUME NEW S, NEW s \in Seq(S), NEW n \in DOMAIN s
  PROVE  /\ RemoveAt(s, n) \in Seq(S)
         /\ Len(RemoveAt(s, n)) = Len(s) - 1
         /\ \A i \in 1 .. n - 1 : RemoveAt(s, n)[i] = s[i]
         /\ \A i \in n .. Len(s) - 1 : RemoveAt(s, n)[i] = s[i + 1]
<1>1. Len(s) \in Nat /\ n \in 1 .. Len(s) /\ \A i \in 1 .. Len(s) : s[i] \in S
  OBVIOUS
<1> DEFINE front == SubSeq(s, 1, n - 1)
           back == SubSeq(s, n + 1, Len(s))
<1>2. /\ front \in Seq(S) /\ Len(front) = n - 1
      /\ \A i \in 1 .. n - 1 : front[i] = s[i]
  BY <1>1
<1>3. /\ back \in Seq(S) /\ Len(back) = Len(s) - n
      /\ \A i \in 1 .. Len(s) - n : back[i] = s[i + n]
  BY <1>1
<1>. HIDE DEF front, back
<1>4. /\ front \o back \in Seq(S) /\ Len(front \o back) = Len(front) + Len(back)
      /\ \A i \in 1 .. Len(front) + Len(back) :
           (front \o back)[i] = IF i <= Len(front) THEN front[i] ELSE back[i - Len(front)]
  BY <1>2, <1>3, ConcatProperties, Zenon
<1>5. ASSUME NEW i \in 1 .. n - 1
      PROVE  (front \o back)[i] = s[i]
  <2>1. i \in 1 .. Len(front) + Len(back) /\ i <= Len(front)
    BY <1>1, <1>2, <1>3
  <2>. QED
    BY <1>2, <1>4, <2>1
<1>6. ASSUME NEW i \in n .. Len(s) - 1
      PROVE  (front \o back)[i] = s[i + 1]
  <2>1. i - (n - 1) \in 1 .. Len(s) - n /\ (i - (n - 1)) + n = i + 1
          /\ i \in 1 .. Len(front) + Len(back) /\ ~(i <= Len(front))
    <3>1. Len(front) = n - 1 /\ Len(front) + Len(back) = Len(s) - 1
      BY <1>1, <1>2, <1>3
    <3>. QED
      BY <1>1, <3>1
  <2>. QED
    BY <1>2, <1>3, <1>4, <2>1
<1>7. Len(front \o back) = Len(s) - 1
  BY <1>1, <1>2, <1>3, <1>4
<1>. QED
  BY <1>4, <1>5, <1>6, <1>7 DEF RemoveAt, front, back

(* v is s with e at n, and what was from n on behind it.                   *)
IsWith(v, S, s, n, e) ==
  /\ v \in Seq(S)
  /\ Len(v) = Len(s) + 1
  /\ v[n] = e
  /\ \A i \in 1 .. n - 1 : v[i] = s[i]
  /\ \A i \in n + 1 .. Len(s) + 1 : v[i] = s[i - 1]

LEMMA PutIn ==
  ASSUME NEW S, NEW s \in Seq(S), NEW n \in 1 .. Len(s) + 1, NEW e \in S
  PROVE  IsWith(InsertAt(s, n, e), S, s, n, e)
<1>1. Len(s) \in Nat /\ \A i \in 1 .. Len(s) : s[i] \in S
  OBVIOUS
<1> DEFINE front == SubSeq(s, 1, n - 1)
           back == SubSeq(s, n, Len(s))
           both == front \o <<e>>
<1>2. /\ front \in Seq(S) /\ Len(front) = n - 1
      /\ \A i \in 1 .. n - 1 : front[i] = s[i]
  BY <1>1
<1>3. /\ back \in Seq(S) /\ Len(back) = Len(s) - n + 1
      /\ \A i \in 1 .. Len(s) - n + 1 : back[i] = s[i + n - 1]
  BY <1>1
<1>4. <<e>> \in Seq(S) /\ Len(<<e>>) = 1 /\ <<e>>[1] = e
  OBVIOUS
<1>. HIDE DEF front, back
<1>5. /\ both \in Seq(S) /\ Len(both) = n
      /\ \A i \in 1 .. n - 1 : both[i] = s[i]
      /\ both[n] = e
  <2>1. /\ both \in Seq(S) /\ Len(both) = Len(front) + Len(<<e>>)
        /\ \A i \in 1 .. Len(front) + Len(<<e>>) :
             both[i] = IF i <= Len(front) THEN front[i] ELSE <<e>>[i - Len(front)]
    BY <1>2, <1>4, ConcatProperties, Zenon
  <2>2. Len(both) = n /\ n \in 1 .. n /\ n - (n - 1) = 1
    BY <1>1, <1>2, <1>4, <2>1
  <2>. QED
    BY <1>1, <1>2, <1>4, <2>1, <2>2
<1>. HIDE DEF both
<1>6. /\ both \o back \in Seq(S) /\ Len(both \o back) = Len(both) + Len(back)
      /\ \A i \in 1 .. Len(both) + Len(back) :
           (both \o back)[i] = IF i <= Len(both) THEN both[i] ELSE back[i - Len(both)]
  BY <1>3, <1>5, ConcatProperties, Zenon
<1>7. Len(both \o back) = Len(s) + 1 /\ (both \o back)[n] = e
        /\ \A i \in 1 .. n - 1 : (both \o back)[i] = s[i]
  BY <1>1, <1>3, <1>5, <1>6
<1>8. ASSUME NEW i \in n + 1 .. Len(s) + 1
      PROVE  (both \o back)[i] = s[i - 1]
  <2>1. i - n \in 1 .. Len(s) - n + 1 /\ (i - n) + n - 1 = i - 1 /\ ~(i <= n)
          /\ i \in 1 .. Len(both) + Len(back)
    BY <1>1, <1>3, <1>5
  <2>. QED
    BY <1>3, <1>5, <1>6, <2>1
<1>. QED
  BY <1>6, <1>7, <1>8 DEF InsertAt, IsWith, both, front, back

(* The order of arrival of those that stay does not change.                *)
LEMMA CameRemoved ==
  ASSUME NEW S, NEW a \in Seq(S), NEW n \in DOMAIN a, NEW p, NEW q,
         Came(a, p, q), p # a[n], q # a[n]
  PROVE  Came(RemoveAt(a, n), p, q)
<1>1. Len(a) \in Nat /\ DOMAIN a = 1 .. Len(a)
  OBVIOUS
<1> DEFINE r == RemoveAt(a, n)
<1>2. /\ r \in Seq(S) /\ Len(r) = Len(a) - 1
      /\ \A i \in 1 .. n - 1 : r[i] = a[i]
      /\ \A i \in n .. Len(a) - 1 : r[i] = a[i + 1]
  BY Removed, Zenon
<1>. HIDE DEF r
<1>3. PICK i, j \in 1 .. Len(a) : i < j /\ a[i] = p /\ a[j] = q
  BY <1>1 DEF Came
<1>4. i # n /\ j # n
  BY <1>3
<1>5. DOMAIN r = 1 .. Len(a) - 1
  BY <1>2
<1>6. CASE j < n
  <2>1. i \in 1 .. n - 1 /\ j \in 1 .. n - 1 /\ i \in DOMAIN r /\ j \in DOMAIN r
    BY <1>1, <1>3, <1>5, <1>6
  <2>. QED
    BY <1>2, <1>3, <2>1 DEF Came, r
<1>7. CASE i < n /\ ~(j < n)
  <2>1. i \in 1 .. n - 1 /\ j - 1 \in n .. Len(a) - 1 /\ (j - 1) + 1 = j /\ i < j - 1
          /\ i \in DOMAIN r /\ j - 1 \in DOMAIN r
    BY <1>1, <1>3, <1>4, <1>5, <1>7
  <2>2. r[i] = p /\ r[j - 1] = q
    BY <1>2, <1>3, <2>1
  <2>. QED
    BY <2>1, <2>2 DEF Came, r
<1>8. CASE ~(i < n)
  <2>1. i - 1 \in n .. Len(a) - 1 /\ (i - 1) + 1 = i
          /\ j - 1 \in n .. Len(a) - 1 /\ (j - 1) + 1 = j /\ i - 1 < j - 1
          /\ i - 1 \in DOMAIN r /\ j - 1 \in DOMAIN r
    BY <1>1, <1>3, <1>4, <1>5, <1>8
  <2>2. r[i - 1] = p /\ r[j - 1] = q
    BY <1>2, <1>3, <2>1
  <2>. QED
    BY <2>1, <2>2 DEF Came, r
<1>. QED
  BY <1>1, <1>3, <1>6, <1>7, <1>8

(* A process that comes is behind those that came before.                 *)
LEMMA CameAppended ==
  ASSUME NEW S, NEW a \in Seq(S), NEW p \in S, NEW q, NEW o
  PROVE  /\ Came(a, q, o) => Came(Append(a, p), q, o)
         /\ q \in {a[i] : i \in DOMAIN a} => Came(Append(a, p), q, p)
<1>1. /\ Len(a) \in Nat /\ DOMAIN a = 1 .. Len(a)
      /\ DOMAIN Append(a, p) = 1 .. Len(a) + 1
      /\ Append(a, p)[Len(a) + 1] = p
      /\ \A i \in 1 .. Len(a) : Append(a, p)[i] = a[i]
  OBVIOUS
<1>2. ASSUME Came(a, q, o)  PROVE Came(Append(a, p), q, o)
  <2>1. PICK i, j \in 1 .. Len(a) : i < j /\ a[i] = q /\ a[j] = o
    BY <1>1, <1>2 DEF Came
  <2>. QED
    BY <1>1, <2>1 DEF Came
<1>3. ASSUME q \in {a[i] : i \in DOMAIN a}  PROVE Came(Append(a, p), q, p)
  <2>1. PICK i \in 1 .. Len(a) : a[i] = q
    BY <1>1, <1>3
  <2>2. i \in 1 .. Len(a) + 1 /\ Len(a) + 1 \in 1 .. Len(a) + 1 /\ i < Len(a) + 1
    BY <1>1
  <2>. QED
    BY <1>1, <2>1, <2>2 DEF Came
<1>. QED
  BY <1>2, <1>3

(* Two entries of what is left are two of before, in the same order.       *)
LEMMA RemovedPair ==
  ASSUME NEW S, NEW s \in Seq(S), NEW n \in DOMAIN s,
         NEW i \in DOMAIN RemoveAt(s, n), NEW j \in DOMAIN RemoveAt(s, n)
  PROVE  \E k, l \in DOMAIN s :
           /\ k # n /\ l # n /\ (i < j <=> k < l) /\ (i = j <=> k = l)
           /\ RemoveAt(s, n)[i] = s[k] /\ RemoveAt(s, n)[j] = s[l]
<1>1. Len(s) \in Nat /\ DOMAIN s = 1 .. Len(s)
  OBVIOUS
<1> DEFINE r == RemoveAt(s, n)
<1>2. /\ r \in Seq(S) /\ Len(r) = Len(s) - 1
      /\ \A x \in 1 .. n - 1 : r[x] = s[x]
      /\ \A x \in n .. Len(s) - 1 : r[x] = s[x + 1]
  BY Removed, Zenon
<1>3. i \in DOMAIN r /\ j \in DOMAIN r
  OBVIOUS
<1>. HIDE DEF r
<1>4. i \in 1 .. Len(s) - 1 /\ j \in 1 .. Len(s) - 1
  BY <1>2, <1>3
<1>5. ASSUME NEW x \in 1 .. Len(s) - 1
      PROVE  \E y \in DOMAIN s : y # n /\ r[x] = s[y] /\ (x < n => y = x) /\ (~(x < n) => y = x + 1)
  <2>1. CASE x < n
    <3>1. x \in 1 .. n - 1 /\ x \in 1 .. Len(s) /\ x # n
      BY <1>1, <2>1
    <3>. QED
      BY <1>1, <1>2, <2>1, <3>1
  <2>2. CASE ~(x < n)
    <3>1. x \in n .. Len(s) - 1 /\ x + 1 \in 1 .. Len(s) /\ x + 1 # n
      BY <1>1, <2>2
    <3>. QED
      BY <1>1, <1>2, <2>2, <3>1
  <2>. QED
    BY <2>1, <2>2
<1>6. PICK k \in DOMAIN s : k # n /\ r[i] = s[k] /\ (i < n => k = i) /\ (~(i < n) => k = i + 1)
  BY <1>4, <1>5
<1>7. PICK l \in DOMAIN s : l # n /\ r[j] = s[l] /\ (j < n => l = j) /\ (~(j < n) => l = j + 1)
  BY <1>4, <1>5
<1>8. (i < j <=> k < l) /\ (i = j <=> k = l)
  BY <1>1, <1>4, <1>6, <1>7
<1>. QED
  BY <1>6, <1>7, <1>8 DEF r

(* Nothing but the entry taken out is missing.                             *)
LEMMA RemovedRest ==
  ASSUME NEW S, NEW s \in Seq(S), NEW n \in DOMAIN s, NEW k \in DOMAIN s, k # n
  PROVE  \E i \in DOMAIN RemoveAt(s, n) : RemoveAt(s, n)[i] = s[k]
<1>1. Len(s) \in Nat /\ DOMAIN s = 1 .. Len(s)
  OBVIOUS
<1> DEFINE r == RemoveAt(s, n)
<1>2. /\ r \in Seq(S) /\ Len(r) = Len(s) - 1
      /\ \A x \in 1 .. n - 1 : r[x] = s[x]
      /\ \A x \in n .. Len(s) - 1 : r[x] = s[x + 1]
  BY Removed, Zenon
<1>. HIDE DEF r
<1>3. DOMAIN r = 1 .. Len(s) - 1
  BY <1>2
<1>4. CASE k < n
  <2>1. k \in 1 .. n - 1 /\ k \in DOMAIN r
    BY <1>1, <1>3, <1>4
  <2>. QED
    BY <1>2, <2>1 DEF r
<1>5. CASE ~(k < n)
  <2>1. k - 1 \in n .. Len(s) - 1 /\ k - 1 \in DOMAIN r /\ (k - 1) + 1 = k
    BY <1>1, <1>3, <1>5
  <2>2. r[k - 1] = s[k]
    BY <1>2, <2>1
  <2>. QED
    BY <2>1, <2>2 DEF r
<1>. QED
  BY <1>4, <1>5

(* A process leaves the queue: the others stay in order.                   *)
LEMMA OrderedRemove ==
  ASSUME NEW prio, NEW w, NEW a, Ordered(prio, w, a),
         NEW m \in DOMAIN w, NEW n \in DOMAIN a, w[m].process = a[n]
  PROVE  Ordered(prio, RemoveAt(w, m), RemoveAt(a, n))
<1> DEFINE v == RemoveAt(w, m)
           b == RemoveAt(a, n)
<1>1. w \in Seq(Waits) /\ a \in Seq(Receivers \union Senders) /\ EachOnce(w, a)
  BY DEF Ordered
<1>2. v \in Seq(Waits) /\ b \in Seq(Receivers \union Senders)
  BY <1>1, Removed
<1>3. \A i, j \in DOMAIN v : \E k, l \in DOMAIN w :
        /\ k # m /\ l # m /\ (i < j <=> k < l) /\ (i = j <=> k = l)
        /\ v[i] = w[k] /\ v[j] = w[l]
  BY <1>1, RemovedPair
<1>4. \A i, j \in DOMAIN b : \E k, l \in DOMAIN a :
        /\ k # n /\ l # n /\ (i < j <=> k < l) /\ (i = j <=> k = l)
        /\ b[i] = a[k] /\ b[j] = a[l]
  BY <1>1, RemovedPair
<1>5. \A k \in DOMAIN w \ {m} : \E i \in DOMAIN v : v[i] = w[k]
  BY <1>1, RemovedRest
<1>6. \A k \in DOMAIN a \ {n} : \E i \in DOMAIN b : b[i] = a[k]
  BY <1>1, RemovedRest
<1>7. \A p, q : Came(a, p, q) /\ p # a[n] /\ q # a[n] => Came(b, p, q)
  BY <1>1, CameRemoved
<1>. HIDE DEF v, b
<1>8. EachOnce(v, b)
  <2>1. ASSUME NEW i \in DOMAIN v, NEW j \in DOMAIN v, v[i].process = v[j].process  PROVE i = j
    BY <1>1, <1>3, <2>1 DEF EachOnce
  <2>2. ASSUME NEW i \in DOMAIN b, NEW j \in DOMAIN b, b[i] = b[j]  PROVE i = j
    BY <1>1, <1>4, <2>2 DEF EachOnce
  <2>. QED
    BY <2>1, <2>2 DEF EachOnce
<1>9. {w[i].process : i \in DOMAIN w} = {a[i] : i \in DOMAIN a}
  BY DEF Ordered
<1>10. ASSUME NEW i \in DOMAIN v  PROVE \E j \in DOMAIN b : v[i].process = b[j]
  <2>1. PICK k \in DOMAIN w : k # m /\ v[i] = w[k]
    BY <1>3
  <2>2. PICK l \in DOMAIN a : a[l] = w[k].process
    BY <1>9
  <2>3. l # n
    BY <1>1, <2>1, <2>2 DEF EachOnce
  <2>. QED
    BY <1>6, <2>1, <2>2, <2>3
<1>11. ASSUME NEW j \in DOMAIN b  PROVE \E i \in DOMAIN v : v[i].process = b[j]
  <2>1. PICK l \in DOMAIN a : l # n /\ b[j] = a[l]
    BY <1>4
  <2>2. PICK k \in DOMAIN w : a[l] = w[k].process
    BY <1>9
  <2>3. k # m
    BY <1>1, <2>1, <2>2 DEF EachOnce
  <2>. QED
    BY <1>5, <2>1, <2>2, <2>3
<1>12. ASSUME NEW i \in DOMAIN v, NEW j \in DOMAIN v, i < j
       PROVE  Outranks(prio, v[i], v[j], b)
  <2>1. PICK k, l \in DOMAIN w : k # m /\ l # m /\ k < l /\ v[i] = w[k] /\ v[j] = w[l]
    BY <1>3, <1>12
  <2>2. Outranks(prio, w[k], w[l], a)
    BY <2>1 DEF Ordered
  <2>3. w[k].process # a[n] /\ w[l].process # a[n]
    BY <1>1, <2>1 DEF EachOnce
  <2>. QED
    BY <1>7, <2>1, <2>2, <2>3 DEF Outranks
<1>13. {v[i].process : i \in DOMAIN v} = {b[i] : i \in DOMAIN b}
  BY <1>10, <1>11
<1>14. Ordered(prio, v, b)
  BY <1>2, <1>8, <1>12, <1>13 DEF Ordered
<1>. QED
  BY <1>14 DEF v, b

(* An empty queue is in order.                                             *)
LEMMA OrderedEmpty ==
  ASSUME NEW prio
  PROVE  Ordered(prio, <<>>, <<>>)
<1>1. DOMAIN <<>> = {}
  OBVIOUS
<1>. QED
  BY <1>1 DEF Ordered, EachOnce

(* The fields of an entry of the queue.                                    *)
LEMMA WaitTyped ==
  ASSUME NEW f \in Waits
  PROVE  f.process \in Receivers \union Senders /\ f.priority \in Nat
<1>1. f \in [process : Receivers \union Senders, priority : Priorities \union {0}]
  BY DEF Waits
<1>2. f.process \in Receivers \union Senders /\ f.priority \in Priorities \union {0}
  BY <1>1
<1>3. Priorities \union {0} \subseteq Nat
  BY PortAssumption DEF PortAssumption
<1>. QED
  BY <1>2, <1>3

(* A new process joins the queue at its place.                             *)
LEMMA OrderedInsert ==
  ASSUME NEW prio, NEW w, NEW a, Ordered(prio, w, a), NEW e \in Waits,
         e.process \notin {w[i].process : i \in DOMAIN w},
         NEW n \in 1 .. Len(w) + 1,
         \A i \in DOMAIN w : i < n => ~prio \/ w[i].priority >= e.priority,
         \A i \in DOMAIN w : ~(i < n) => prio /\ w[i].priority < e.priority,
         NEW v \in Seq(Waits), Len(v) = Len(w) + 1, v[n] = e,
         \A i \in 1 .. n - 1 : v[i] = w[i],
         \A i \in n + 1 .. Len(w) + 1 : v[i] = w[i - 1]
  PROVE  Ordered(prio, v, Append(a, e.process))
<1> DEFINE b == Append(a, e.process)
<1>1. /\ w \in Seq(Waits) /\ a \in Seq(Receivers \union Senders) /\ EachOnce(w, a)
      /\ {w[i].process : i \in DOMAIN w} = {a[i] : i \in DOMAIN a}
      /\ \A i, j \in DOMAIN w : i < j => Outranks(prio, w[i], w[j], a)
  BY DEF Ordered
<1>2. /\ Len(w) \in Nat /\ Len(a) \in Nat /\ DOMAIN w = 1 .. Len(w) /\ DOMAIN a = 1 .. Len(a)
      /\ DOMAIN v = 1 .. Len(w) + 1
      /\ e.process \in Receivers \union Senders
      /\ \A i \in DOMAIN w : w[i] \in Waits
      /\ \A f \in Waits : f.priority \in Nat
  <2>1. e.process \in Receivers \union Senders /\ \A f \in Waits : f.priority \in Nat
    BY WaitTyped
  <2>2. /\ Len(w) \in Nat /\ Len(a) \in Nat /\ DOMAIN w = 1 .. Len(w) /\ DOMAIN a = 1 .. Len(a)
        /\ DOMAIN v = 1 .. Len(w) + 1 /\ \A i \in DOMAIN w : w[i] \in Waits
    BY <1>1
  <2>. QED
    BY <2>1, <2>2
<1>3. /\ b \in Seq(Receivers \union Senders) /\ Len(b) = Len(a) + 1 /\ DOMAIN b = 1 .. Len(a) + 1
      /\ \A i \in 1 .. Len(a) : b[i] = a[i]
      /\ b[Len(a) + 1] = e.process
  BY <1>1, <1>2
<1>4. /\ \A p, q : Came(a, p, q) => Came(b, p, q)
      /\ \A p \in {a[i] : i \in DOMAIN a} : Came(b, p, e.process)
  BY <1>1, <1>2, CameAppended
<1>. HIDE DEF b
<1>5. ASSUME NEW i \in DOMAIN v
      PROVE  \/ i = n /\ v[i] = e
             \/ \E k \in DOMAIN w : v[i] = w[k] /\ ((i < n /\ k = i) \/ (i > n /\ k = i - 1))
  <2>1. CASE i = n
    BY <2>1
  <2>2. CASE i < n
    <3>1. i \in 1 .. n - 1 /\ i \in 1 .. Len(w)
      BY <1>2, <2>2
    <3>. QED
      BY <1>2, <2>2, <3>1
  <2>3. CASE i > n
    <3>1. i \in n + 1 .. Len(w) + 1 /\ i - 1 \in 1 .. Len(w)
      BY <1>2, <2>3
    <3>. QED
      BY <1>2, <2>3, <3>1
  <2>. QED
    BY <1>2, <2>1, <2>2, <2>3
<1>6. ASSUME NEW k \in DOMAIN w  PROVE \E i \in DOMAIN v : v[i] = w[k]
  <2>1. CASE k < n
    <3>1. k \in 1 .. n - 1 /\ k \in 1 .. Len(w) + 1
      BY <1>2, <2>1
    <3>. QED
      BY <1>2, <3>1
  <2>2. CASE ~(k < n)
    <3>1. k + 1 \in n + 1 .. Len(w) + 1 /\ k + 1 \in 1 .. Len(w) + 1 /\ (k + 1) - 1 = k
      BY <1>2, <2>2
    <3>2. v[k + 1] = w[k]
      BY <3>1
    <3>. QED
      BY <1>2, <3>1, <3>2
  <2>. QED
    BY <2>1, <2>2
<1>7. EachOnce(v, b)
  <2>1. ASSUME NEW i \in DOMAIN v, NEW j \in DOMAIN v, v[i].process = v[j].process  PROVE i = j
    <3>1. CASE i = n /\ j # n
      <4>1. PICK k \in DOMAIN w : v[j] = w[k]
        BY <1>5, <3>1
      <4>. QED
        BY <2>1, <3>1, <4>1
    <3>2. CASE i # n /\ j = n
      <4>1. PICK k \in DOMAIN w : v[i] = w[k]
        BY <1>5, <3>2
      <4>. QED
        BY <2>1, <3>2, <4>1
    <3>3. CASE i # n /\ j # n
      <4>1. PICK k \in DOMAIN w : v[i] = w[k] /\ ((i < n /\ k = i) \/ (i > n /\ k = i - 1))
        BY <1>5, <3>3
      <4>2. PICK l \in DOMAIN w : v[j] = w[l] /\ ((j < n /\ l = j) \/ (j > n /\ l = j - 1))
        BY <1>5, <3>3
      <4>3. k = l
        BY <1>1, <2>1, <4>1, <4>2 DEF EachOnce
      <4>. QED
        BY <1>2, <4>1, <4>2, <4>3
    <3>. QED
      BY <3>1, <3>2, <3>3
  <2>2. ASSUME NEW i \in DOMAIN b, NEW j \in DOMAIN b, b[i] = b[j]  PROVE i = j
    <3>1. \A k \in 1 .. Len(a) : a[k] # e.process
      BY <1>1, <1>2
    <3>2. \A k, l \in 1 .. Len(a) : a[k] = a[l] => k = l
      BY <1>1, <1>2 DEF EachOnce
    <3>. QED
      BY <1>2, <1>3, <2>2, <3>1, <3>2
  <2>. QED
    BY <2>1, <2>2 DEF EachOnce
<1>8. ASSUME NEW i \in DOMAIN v  PROVE \E j \in DOMAIN b : v[i].process = b[j]
  <2>1. CASE v[i] = e
    BY <1>2, <1>3, <2>1
  <2>2. CASE \E k \in DOMAIN w : v[i] = w[k]
    <3>1. PICK k \in DOMAIN w : v[i] = w[k]
      BY <2>2
    <3>2. PICK l \in DOMAIN a : a[l] = w[k].process
      <4>1. w[k].process \in {a[l] : l \in DOMAIN a}
        BY <1>1
      <4>. QED
        BY <4>1
    <3>3. l \in 1 .. Len(a) + 1 /\ b[l] = a[l]
      BY <1>2, <1>3
    <3>. QED
      BY <1>3, <3>1, <3>2, <3>3
  <2>. QED
    BY <1>5, <2>1, <2>2
<1>9. ASSUME NEW j \in DOMAIN b  PROVE \E i \in DOMAIN v : v[i].process = b[j]
  <2>1. CASE j = Len(a) + 1
    BY <1>2, <1>3, <2>1
  <2>2. CASE j # Len(a) + 1
    <3>1. j \in DOMAIN a /\ b[j] = a[j]
      BY <1>2, <1>3, <2>2
    <3>2. PICK k \in DOMAIN w : w[k].process = a[j]
      BY <1>1, <3>1
    <3>. QED
      BY <1>6, <3>1, <3>2
  <2>. QED
    BY <2>1, <2>2
<1>10. ASSUME NEW i \in DOMAIN v, NEW j \in DOMAIN v, i < j
       PROVE  Outranks(prio, v[i], v[j], b)
  <2>1. CASE i = n
    <3>1. PICK k \in DOMAIN w : v[j] = w[k] /\ ~(k < n)
      BY <1>2, <1>5, <1>10, <2>1
    <3>2. prio /\ w[k].priority < e.priority /\ w[k].priority \in Nat /\ e.priority \in Nat
      BY <1>2, <3>1
    <3>3. v[i] = e /\ e.priority # w[k].priority /\ e.priority > w[k].priority
      BY <2>1, <3>2
    <3>. QED
      BY <3>1, <3>2, <3>3 DEF Outranks
  <2>2. CASE j = n
    <3>1. PICK k \in DOMAIN w : v[i] = w[k] /\ k < n
      BY <1>2, <1>5, <1>10, <2>2
    <3>2. v[j] = e /\ Came(b, w[k].process, e.process)
      BY <1>1, <1>4, <2>2
    <3>3. (~prio \/ w[k].priority >= e.priority) /\ w[k].priority \in Nat /\ e.priority \in Nat
      BY <1>2, <3>1
    <3>4. prio /\ w[k].priority # e.priority => w[k].priority > e.priority
      BY <3>3
    <3>. QED
      BY <3>1, <3>2, <3>4 DEF Outranks
  <2>3. CASE i # n /\ j # n
    <3>1. PICK k \in DOMAIN w : v[i] = w[k] /\ ((i < n /\ k = i) \/ (i > n /\ k = i - 1))
      BY <1>5, <2>3
    <3>2. PICK l \in DOMAIN w : v[j] = w[l] /\ ((j < n /\ l = j) \/ (j > n /\ l = j - 1))
      BY <1>5, <2>3
    <3>3. k < l
      BY <1>2, <1>10, <3>1, <3>2
    <3>4. Outranks(prio, w[k], w[l], a)
      BY <1>1, <3>3
    <3>. QED
      BY <1>4, <3>1, <3>2, <3>4 DEF Outranks
  <2>. QED
    BY <2>1, <2>2, <2>3
<1>11. {v[i].process : i \in DOMAIN v} = {b[i] : i \in DOMAIN b}
  BY <1>8, <1>9
<1>12. Ordered(prio, v, b)
  BY <1>3, <1>7, <1>10, <1>11 DEF Ordered
<1>. QED
  BY <1>12 DEF b

(* Every set of natural numbers that is not empty has a least element.     *)
LEMMA LeastNumber ==
  ASSUME NEW S \in SUBSET Nat, S # {}
  PROVE  \E m \in S : \A k \in S : m <= k
<1> DEFINE R == OpToRel(<, Nat)
<1>1. IsWellFoundedOn(R, Nat)
  BY NatLessThanWellFounded
<1> HIDE DEF R
<1>2. \E m \in S : \A k \in S : <<k, m>> \notin R
  BY <1>1, WFMin
<1>3. ASSUME NEW m \in S, NEW k \in S, <<k, m>> \notin R  PROVE m <= k
  BY <1>3 DEF R, OpToRel
<1>. QED
  BY <1>2, <1>3

(* Those ahead of a new process are the first ones of the queue.           *)
LEMMA AheadFirst ==
  ASSUME NEW w, NEW a, Ordered(TRUE, w, a), NEW e \in Waits
  PROVE  /\ Cardinality(Ahead(e, w)) + 1 \in 1 .. Len(w) + 1
         /\ Ahead(e, w) = 1 .. Cardinality(Ahead(e, w))
<1>1. w \in Seq(Waits) /\ Len(w) \in Nat /\ DOMAIN w = 1 .. Len(w)
  BY DEF Ordered
<1>2. \A i \in DOMAIN w : w[i].priority \in Nat
  BY <1>1, WaitTyped
<1>3. e.priority \in Nat
  BY WaitTyped
<1>4. ASSUME NEW i \in DOMAIN w, NEW j \in DOMAIN w, i < j
      PROVE  w[i].priority >= w[j].priority
  <2>1. Outranks(TRUE, w[i], w[j], a)
    BY <1>4 DEF Ordered
  <2>. QED
    BY <1>2, <2>1 DEF Outranks
<1> DEFINE behind == {i \in DOMAIN w : ~(w[i].priority >= e.priority)}
<1>5. PICK k \in 0 .. Len(w) : \A i \in DOMAIN w : i <= k <=> w[i].priority >= e.priority
  <2>1. CASE behind = {}
    <3>1. \A i \in DOMAIN w : i <= Len(w) /\ w[i].priority >= e.priority
      BY <1>1, <2>1
    <3>. QED
      BY <1>1, <3>1
  <2>2. CASE behind # {}
    <3>1. behind \in SUBSET Nat
      BY <1>1
    <3>2. PICK m \in behind : \A i \in behind : m <= i
      BY <2>2, <3>1, LeastNumber
    <3>3. m \in 1 .. Len(w) /\ m - 1 \in 0 .. Len(w) /\ w[m].priority < e.priority
      BY <1>1, <1>2, <1>3, <3>2
    <3>4. ASSUME NEW i \in DOMAIN w  PROVE i <= m - 1 <=> w[i].priority >= e.priority
      <4>1. i \in Nat /\ m \in Nat
        BY <1>1, <3>3
      <4>2. CASE i <= m - 1
        <5>1. ~(m <= i)
          BY <3>3, <4>1, <4>2
        <5>2. i \notin behind
          BY <3>2, <5>1
        <5>. QED
          BY <4>2, <5>2
      <4>3. CASE i = m
        BY <1>2, <1>3, <3>3, <4>1, <4>3
      <4>4. CASE i > m
        <5>1. w[m].priority >= w[i].priority
          BY <1>1, <1>4, <3>3, <4>1, <4>4
        <5>. QED
          BY <1>1, <1>2, <1>3, <3>3, <4>1, <4>4, <5>1
      <4>. QED
        BY <4>1, <4>2, <4>3, <4>4
    <3>. QED
      BY <3>3, <3>4
  <2>. QED
    BY <2>1, <2>2
<1>6. Ahead(e, w) = 1 .. k
  BY <1>1, <1>5 DEF Ahead
<1>7. Cardinality(1 .. k) = k
  BY FS_Interval
<1>. QED
  BY <1>1, <1>6, <1>7

--------------------------------------------------------------------------------
(* The inductive invariant of the order: each queue is in order.           *)
OrderInv ==
  /\ byPriority \in BOOLEAN
  /\ QueuesTyped
  /\ arrivals = [side \in Sides |-> arrivals[side]]
  /\ \A side \in Sides : Ordered(byPriority, waiters[side], arrivals[side])

(* A step changes the queue of one side.                                   *)
LEMMA OneSide ==
  ASSUME OrderInv, NEW side \in Sides, NEW w, NEW a, byPriority' = byPriority,
         waiters' = [waiters EXCEPT ![side] = w],
         arrivals' = [arrivals EXCEPT ![side] = a],
         Ordered(byPriority, w, a)
  PROVE  OrderInv'
BY DEF OrderInv, QueuesTyped

(* A process that waits, at the place pok_thread_wq_add gives it.          *)
LEMMA AddKeepsOrder ==
  ASSUME OrderInv, NEW side \in Sides, NEW w \in Waits, MayWait(side, w), WqAdd(side, w)
  PROVE  OrderInv'
<1> DEFINE queue == waiters[side]
           came == arrivals[side]
<1>1. Ordered(byPriority, queue, came) /\ byPriority \in BOOLEAN
  BY DEF OrderInv
<1>2. /\ w.process \notin {queue[i].process : i \in DOMAIN queue}
      /\ byPriority' = byPriority
      /\ waiters' = [waiters EXCEPT ![side] =
           IF byPriority THEN InsertAt(queue, Cardinality(Ahead(w, queue)) + 1, w)
           ELSE Append(queue, w)]
      /\ arrivals' = [arrivals EXCEPT ![side] = Append(came, w.process)]
  BY DEF MayWait, WqAdd, Waiting
<1>3. queue \in Seq(Waits) /\ Len(queue) \in Nat /\ DOMAIN queue = 1 .. Len(queue)
  BY <1>1 DEF Ordered
<1>4. w.priority \in Nat /\ \A i \in DOMAIN queue : queue[i].priority \in Nat
  BY <1>3, WaitTyped
<1>. HIDE DEF queue, came
<1>5. CASE byPriority
  <2>1. Ordered(TRUE, queue, came)
    BY <1>1, <1>5
  <2>2. PICK n \in 1 .. Len(queue) + 1 :
          n = Cardinality(Ahead(w, queue)) + 1 /\ Ahead(w, queue) = 1 .. n - 1
    <3>1. /\ Cardinality(Ahead(w, queue)) + 1 \in 1 .. Len(queue) + 1
          /\ Ahead(w, queue) = 1 .. Cardinality(Ahead(w, queue))
      BY <2>1, AheadFirst
    <3>2. Cardinality(Ahead(w, queue)) \in Int \/ Cardinality(Ahead(w, queue)) \notin Int
      OBVIOUS
    <3>3. ASSUME NEW c, c + 1 \in 1 .. Len(queue) + 1, Ahead(w, queue) = 1 .. c, c \in Int
          PROVE  (c + 1) - 1 = c
      BY <3>3
    <3>4. Cardinality(Ahead(w, queue)) \in Nat
      <4>1. Ahead(w, queue) \subseteq 1 .. Len(queue)
        BY <1>3 DEF Ahead
      <4>2. IsFiniteSet(Ahead(w, queue))
        <5>1. IsFiniteSet(1 .. Len(queue))
          BY <1>3, FS_Interval
        <5>. QED
          BY <4>1, <5>1, FS_Subset
      <4>. QED
        BY <4>2, FS_CardinalityType
    <3>. QED
      BY <3>1, <3>3, <3>4
  <2>3. /\ \A i \in DOMAIN queue : i < n => ~TRUE \/ queue[i].priority >= w.priority
        /\ \A i \in DOMAIN queue : ~(i < n) => TRUE /\ queue[i].priority < w.priority
    <3>1. ASSUME NEW i \in DOMAIN queue  PROVE i < n <=> queue[i].priority >= w.priority
      <4>1. i \in Ahead(w, queue) <=> queue[i].priority >= w.priority
        BY DEF Ahead
      <4>2. i \in 1 .. n - 1 <=> i < n
        BY <1>3
      <4>. QED
        BY <2>2, <4>1, <4>2
    <3>. QED
      BY <1>4, <3>1
  <2> DEFINE v == InsertAt(queue, n, w)
  <2>4. /\ v \in Seq(Waits) /\ Len(v) = Len(queue) + 1 /\ v[n] = w
        /\ \A i \in 1 .. n - 1 : v[i] = queue[i]
        /\ \A i \in n + 1 .. Len(queue) + 1 : v[i] = queue[i - 1]
    <3>1. IsWith(v, Waits, queue, n, w)
      BY <1>3, PutIn, Zenon
    <3>. QED
      BY <3>1 DEF IsWith
  <2>. HIDE DEF v
  <2>5. Ordered(TRUE, v, Append(came, w.process))
    BY <1>2, <2>1, <2>3, <2>4, OrderedInsert
  <2>6. waiters' = [waiters EXCEPT ![side] = v]
    BY <1>2, <1>5, <2>2 DEF v
  <2>. QED
    BY <1>2, <1>5, <2>5, <2>6, OneSide
<1>6. CASE ~byPriority
  <2> DEFINE v == Append(queue, w)
             n == Len(queue) + 1
  <2>1. /\ v \in Seq(Waits) /\ Len(v) = Len(queue) + 1 /\ v[n] = w /\ n \in 1 .. Len(queue) + 1
        /\ \A i \in 1 .. n - 1 : v[i] = queue[i]
        /\ \A i \in n + 1 .. Len(queue) + 1 : v[i] = queue[i - 1]
        /\ \A i \in DOMAIN queue : i < n
    BY <1>3
  <2>2. Ordered(FALSE, queue, came)
    BY <1>1, <1>6
  <2>3. waiters' = [waiters EXCEPT ![side] = v]
    BY <1>2, <1>6
  <2>. HIDE DEF v, n
  <2>4. Ordered(FALSE, v, Append(came, w.process))
    BY <1>2, <2>1, <2>2, OrderedInsert
  <2>5. byPriority = FALSE
    BY <1>1, <1>6
  <2>6. Ordered(byPriority, v, Append(came, w.process))
    BY <2>4, <2>5
  <2>. QED
    BY <1>2, <2>3, <2>6, OneSide
<1>. QED
  BY <1>1, <1>5, <1>6

(* A process that leaves, from wherever it is.                             *)
LEMMA RemoveKeepsOrder ==
  ASSUME OrderInv, NEW side \in Sides, NEW p, WqRemove(side, p), byPriority' = byPriority
  PROVE  OrderInv'
<1>1. PICK m \in DOMAIN waiters[side] :
        /\ waiters[side][m].process = p
        /\ waiters' = [waiters EXCEPT ![side] = RemoveAt(waiters[side], m)]
  BY DEF WqRemove
<1>2. PICK n \in DOMAIN arrivals[side] :
        /\ arrivals[side][n] = p
        /\ arrivals' = [arrivals EXCEPT ![side] = RemoveAt(arrivals[side], n)]
  BY DEF WqRemove
<1>3. Ordered(byPriority, waiters[side], arrivals[side])
  BY DEF OrderInv
<1>4. Ordered(byPriority, RemoveAt(waiters[side], m), RemoveAt(arrivals[side], n))
  BY <1>1, <1>2, <1>3, OrderedRemove
<1>. QED
  BY <1>1, <1>2, <1>4, OneSide

(* Every step keeps the queues in order.                                   *)
LEMMA OrderStep ==
  ASSUME OrderInv, [PortNext]_allVars
  PROVE  OrderInv'
<1>1. ASSUME UNCHANGED <<byPriority, waiters, arrivals>>  PROVE OrderInv'
  BY <1>1 DEF OrderInv, QueuesTyped
<1>2. ASSUME NEW side \in Sides, NEW w \in Waits, CallQueues(side, w)  PROVE OrderInv'
  BY <1>2, AddKeepsOrder DEF CallQueues
<1>3. ASSUME NEW side \in Sides, NEW w \in Waits, NEW subscribe \in BOOLEAN,
             Call(side, w, subscribe)
      PROVE  OrderInv'
  <2>1. CASE pc'[side] = "got"
    BY <1>1, <1>3, <2>1 DEF Call, Serve
  <2>2. CASE pc'[side] # "got" /\ subscribe
    BY <1>3, <2>2, AddKeepsOrder DEF Call
  <2>3. CASE pc'[side] # "got" /\ ~subscribe
    BY <1>1, <1>3, <2>3 DEF Call, portVars
  <2>. QED
    BY <2>1, <2>2, <2>3
<1>4. ASSUME NEW side \in Sides, NEW p \in Processes(side), Stop(side, p) \/ Timeout(side, p)
      PROVE  OrderInv'
  BY <1>4, RemoveKeepsOrder DEF Stop, Timeout
<1>5. ASSUME NEW side \in Sides, Fired(side)  PROVE OrderInv'
  <2>1. CASE pc'[side] = "got"
    BY <1>5, <2>1, RemoveKeepsOrder DEF Fired, Serve
  <2>2. CASE pc'[side] # "got"
    BY <1>1, <1>5, <2>2 DEF Fired, portVars
  <2>. QED
    BY <2>1, <2>2
<1>6. ASSUME NEW side \in Sides,
             \/ CallReturns(side) \/ Enable(side) \/ FiredIdle(side) \/ Copies(side)
             \/ Completes(side) \/ PortCreate(side) \/ PortClear
      PROVE  OrderInv'
  BY <1>1, <1>6 DEF CallReturns, Enable, FiredIdle, Copies, Completes, PortCreate, PortClear,
                    portVars
<1>7. ASSUME NEW side \in Sides, PortRestart(side)  PROVE OrderInv'
  <2>1. Ordered(byPriority, <<>>, <<>>)
    BY OrderedEmpty
  <2>. QED
    BY <1>7, <2>1, OneSide DEF PortRestart
<1>8. CASE UNCHANGED allVars
  BY <1>1, <1>8 DEF allVars, portVars
<1>. QED
  BY <1>2, <1>3, <1>4, <1>5, <1>6, <1>7, <1>8 DEF PortNext, Kernel

(* In every behaviour of the ports the queues are in order.                *)
LEMMA OrderInvariant == PortSpec => []OrderInv
<1>1. PortInit => OrderInv
  BY OrderedEmpty DEF PortInit, OrderInv, QueuesTyped
<1>2. OrderInv /\ [PortNext]_allVars => OrderInv'
  BY OrderStep
<1>. QED
  BY <1>1, <1>2, PTL DEF PortSpec

(* Only port_queuing_fired begins to serve a process while others wait.    *)
LEMMA ServesFirst ==
  ASSUME OrderInv, [PortNext]_allVars, NEW side \in Sides, serving'[side] # NoProcess,
         serving[side] = NoProcess, waiters[side] # <<>>, serving = [s \in Sides |-> serving[s]]
  PROVE  serving'[side] = Head(waiters[side]).process
<1>1. ASSUME UNCHANGED serving  PROVE FALSE
  BY <1>1
<1>2. ASSUME NEW s \in Sides, NEW w \in Waits, CallQueues(s, w)  PROVE FALSE
  BY <1>1, <1>2 DEF CallQueues, WqAdd
<1>3. ASSUME NEW s \in Sides, NEW w \in Waits, NEW subscribe \in BOOLEAN,
             Call(s, w, subscribe)
      PROVE  FALSE
  <2>1. CASE pc'[s] = "got"
    <3>1. serving' = [serving EXCEPT ![s] = w.process] /\ waiters[s] = <<>>
      BY <1>3, <2>1 DEF Call, Serve
    <3>. QED
      BY <3>1
  <2>2. CASE pc'[s] # "got"
    BY <1>1, <1>3, <2>2 DEF Call, portVars, WqAdd
  <2>. QED
    BY <2>1, <2>2
<1>4. ASSUME NEW s \in Sides, NEW p \in Processes(s), Stop(s, p) \/ Timeout(s, p)
      PROVE  FALSE
  BY <1>1, <1>4 DEF Stop, Timeout
<1>5. ASSUME NEW s \in Sides, Fired(s)  PROVE serving'[side] = Head(waiters[side]).process
  <2>1. CASE pc'[s] = "got"
    <3>1. serving' = [serving EXCEPT ![s] = Head(waiters[s]).process]
      BY <1>5, <2>1 DEF Fired, Serve
    <3>. QED
      BY <3>1
  <2>2. CASE pc'[s] # "got"
    BY <1>1, <1>5, <2>2 DEF Fired, portVars
  <2>. QED
    BY <2>1, <2>2
<1>6. ASSUME NEW s \in Sides,
             \/ CallReturns(s) \/ Enable(s) \/ FiredIdle(s) \/ Copies(s)
             \/ PortCreate(s) \/ PortClear
      PROVE  FALSE
  BY <1>1, <1>6 DEF CallReturns, Enable, FiredIdle, Copies, PortCreate, PortClear, portVars
<1>7. ASSUME NEW s \in Sides, Completes(s) \/ PortRestart(s)  PROVE FALSE
  <2>1. serving' = [serving EXCEPT ![s] = NoProcess]
    BY <1>7 DEF Completes, PortRestart
  <2>. QED
    BY <2>1
<1>8. CASE UNCHANGED allVars
  BY <1>1, <1>8 DEF allVars, portVars
<1>. QED
  BY <1>2, <1>3, <1>4, <1>5, <1>6, <1>7, <1>8 DEF PortNext, Kernel

(* serving is a function of the sides.                                     *)
ServingTyped == serving = [s \in Sides |-> serving[s]]

LEMMA ServingInvariant == PortSpec => []ServingTyped
<1>1. PortInit => ServingTyped
  BY DEF PortInit, ServingTyped
<1>2. ServingTyped /\ [PortNext]_allVars => ServingTyped'
  <2> SUFFICES ASSUME ServingTyped, [PortNext]_allVars  PROVE ServingTyped'
    OBVIOUS
  <2>1. ASSUME UNCHANGED serving \/ \E s \in Sides : \E p : serving' = [serving EXCEPT ![s] = p]
        PROVE  ServingTyped'
    BY <2>1 DEF ServingTyped
  <2>2. ASSUME NEW side \in Sides, NEW w \in Waits, CallQueues(side, w)  PROVE ServingTyped'
    BY <2>1, <2>2 DEF CallQueues, WqAdd
  <2>3. ASSUME NEW side \in Sides, NEW w \in Waits, NEW subscribe \in BOOLEAN,
               Call(side, w, subscribe)
        PROVE  ServingTyped'
    BY <2>1, <2>3 DEF Call, Serve, WqAdd, portVars
  <2>4. ASSUME NEW side \in Sides, Fired(side)  PROVE ServingTyped'
    BY <2>1, <2>4 DEF Fired, Serve, portVars
  <2>5. ASSUME NEW side \in Sides, NEW p \in Processes(side), Stop(side, p) \/ Timeout(side, p)
        PROVE  ServingTyped'
    BY <2>1, <2>5 DEF Stop, Timeout
  <2>6. ASSUME NEW side \in Sides,
               \/ CallReturns(side) \/ Enable(side) \/ FiredIdle(side) \/ Copies(side)
               \/ PortCreate(side) \/ PortClear
        PROVE  ServingTyped'
    BY <2>1, <2>6 DEF CallReturns, Enable, FiredIdle, Copies, PortCreate, PortClear, portVars
  <2>7. ASSUME NEW side \in Sides, Completes(side) \/ PortRestart(side)  PROVE ServingTyped'
    BY <2>1, <2>7 DEF Completes, PortRestart
  <2>8. CASE UNCHANGED allVars
    BY <2>1, <2>8 DEF allVars, portVars
  <2>. QED
    BY <2>2, <2>3, <2>4, <2>5, <2>6, <2>7, <2>8 DEF PortNext, Kernel
<1>. QED
  BY <1>1, <1>2, PTL DEF PortSpec

(* What the property says of a step.                                       *)
ServesInOrder(side) ==
  LET p == serving'[side] IN
  p # NoProcess /\ serving[side] = NoProcess /\ waiters[side] # <<>> =>
    /\ p \in Waiting(side)
    /\ \A q \in Waiting(side) \ {p} :
         IF byPriority /\ PriorityOf(side, p) # PriorityOf(side, q)
         THEN PriorityOf(side, p) > PriorityOf(side, q)
         ELSE Precedes(side, p, q)

(* A process is in the queue once, with one priority.                      *)
LEMMA PriorityIs ==
  ASSUME OrderInv, NEW side \in Sides, NEW i \in DOMAIN waiters[side]
  PROVE  PriorityOf(side, waiters[side][i].process) = waiters[side][i].priority
<1> DEFINE w == waiters[side]
           f == CHOOSE v \in ToSet(w) : v.process = w[i].process
<1>1. Ordered(byPriority, w, arrivals[side])
  BY DEF OrderInv
<1>2. \A j, k \in DOMAIN w : w[j].process = w[k].process => j = k
  BY <1>1 DEF Ordered, EachOnce
<1>3. \A v : v \in ToSet(w) <=> \E j \in DOMAIN w : v = w[j]
  BY DEF ToSet
<1>4. \E v \in ToSet(w) : v.process = w[i].process
  BY <1>3
<1>5. f \in ToSet(w) /\ f.process = w[i].process
  BY <1>4
<1>. HIDE DEF f
<1>6. f = w[i]
  BY <1>2, <1>3, <1>5
<1>. QED
  BY <1>6 DEF PriorityOf, f

(* The first of the queue outranks all others.                             *)
LEMMA OrderOfService ==
  ASSUME OrderInv, ServingTyped, [PortNext]_allVars, NEW side \in Sides
  PROVE  ServesInOrder(side)
<1> DEFINE w == waiters[side]
           p == serving'[side]
<1>1. SUFFICES ASSUME p # NoProcess, serving[side] = NoProcess, w # <<>>
      PROVE  /\ p \in Waiting(side)
             /\ \A q \in Waiting(side) \ {p} :
                  IF byPriority /\ PriorityOf(side, p) # PriorityOf(side, q)
                  THEN PriorityOf(side, p) > PriorityOf(side, q)
                  ELSE Precedes(side, p, q)
  BY DEF ServesInOrder
<1>2. p = Head(w).process
  BY <1>1, ServesFirst DEF ServingTyped
<1>3. Ordered(byPriority, w, arrivals[side])
  BY DEF OrderInv
<1>4. w \in Seq(Waits) /\ Len(w) \in Nat /\ DOMAIN w = 1 .. Len(w)
  BY <1>3 DEF Ordered
<1>5. Head(w) = w[1] /\ 1 \in DOMAIN w
  BY <1>1, <1>4
<1>6. p \in Waiting(side)
  BY <1>2, <1>5 DEF Waiting
<1>7. ASSUME NEW q \in Waiting(side) \ {p}
      PROVE  IF byPriority /\ PriorityOf(side, p) # PriorityOf(side, q)
             THEN PriorityOf(side, p) > PriorityOf(side, q)
             ELSE Precedes(side, p, q)
  <2>1. PICK j \in DOMAIN w : w[j].process = q
    BY DEF Waiting
  <2>2. 1 < j
    BY <1>2, <1>4, <1>5, <1>7, <2>1
  <2>3. Outranks(byPriority, w[1], w[j], arrivals[side])
    BY <1>3, <1>5, <2>2 DEF Ordered
  <2>4. PriorityOf(side, p) = w[1].priority /\ PriorityOf(side, q) = w[j].priority
    BY <1>2, <1>5, <2>1, PriorityIs
  <2>. QED
    BY <1>2, <1>5, <2>1, <2>3, <2>4 DEF Outranks, Came, Precedes
<1>. QED
  BY <1>6, <1>7

(* A process that is served while others wait is the one that the queuing   *)
(* discipline of the port prescribes, for any number of processes.         *)
THEOREM WaitersServedInOrder == PortSpec => ServedInOrder
<1>1. OrderInv /\ ServingTyped /\ [PortNext]_allVars => [\A side \in Sides : ServesInOrder(side)]_allVars
  BY OrderOfService
<1>. QED
  BY <1>1, OrderInvariant, ServingInvariant, PTL DEF PortSpec, ServedInOrder, ServesInOrder
================================================================================
