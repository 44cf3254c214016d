-------------------------- MODULE NetworkPartitionProofs --------------------------
(***************************************************************************)
(* For all sizes of the queues and numbers of buffers: no descriptor of the *)
(* driver is lost, the queues implement the link between ports and wire,    *)
(* and neither the device nor a frame sleeps beside work, the latter as     *)
(* long as fewer frames come in one activity of the driver than the indices *)
(* can count.                                                              *)
(***************************************************************************)
EXTENDS NetworkPartition, TLAPS, FiniteSetTheorems, WellFoundedInduction, NaturalsInduction

Indices == 0 .. Wrap - 1

(* Index arithmetic without the remainder.                                 *)
LEMMA IncIs ==
  ASSUME NEW i \in Indices
  PROVE  /\ Inc(i) \in Indices
         /\ Inc(i) = IF i = Wrap - 1 THEN 0 ELSE i + 1
<1>1. Wrap \in Nat /\ Wrap > 0
  BY NetworkAssumption
<1>2. CASE i = Wrap - 1
  BY <1>1, <1>2 DEF Inc, Indices
<1>3. CASE i # Wrap - 1
  BY <1>1, <1>3 DEF Inc, Indices
<1> QED
  BY <1>2, <1>3

LEMMA DistanceIs ==
  ASSUME NEW i \in Indices, NEW j \in Indices
  PROVE  /\ Distance(i, j) \in Indices
         /\ Distance(i, j) = IF j >= i THEN j - i ELSE j - i + Wrap
<1>1. Wrap \in Nat /\ Wrap > 0
  BY NetworkAssumption
<1>2. CASE j >= i
  <2>1. j - i \in 0 .. Wrap - 1 /\ j - i + Wrap = (j - i) + 1 * Wrap
    BY <1>1, <1>2 DEF Indices
  <2>2. (j - i + Wrap) % Wrap = j - i
    BY <1>1, <2>1
  <2> QED
    BY <1>2, <2>1, <2>2 DEF Distance, Indices
<1>3. CASE ~(j >= i)
  <2>1. j - i + Wrap \in 0 .. Wrap - 1
    BY <1>1, <1>3 DEF Indices
  <2>2. (j - i + Wrap) % Wrap = j - i + Wrap
    BY <1>1, <2>1
  <2> QED
    BY <1>3, <2>1, <2>2 DEF Distance, Indices
<1> QED
  BY <1>2, <1>3

LEMMA DistanceMoves ==
  ASSUME NEW i \in Indices, NEW j \in Indices
  PROVE  /\ Distance(i, j) = 0 <=> i = j
         /\ Distance(i, j) < Wrap - 1 => Distance(i, Inc(j)) = Distance(i, j) + 1
         /\ i # j => Distance(Inc(i), j) = Distance(i, j) - 1
<1>1. Wrap \in Nat /\ Inc(i) \in Indices /\ Inc(j) \in Indices
  BY IncIs, NetworkAssumption
<1>2. Distance(i, j) = IF j >= i THEN j - i ELSE j - i + Wrap
  BY DistanceIs
<1>3. Distance(i, j) = 0 <=> i = j
  BY <1>1, <1>2 DEF Indices
<1>4. ASSUME Distance(i, j) < Wrap - 1
      PROVE  Distance(i, Inc(j)) = Distance(i, j) + 1
  <2>1. Distance(i, Inc(j)) = IF Inc(j) >= i THEN Inc(j) - i ELSE Inc(j) - i + Wrap
    BY <1>1, DistanceIs
  <2>2. Inc(j) = IF j = Wrap - 1 THEN 0 ELSE j + 1
    BY IncIs
  <2> QED
    BY <1>1, <1>2, <1>4, <2>1, <2>2 DEF Indices
<1>5. ASSUME i # j
      PROVE  Distance(Inc(i), j) = Distance(i, j) - 1
  <2>1. Distance(Inc(i), j) = IF j >= Inc(i) THEN j - Inc(i) ELSE j - Inc(i) + Wrap
    BY <1>1, DistanceIs
  <2>2. Inc(i) = IF i = Wrap - 1 THEN 0 ELSE i + 1
    BY IncIs
  <2> QED
    BY <1>1, <1>2, <1>5, <2>1, <2>2 DEF Indices
<1> QED
  BY <1>3, <1>4, <1>5

LEMMA BuffersExist == Buffers \in Nat /\ 0 < Buffers /\ Buffers <= RxSize /\ Buffers < Wrap
BY NetworkAssumption DEF Buffers, Min2

--------------------------------------------------------------------------------
(* The inductive invariant.  Records: the variables have the fields that    *)
(* the steps change.                                                       *)
Fields == {"free", "numFree", "seen", "next", "chained", "addr",
           "availIdx", "availRing", "usedIdx", "usedRing"}

Records ==
  /\ {"at", "frame", "back", "old"} \subseteq DOMAIN driver
  /\ {"seen", "done", "awake", "waiting"} \subseteq DOMAIN device
  /\ DOMAIN tx = Fields /\ DOMAIN rx = Fields

Types ==
  /\ driver.back \in {"receive", "recycle"}
  /\ driver.at \in {"poll", "receive", "recycle", "offer"} => driver.back = "receive"
  /\ {driver.old, rx.seen, rx.usedIdx, rx.availIdx} \subseteq Indices

(* The distance from the last exit of the loop.                             *)
Since(i) == Distance(driver.old, i)

(* How far the driver has come since it last left the loop, and what the    *)
(* device has used since.  The buffers are all with the device, used and    *)
(* not handled, or about to be offered: this places the avail index.        *)
Positions ==
  /\ Since(rx.seen) <= Since(rx.usedIdx)
  /\ Since(rx.usedIdx) <= Burst
  /\ driver.at = "offer" => rx.seen # driver.old
  /\ Handling => rx.seen # rx.usedIdx
  /\ Distance(rx.seen, rx.availIdx) = Buffers - One(driver.at = "offer")

Inv == Records /\ Types /\ Positions /\ KickNeverMissed

LEMMA InvInit == Init => Inv
<1> SUFFICES ASSUME Init PROVE Inv
  OBVIOUS
<1>1. Wrap \in Nat /\ Wrap > 0 /\ Burst \in Nat
  BY NetworkAssumption
<1>2. 0 \in Indices /\ Buffers \in Indices
  BY <1>1, BuffersExist DEF Indices
<1>3. DOMAIN tx = Fields /\ DOMAIN rx = Fields
  <2>1. DOMAIN Setup(TxSize) = Fields /\ DOMAIN Setup(RxSize) = Fields
    BY DEF Setup, Fields
  <2> QED
    BY <2>1 DEF Init, Posted
<1>4. /\ rx.seen = 0 /\ rx.usedIdx = 0 /\ rx.availIdx = Buffers /\ tx.availIdx = 0
      /\ driver.at = "poll" /\ driver.back = "receive" /\ driver.old = 0
      /\ device.seen = 0 /\ device.waiting = FALSE
  <2>1. /\ Setup(RxSize).seen = 0 /\ Setup(RxSize).usedIdx = 0
        /\ Setup(TxSize).availIdx = 0
    BY DEF Setup
  <2>2. DOMAIN Setup(RxSize) = Fields
    BY DEF Setup, Fields
  <2>3. rx.seen = 0 /\ rx.usedIdx = 0 /\ rx.availIdx = Buffers
    BY <2>1, <2>2 DEF Init, Posted, Fields
  <2> QED
    BY <2>1, <2>3 DEF Init
<1>5. Records
  BY <1>3 DEF Init, Records, Fields
<1>6. Types
  BY <1>2, <1>4 DEF Types
<1>7. Distance(0, 0) = 0 /\ Distance(0, Buffers) = Buffers
  BY <1>2, DistanceIs, BuffersExist DEF Indices
<1>8. Positions
  BY <1>1, <1>4, <1>7, BuffersExist DEF Positions, Since, Handling, One
<1>9. KickNeverMissed
  BY <1>4 DEF KickNeverMissed
<1> QED
  BY <1>5, <1>6, <1>8, <1>9 DEF Inv

LEMMA RecordsNext ==
  ASSUME Records, [Next]_vars
  PROVE  Records'
<1>1. CASE UNCHANGED vars
  BY <1>1 DEF vars, Records
<1>2. CASE Driver
  <2>1. CASE PortEmpty \/ SendFails \/ Flush \/ Answer \/ Deliver \/ Discard
    BY <2>1 DEF Records, PortEmpty, SendFails, Flush, Answer, Deliver, Discard, Goto
  <2>5. ASSUME NEW m \in Messages, PortTake(m) PROVE Records'
    BY <2>5 DEF Records, PortTake
  <2>6. CASE ReceiveEnds
    BY <2>6 DEF Records, ReceiveEnds
  <2>2. CASE Reclaim \/ SendFills \/ Publish
    BY <2>2 DEF Records, Reclaim, SendFills, FillChain, Publish, Goto, Fields
  <2>3. CASE Recycle
    BY <2>3 DEF Records, Recycle, Freed, UseBuffer, Goto, Fields
  <2>4. CASE Offer
    BY <2>4 DEF Records, Offer, Goto, Fields
  <2> QED
    BY <1>2, <2>1, <2>2, <2>3, <2>4, <2>5, <2>6 DEF Driver
<1>3. CASE Device
  <2>1. CASE Transmit
    BY <2>1 DEF Records, Transmit, Fields
  <2>2. CASE Sleep \/ Wait
    BY <2>2 DEF Records, Sleep, Wait
  <2>3. ASSUME NEW head, GiveBack(head) PROVE Records'
    BY <2>3 DEF Records, GiveBack, Fields
  <2>4. ASSUME NEW f, Come(f) PROVE Records'
    BY <2>4 DEF Records, Come, Fields
  <2> QED
    BY <1>3, <2>1, <2>2, <2>3, <2>4 DEF Device
<1> QED
  BY <1>1, <1>2, <1>3 DEF Next

LEMMA InvNext ==
  ASSUME Burst < Wrap, Inv, [Next]_vars
  PROVE  Inv'
<1> USE DEF Inv
<1>1. Wrap \in Nat /\ Burst \in Nat /\ Buffers \in Nat /\ 0 < Buffers /\ Buffers < Wrap
  BY NetworkAssumption, BuffersExist
<1>2. /\ Distance(driver.old, rx.seen) \in Nat /\ Distance(driver.old, rx.usedIdx) \in Nat
      /\ Distance(rx.seen, rx.availIdx) \in Nat
  <2>1. /\ Distance(driver.old, rx.seen) \in Indices
        /\ Distance(driver.old, rx.usedIdx) \in Indices
        /\ Distance(rx.seen, rx.availIdx) \in Indices
    BY DistanceIs DEF Types
  <2> QED
    BY <1>1, <2>1 DEF Indices
<1>3. Records'
  BY RecordsNext
<1>4. CASE UNCHANGED vars
  BY <1>3, <1>4 DEF vars, Types, Positions, Since, Handling, KickNeverMissed
(* The driver on its way to the loop, or handling a frame in it: only `at'  *)
(* moves.                                                                  *)
<1>5. ASSUME PortEmpty \/ (\E m \in Messages : PortTake(m)) \/ Reclaim \/ SendFails \/ SendFills
      PROVE  Inv'
  <2>1. /\ rx' = rx /\ device' = device /\ tx'.availIdx = tx.availIdx
        /\ driver'.old = driver.old /\ driver'.back = driver.back
        /\ driver.at \in {"poll", "send"} /\ driver'.at \in {"receive", "send", "publish", "flush"}
        /\ driver'.at = "receive" => driver.at = "poll"
        /\ driver.at = "poll" => driver.back = "receive"
    BY <1>5 DEF PortEmpty, PortTake, Reclaim, SendFails, SendFills, FillChain, Goto, Records,
                Fields, Types
  <2>2. Types'
    BY <2>1 DEF Types
  <2>3. Positions'
    BY <2>1 DEF Positions, Since, Handling, One
  <2>4. KickNeverMissed'
    BY <2>1 DEF KickNeverMissed
  <2> QED
    BY <1>3, <2>2, <2>3, <2>4
<1>6. ASSUME Publish
      PROVE  Inv'
  <2>1. /\ rx' = rx /\ device' = device
        /\ driver'.old = driver.old /\ driver'.back = driver.back
        /\ driver.at = "publish" /\ driver'.at = "flush"
    BY <1>6 DEF Publish, Goto, Records
  <2>2. Types'
    BY <2>1 DEF Types
  <2>3. Positions'
    BY <2>1 DEF Positions, Since, Handling, One
  <2>4. KickNeverMissed'
    BY <2>1 DEF KickNeverMissed
  <2> QED
    BY <1>3, <2>2, <2>3, <2>4
<1>7. ASSUME Flush
      PROVE  Inv'
  <2>1. /\ rx' = rx /\ tx' = tx
        /\ device'.awake = TRUE /\ device'.waiting = device.waiting
        /\ driver.at = "flush" /\ driver'.at = driver.back /\ driver'.back = "receive"
        /\ driver'.old = driver.old
    BY <1>7 DEF Flush, Records
  <2>2. Types'
    BY <2>1 DEF Types
  <2>3. Positions'
    BY <2>1 DEF Types, Positions, Since, Handling, One
  <2>4. KickNeverMissed'
    BY <2>1 DEF KickNeverMissed
  <2> QED
    BY <1>3, <2>2, <2>3, <2>4
<1>8. ASSUME Answer \/ Deliver \/ Discard
      PROVE  Inv'
  <2>1. /\ rx' = rx /\ tx' = tx /\ device' = device /\ driver'.old = driver.old
        /\ driver.at = "receive" /\ driver.back = "receive"
        /\ \/ driver'.at = "send" /\ driver'.back = "recycle"
           \/ driver'.at = "recycle" /\ driver'.back = "receive"
        /\ rx.seen # rx.usedIdx
    BY <1>8 DEF Answer, Deliver, Discard, Goto, Records, Types, CameUsed
  <2>2. Types'
    BY <2>1 DEF Types
  <2>3. Positions'
    BY <2>1 DEF Positions, Since, Handling, One
  <2>4. KickNeverMissed'
    BY <2>1 DEF KickNeverMissed
  <2> QED
    BY <1>3, <2>2, <2>3, <2>4
(* A frame is counted as seen, and its buffer is about to be offered.       *)
<1>9. ASSUME Recycle
      PROVE  Inv'
  <2>1. /\ tx' = tx /\ device' = device
        /\ driver'.old = driver.old /\ driver'.back = driver.back
        /\ driver.at = "recycle" /\ driver.back = "receive" /\ driver'.at = "offer"
        /\ rx'.seen = Inc(rx.seen) /\ rx'.usedIdx = rx.usedIdx /\ rx'.availIdx = rx.availIdx
    BY <1>9 DEF Recycle, Freed, UseBuffer, Goto, Records, Fields, Types
  <2>2. Inc(rx.seen) \in Indices
    BY IncIs DEF Types
  <2>3. Types'
    BY <2>1, <2>2 DEF Types
  <2>4. rx.seen # rx.usedIdx
    BY <2>1 DEF Positions, Handling
  <2>5. Distance(driver.old, rx.seen) # Distance(driver.old, rx.usedIdx)
    <3>1. driver.old \in Indices /\ rx.seen \in Indices /\ rx.usedIdx \in Indices
      BY DEF Types
    <3>2. /\ Distance(driver.old, rx.seen) =
               IF rx.seen >= driver.old THEN rx.seen - driver.old
                                        ELSE rx.seen - driver.old + Wrap
          /\ Distance(driver.old, rx.usedIdx) =
               IF rx.usedIdx >= driver.old THEN rx.usedIdx - driver.old
                                           ELSE rx.usedIdx - driver.old + Wrap
      BY <3>1, DistanceIs
    <3> QED
      BY <1>1, <2>4, <3>1, <3>2 DEF Indices
  <2>6. Distance(driver.old, Inc(rx.seen)) = Distance(driver.old, rx.seen) + 1
    <3>1. Distance(driver.old, rx.seen) < Wrap - 1
      BY <1>1, <1>2, <2>5 DEF Positions, Since
    <3> QED
      BY <3>1, DistanceMoves DEF Types
  <2>7. Inc(rx.seen) # driver.old
    BY <1>2, <2>2, <2>6, DistanceMoves DEF Types
  <2>8. Distance(Inc(rx.seen), rx.availIdx) = Buffers - 1
    <3>1. Distance(rx.seen, rx.availIdx) = Buffers
      BY <1>1, <2>1 DEF Positions, One
    <3>2. rx.seen # rx.availIdx
      BY <1>1, <3>1, DistanceMoves DEF Types
    <3> QED
      BY <3>1, <3>2, DistanceMoves DEF Types
  <2>9. Positions'
    BY <1>1, <1>2, <2>1, <2>5, <2>6, <2>7, <2>8 DEF Positions, Since, Handling, One
  <2>10. KickNeverMissed'
    BY <2>1 DEF KickNeverMissed
  <2> QED
    BY <1>3, <2>3, <2>9, <2>10
<1>10. ASSUME Offer
       PROVE  Inv'
  <2>1. /\ tx' = tx /\ device' = device
        /\ driver'.old = driver.old /\ driver'.back = driver.back
        /\ driver.at = "offer" /\ driver.back = "receive" /\ driver'.at = "receive"
        /\ rx'.seen = rx.seen /\ rx'.usedIdx = rx.usedIdx /\ rx'.availIdx = Inc(rx.availIdx)
    BY <1>10 DEF Offer, Goto, Records, Fields, Types
  <2>2. Types'
    BY <2>1, IncIs DEF Types
  <2>3. Distance(rx.seen, Inc(rx.availIdx)) = Buffers
    <3>1. Distance(rx.seen, rx.availIdx) = Buffers - 1
      BY <2>1 DEF Positions, One
    <3> QED
      BY <1>1, <3>1, DistanceMoves DEF Types
  <2>4. Positions'
    BY <1>1, <2>1, <2>3 DEF Positions, Since, Handling, One
  <2>5. KickNeverMissed'
    BY <2>1 DEF KickNeverMissed
  <2> QED
    BY <1>3, <2>2, <2>4, <2>5
(* The end of the loop: what waits was waiting for buffers that have moved.  *)
<1>11. ASSUME ReceiveEnds
       PROVE  Inv'
  <2>1. /\ tx' = tx /\ rx' = rx /\ rx.seen = rx.usedIdx
        /\ driver.at = "receive" /\ driver.back = "receive"
        /\ driver'.old = rx.seen /\ driver'.back = "receive" /\ driver'.at = "poll"
    BY <1>11 DEF ReceiveEnds, CameUsed, Records, Types
  <2>2. Types'
    BY <2>1 DEF Types
  <2>3. Distance(rx.seen, rx.seen) = 0
    BY DistanceMoves DEF Types
  <2>4. Positions'
    BY <1>1, <2>1, <2>3 DEF Positions, Since, Handling, One
  <2>5. /\ device'.seen = device.seen /\ device'.awake = device.awake
        /\ ~device'.waiting
    <3>1. CASE Moved
      BY <1>11, <3>1 DEF ReceiveEnds, Records
    <3>2. CASE ~Moved
      BY <1>11, <2>1, <3>2 DEF ReceiveEnds, Moved, KickNeverMissed
    <3> QED
      BY <3>1, <3>2
  <2>6. KickNeverMissed'
    BY <2>1, <2>5 DEF KickNeverMissed
  <2> QED
    BY <1>3, <2>2, <2>4, <2>6
<1>12. ASSUME Transmit \/ Sleep \/ \E head \in 0 .. TxSize - 1 : GiveBack(head)
       PROVE  Inv'
  <2>1. /\ rx' = rx /\ driver' = driver /\ tx'.availIdx = tx.availIdx
        /\ device'.waiting = device.waiting
        /\ (device'.seen # tx.availIdx => device'.awake \/ driver.at = "flush")
    BY <1>12 DEF Transmit, Sleep, GiveBack, Records, Fields, KickNeverMissed
  <2>2. Types' /\ Positions'
    BY <2>1 DEF Types, Positions, Since, Handling, One
  <2>3. KickNeverMissed'
    BY <2>1 DEF KickNeverMissed
  <2> QED
    BY <1>3, <2>2, <2>3
<1>13. ASSUME NEW f \in Frames, Come(f)
       PROVE  Inv'
  <2>1. /\ tx' = tx /\ driver' = driver /\ device' = device /\ ~device.waiting
        /\ Distance(driver.old, rx.usedIdx) < Burst
        /\ rx'.seen = rx.seen /\ rx'.availIdx = rx.availIdx /\ rx'.usedIdx = Inc(rx.usedIdx)
        /\ rx.usedIdx # rx.availIdx
    BY <1>13 DEF Come, Records, Fields
  <2>2. Types'
    BY <2>1, IncIs DEF Types
  <2>3. Distance(driver.old, Inc(rx.usedIdx)) = Distance(driver.old, rx.usedIdx) + 1
    BY <1>1, <1>2, <2>1, DistanceMoves DEF Types
  <2>4. Handling => rx.seen # Inc(rx.usedIdx)
    BY <1>1, <1>2, <2>3 DEF Positions, Since
  <2>5. Positions'
    BY <1>1, <1>2, <2>1, <2>3, <2>4 DEF Positions, Since, Handling, One
  <2>6. KickNeverMissed'
    BY <2>1 DEF KickNeverMissed
  <2> QED
    BY <1>3, <2>2, <2>5, <2>6
(* A frame waits only when all buffers have been used: some of them since   *)
(* the driver last left the loop.                                          *)
<1>14. ASSUME Wait
       PROVE  Inv'
  <2>1. /\ tx' = tx /\ rx' = rx /\ driver' = driver
        /\ device'.seen = device.seen /\ device'.awake = device.awake
        /\ rx.usedIdx = rx.availIdx
    BY <1>14 DEF Wait, Records
  <2>2. Types' /\ Positions'
    BY <2>1 DEF Types, Positions, Since, Handling, One
  <2>3. driver.old # rx.usedIdx
    <3>1. SUFFICES ASSUME driver.old = rx.usedIdx
                   PROVE  FALSE
      OBVIOUS
    <3>2. Distance(driver.old, rx.usedIdx) = 0
      BY <3>1, DistanceMoves DEF Types
    <3>3. Distance(driver.old, rx.seen) = 0
      BY <1>2, <3>2 DEF Positions, Since
    <3>4. driver.old = rx.seen
      BY <3>3, DistanceMoves DEF Types
    <3>5. Distance(rx.seen, rx.availIdx) = Buffers
      BY <1>1, <3>4 DEF Positions, One
    <3> QED
      BY <1>1, <2>1, <3>1, <3>2, <3>4, <3>5
  <2>4. KickNeverMissed'
    BY <2>1, <2>3 DEF KickNeverMissed
  <2> QED
    BY <1>3, <2>2, <2>4
<1> QED
  BY <1>4, <1>5, <1>6, <1>7, <1>8, <1>9, <1>10, <1>11, <1>12, <1>13, <1>14
     DEF Next, Driver, Device

(* Neither the device nor a frame sleeps beside work, for any sizes of the   *)
(* queues: flush_send and notify_receive_buffers come in time.             *)
THEOREM NobodySleepsBesideWork ==
  ASSUME Burst < Wrap
  PROVE  Spec => []KickNeverMissed
<1>1. Inv /\ [Next]_vars => Inv'
  BY InvNext
<1>2. Inv => KickNeverMissed
  BY DEF Inv
<1> QED
  BY InvInit, <1>1, <1>2, PTL DEF Spec

--------------------------------------------------------------------------------
(* Every set of natural numbers that is not empty has a least element.     *)
LEMMA Least ==
  ASSUME NEW S \in SUBSET Nat, S # {}
  PROVE  \E m \in S : \A k \in S : m <= k
<1> DEFINE R == OpToRel(<, Nat)
<1>1. IsWellFoundedOn(R, Nat)
  BY NatLessThanWellFounded
<1> HIDE DEF R
<1>2. \E m \in S : \A k \in S : <<k, m>> \notin R
  BY <1>1, WFMin
<1>3. ASSUME NEW m \in S, NEW k \in S, <<k, m>> \notin R PROVE m <= k
  BY <1>3 DEF R, OpToRel
<1> QED
  BY <1>2, <1>3

(* The remainder: what it is, and what it does not see.                     *)
LEMMA ModUnique ==
  ASSUME NEW s \in Nat \ {0}, NEW q \in Int, NEW r \in 0 .. s - 1
  PROVE  (s * q + r) % s = r
OBVIOUS

LEMMA ModIs ==
  ASSUME NEW s \in Nat \ {0}, NEW a \in Int
  PROVE  \E q \in Int : a = s * q + (a % s) /\ a % s \in 0 .. s - 1
<1>1. a = s * (a \div s) + (a % s) /\ a \div s \in Int /\ a % s \in 0 .. s - 1
  OBVIOUS
<1> QED
  BY <1>1

LEMMA ModMove ==
  ASSUME NEW s \in Nat \ {0}, NEW a \in Int, NEW k \in Int
  PROVE  (a + s * k) % s = a % s
<1>1. PICK q \in Int : a = s * q + (a % s) /\ a % s \in 0 .. s - 1
  BY ModIs
<1> DEFINE r == a % s
<1>2. a + s * k = s * (q + k) + r /\ q + k \in Int /\ r \in 0 .. s - 1
  BY <1>1
<1> HIDE DEF r
<1>3. (s * (q + k) + r) % s = r
  BY <1>2, ModUnique
<1> QED
  BY <1>2, <1>3 DEF r

LEMMA NatIsInt == \A n \in Nat : n \in Int
OBVIOUS

LEMMA ModDiffers ==
  ASSUME NEW s \in Nat \ {0}, NEW a \in Int, NEW d \in 1 .. s - 1
  PROVE  (a + d) % s # a % s
<1> SUFFICES ASSUME (a + d) % s = a % s PROVE FALSE
  OBVIOUS
<1>1. PICK q \in Int : a = s * q + (a % s) /\ a % s \in 0 .. s - 1
  BY ModIs
<1> DEFINE b == a + d
<1>2. b \in Int /\ b % s = a % s
  OBVIOUS
<1> HIDE DEF b
<1>3. PICK p \in Int : b = s * p + (b % s)
  BY <1>2, ModIs
<1>4. d = s * (p - q) + 0
  BY <1>1, <1>2, <1>3 DEF b
<1>5. d % s = 0
  BY <1>4, ModUnique
<1>6. d % s = d
  BY ModUnique
<1> QED
  BY <1>5, <1>6

--------------------------------------------------------------------------------
(* Rings.  The number of entries divides the range of the indices, so that  *)
(* an index that wraps goes on to the next place.                          *)
RingSizes == {TxSize, RxSize}

LEMMA RingSizesOK ==
  ASSUME NEW size \in RingSizes
  PROVE  size \in Nat \ {0} /\ size <= Wrap /\ \E k \in Int : Wrap = size * k
<1>1. size \in Nat \ {0} /\ Wrap \in Nat /\ Wrap > 0 /\ Wrap % size = 0
  BY NetworkAssumption DEF RingSizes
<1>2. PICK k \in Int : Wrap = size * k + (Wrap % size) /\ Wrap % size \in 0 .. size - 1
  <2>1. Wrap \in Int
    BY <1>1
  <2> QED
    BY <1>1, <2>1, ModIs, Zenon
<1>3. size <= Wrap
  <2>1. SUFFICES ASSUME Wrap < size PROVE FALSE
    BY <1>1
  <2>2. (size * 0 + Wrap) % size = Wrap
    BY <1>1, <2>1, ModUnique
  <2>3. size * 0 + Wrap = Wrap
    BY <1>1
  <2> QED
    BY <1>1, <2>2, <2>3
<1> QED
  BY <1>1, <1>2, <1>3

LEMMA NextPlace ==
  ASSUME NEW size \in RingSizes, NEW i \in Indices, NEW n \in Nat
  PROVE  (Inc(i) + n) % size = (i + (n + 1)) % size
<1>1. PICK k \in Int : Wrap = size * k
  BY RingSizesOK
<1>2. size \in Nat \ {0} /\ Wrap \in Nat /\ i \in Nat
  BY RingSizesOK, NetworkAssumption DEF Indices
<1>3. CASE i = Wrap - 1
  <2>1. Inc(i) + n = n /\ i + (n + 1) = n + size * k
    BY <1>1, <1>2, <1>3, IncIs
  <2>2. (n + size * k) % size = n % size
    BY <1>2, NatIsInt, ModMove, Zenon
  <2> QED
    BY <2>1, <2>2
<1>4. CASE i # Wrap - 1
  BY <1>2, <1>4, IncIs
<1> QED
  BY <1>3, <1>4

LEMMA PlacesDiffer ==
  ASSUME NEW size \in RingSizes, NEW i \in Indices, NEW m \in Nat, NEW n \in Nat,
         m < n, n - m < size
  PROVE  (i + m) % size # (i + n) % size
<1>1. size \in Nat \ {0} /\ i \in Nat
  BY RingSizesOK, NetworkAssumption DEF Indices
<1> DEFINE a == i + m
           d == n - m
<1>2. a \in Int /\ d \in 1 .. size - 1 /\ a + d = i + n
  BY <1>1
<1> HIDE DEF a, d
<1>3. (a + d) % size # a % size
  BY <1>1, <1>2, ModDiffers
<1> QED
  BY <1>2, <1>3 DEF a

LEMMA PlaceOf ==
  ASSUME NEW size \in RingSizes, NEW i \in Indices, NEW j \in Indices
  PROVE  j % size = (i + Distance(i, j)) % size
<1>1. PICK k \in Int : Wrap = size * k
  BY RingSizesOK
<1>2. size \in Nat \ {0} /\ Wrap \in Nat /\ i \in Nat /\ j \in Nat
  BY RingSizesOK, NetworkAssumption DEF Indices
<1>3. CASE j >= i
  <2>1. i + Distance(i, j) = j
    BY <1>2, <1>3, DistanceIs
  <2> QED
    BY <2>1
<1>4. CASE ~(j >= i)
  <2>1. i + Distance(i, j) = j + size * k
    BY <1>1, <1>2, <1>4, DistanceIs
  <2>2. (j + size * k) % size = j % size
    BY <1>2, NatIsInt, ModMove, Zenon
  <2> QED
    BY <2>1, <2>2
<1> QED
  BY <1>3, <1>4

(* No entry of a stretch of a ring is there twice.                          *)
OnceIn(ring, size, from, count) ==
  \A m, n \in 0 .. count - 1 :
    m # n => ring[(from + m) % size] # ring[(from + n) % size]

(* An entry is written behind a stretch of a ring.                          *)
Written(new, ring, place, v) == new = [ring EXCEPT ![place] = v]

LEMMA Pushed ==
  ASSUME NEW size \in RingSizes, NEW i \in Indices, NEW count \in 0 .. size - 1,
         NEW ring \in [0 .. size - 1 -> 0 .. size - 1], NEW v \in 0 .. size - 1,
         NEW new, Written(new, ring, (i + count) % size, v)
  PROVE  /\ new \in [0 .. size - 1 -> 0 .. size - 1]
         /\ new[(i + count) % size] = v
         /\ \A n \in 0 .. count - 1 : new[(i + n) % size] = ring[(i + n) % size]
         /\ Entries(new, size, i, count + 1) = Entries(ring, size, i, count) \union {v}
         /\ OnceIn(ring, size, i, count) /\ v \notin Entries(ring, size, i, count)
              => OnceIn(new, size, i, count + 1)
<1> DEFINE p(n) == (i + n) % size
<1>1. size \in Nat \ {0} /\ i \in Nat /\ count \in Nat
  BY RingSizesOK, NetworkAssumption DEF Indices
<1>2. ASSUME NEW n \in 0 .. count PROVE p(n) \in 0 .. size - 1
  BY <1>1
<1>3. ASSUME NEW n \in 0 .. count - 1 PROVE p(n) # p(count)
  <2>1. n \in Nat /\ n < count /\ count - n < size
    BY <1>1
  <2> QED
    BY <1>1, <2>1, PlacesDiffer
<1>4. /\ new = [ring EXCEPT ![p(count)] = v] /\ new \in [0 .. size - 1 -> 0 .. size - 1]
      /\ new[p(count)] = v
  BY <1>1, <1>2 DEF Written
<1>5. \A n \in 0 .. count - 1 : new[p(n)] = ring[p(n)]
  <2> TAKE n \in 0 .. count - 1
  <2>1. n \in 0 .. count
    BY <1>1
  <2> QED
    BY <2>1, <1>2, <1>3, <1>4
<1>6. 0 .. (count + 1) - 1 = (0 .. count - 1) \union {count} /\ count \notin 0 .. count - 1
  <2>1. \A n \in 0 .. (count + 1) - 1 : n \in 0 .. count - 1 \/ n = count
    BY <1>1
  <2>2. \A n \in 0 .. count - 1 : n \in 0 .. (count + 1) - 1 /\ n # count
    BY <1>1
  <2>3. count \in 0 .. (count + 1) - 1
    BY <1>1
  <2> QED
    BY <2>1, <2>2, <2>3
<1> HIDE DEF p
<1>7. {new[p(n)] : n \in 0 .. (count + 1) - 1} = {ring[p(n)] : n \in 0 .. count - 1} \union {v}
  BY <1>4, <1>5, <1>6
<1>8. ASSUME OnceIn(ring, size, i, count), v \notin Entries(ring, size, i, count)
      PROVE  OnceIn(new, size, i, count + 1)
  <2>1. /\ \A m, n \in 0 .. count - 1 : m # n => ring[p(m)] # ring[p(n)]
        /\ \A n \in 0 .. count - 1 : ring[p(n)] # v
    BY <1>8 DEF OnceIn, Entries, p
  <2>2. \A m, n \in 0 .. (count + 1) - 1 : m # n => new[p(m)] # new[p(n)]
    BY <2>1, <1>4, <1>5, <1>6
  <2> QED
    BY <2>2 DEF OnceIn, p
<1> QED
  BY <1>4, <1>5, <1>7, <1>8 DEF Entries, p

(* The first entry of a stretch is taken out, and its place overwritten.    *)
LEMMA Popped ==
  ASSUME NEW size \in RingSizes, NEW i \in Indices, NEW count \in 1 .. size,
         NEW ring \in [0 .. size - 1 -> 0 .. size - 1], NEW v \in 0 .. size - 1,
         NEW new, new = [ring EXCEPT ![i % size] = v]
  PROVE  /\ i % size \in 0 .. size - 1
         /\ new \in [0 .. size - 1 -> 0 .. size - 1]
         /\ ring[i % size] \in Entries(ring, size, i, count)
         /\ \A n \in 0 .. count - 2 :
              new[(Inc(i) + n) % size] = ring[(i + (n + 1)) % size]
         /\ OnceIn(ring, size, i, count) =>
              /\ Entries(new, size, Inc(i), count - 1) =
                   Entries(ring, size, i, count) \ {ring[i % size]}
              /\ OnceIn(new, size, Inc(i), count - 1)
<1> DEFINE p(n) == (i + n) % size
           r(n) == (Inc(i) + n) % size
<1>1. size \in Nat \ {0} /\ i \in Nat /\ count \in Nat
  BY RingSizesOK, NetworkAssumption DEF Indices
<1>2. p(0) = i % size /\ p(0) \in 0 .. size - 1
  BY <1>1
<1>3. ASSUME NEW n \in 1 .. count - 1
      PROVE  p(n) \in 0 .. size - 1 /\ p(n) # p(0)
  <2>1. n \in Nat /\ 0 \in Nat /\ 0 < n /\ n - 0 < size
    BY <1>1
  <2>2. p(0) # p(n)
    BY <2>1, PlacesDiffer
  <2> QED
    BY <1>1, <2>1, <2>2
<1>4. ASSUME NEW n \in 0 .. count - 2 PROVE r(n) = p(n + 1) /\ n + 1 \in 1 .. count - 1
  BY <1>1, NextPlace
<1>5. new \in [0 .. size - 1 -> 0 .. size - 1]
  BY <1>1, <1>2
<1> HIDE DEF p, r
<1>6. ASSUME NEW n \in 0 .. count - 2 PROVE new[r(n)] = ring[p(n + 1)]
  <2>1. n + 1 \in 1 .. count - 1 /\ r(n) = p(n + 1)
    BY <1>4
  <2>2. p(n + 1) \in 0 .. size - 1 /\ p(n + 1) # p(0)
    BY <2>1, <1>3
  <2> QED
    BY <2>1, <2>2, <1>2
<1>7. /\ 0 .. count - 1 = {0} \union {n + 1 : n \in 0 .. count - 2}
      /\ \A n \in 0 .. count - 2 : n + 1 # 0 /\ n + 1 \in 0 .. count - 1
      /\ \A m, n \in 0 .. count - 2 : m # n => m + 1 # n + 1
  <2>1. \A k \in 0 .. count - 1 : k = 0 \/ (k - 1 \in 0 .. count - 2 /\ k = (k - 1) + 1)
    BY <1>1
  <2>2. \A n \in 0 .. count - 2 : n + 1 # 0 /\ n + 1 \in 0 .. count - 1
    BY <1>1
  <2>3. 0 \in 0 .. count - 1
    BY <1>1
  <2>4. 0 .. count - 1 = {0} \union {n + 1 : n \in 0 .. count - 2}
    BY <2>1, <2>2, <2>3
  <2>5. \A m, n \in 0 .. count - 2 : m # n => m + 1 # n + 1
    BY <1>1
  <2> QED
    BY <2>2, <2>4, <2>5
<1>8. ring[p(0)] \in {ring[p(n)] : n \in 0 .. count - 1}
  BY <1>7
<1>9. ASSUME OnceIn(ring, size, i, count)
      PROVE  /\ Entries(new, size, Inc(i), count - 1) =
                  Entries(ring, size, i, count) \ {ring[i % size]}
             /\ OnceIn(new, size, Inc(i), count - 1)
  <2>1. \A m, n \in 0 .. count - 1 : m # n => ring[p(m)] # ring[p(n)]
    BY <1>9 DEF OnceIn, p
  <2>2. {new[r(n)] : n \in 0 .. count - 2} = {ring[p(n)] : n \in 0 .. count - 1} \ {ring[p(0)]}
    <3>1. \A n \in 0 .. count - 2 : new[r(n)] = ring[p(n + 1)] /\ ring[p(n + 1)] # ring[p(0)]
      BY <1>6, <1>7, <2>1
    <3>2. {new[r(n)] : n \in 0 .. count - 2} = {ring[p(n + 1)] : n \in 0 .. count - 2}
      BY <3>1
    <3>3. {ring[p(n)] : n \in 0 .. count - 1} =
            {ring[p(0)]} \union {ring[p(n + 1)] : n \in 0 .. count - 2}
      BY <1>7
    <3> QED
      BY <3>1, <3>2, <3>3
  <2>3. \A m, n \in 0 .. count - 2 : m # n => new[r(m)] # new[r(n)]
    BY <2>1, <1>6, <1>7
  <2> QED
    <3>1. (count - 1) - 1 = count - 2
      BY <1>1
    <3> QED
      BY <2>2, <2>3, <3>1, <1>2 DEF Entries, OnceIn, p, r
<1> QED
  BY <1>2, <1>5, <1>6, <1>8, <1>9 DEF Entries, p, r

--------------------------------------------------------------------------------
(* The queue of descriptors on which frames leave.  H are the first          *)
(* descriptors of the frames lent to the device: each is followed by one     *)
(* more, which ends its chain and knows its head ...                       *)
TxDescs == 0 .. TxSize - 1

Chained(q, H) ==
  \A h \in H : /\ q.chained[h] /\ ~q.chained[q.next[h]]
               /\ q.next[h] \notin H /\ q.addr[q.next[h]] = h

(* ... and f lists the others, in the order of the free list.               *)
Shares(q, H, f) ==
  /\ f \in [0 .. q.numFree - 1 -> TxDescs]
  /\ q.numFree > 0 => f[0] = q.free
  /\ \A n \in 1 .. q.numFree - 1 : f[n] = q.next[f[n - 1]]
  /\ \A m, n \in 0 .. q.numFree - 1 : m # n => f[m] # f[n]
  /\ \A n \in 0 .. q.numFree - 1 : f[n] \notin H /\ \A h \in H : f[n] # q.next[h]
  /\ \A d \in TxDescs \ H :
       (\E n \in 0 .. q.numFree - 1 : f[n] = d) \/ (\E h \in H : q.next[h] = d)

Descriptors(q) ==
  /\ q.numFree \in Nat /\ q.free \in TxDescs
  /\ q.next \in [TxDescs -> TxDescs] /\ q.addr \in [TxDescs -> TxDescs]
  /\ q.chained \in [TxDescs -> BOOLEAN]

(* send_frame takes the first two free descriptors.                         *)
TakesTwo(p, q) ==
  /\ q.numFree = p.numFree - 2 /\ q.free = p.next[p.next[p.free]] /\ q.next = p.next
  /\ q.chained = [p.chained EXCEPT ![p.free] = TRUE, ![p.next[p.free]] = FALSE]
  /\ q.addr = [p.addr EXCEPT ![p.next[p.free]] = p.free]

LEMMA TakeTwo ==
  ASSUME NEW p, NEW q, NEW H \in SUBSET TxDescs, NEW f,
         Descriptors(p), Chained(p, H), Shares(p, H, f), p.numFree >= 2, TakesTwo(p, q)
  PROVE  /\ p.free \notin H
         /\ Descriptors(q) /\ Chained(q, H \union {p.free})
         /\ \E g : Shares(q, H \union {p.free}, g)
<1> DEFINE h == p.free
           t == p.next[h]
           g == [n \in 0 .. q.numFree - 1 |-> f[n + 2]]
           N == p.numFree
<1> USE DEF TakesTwo
<1>1. N \in Nat /\ h \in TxDescs /\ t \in TxDescs /\ p.next \in [TxDescs -> TxDescs]
  BY DEF Descriptors
<1>2. /\ 0 \in 0 .. N - 1 /\ 1 \in 0 .. N - 1 /\ 1 \in 1 .. N - 1 /\ 1 - 1 = 0 /\ N > 0
      /\ \A n \in 0 .. N - 3 : n + 2 \in 0 .. N - 1 /\ n + 2 # 0 /\ n + 2 # 1
      /\ q.numFree - 1 = N - 3
  BY <1>1
<1>3. f[0] = h /\ f[1] = t
  BY <1>2 DEF Shares
<1>4. h \notin H /\ t \notin H /\ h # t
  BY <1>2, <1>3 DEF Shares
<1>5. Descriptors(q)
  <2>1. q.numFree \in Nat
    BY <1>1
  <2>2. q.free \in TxDescs /\ q.next \in [TxDescs -> TxDescs]
    BY <1>1
  <2>3. q.addr \in [TxDescs -> TxDescs]
    BY <1>1 DEF Descriptors
  <2>4. q.chained \in [TxDescs -> BOOLEAN]
    BY <1>1 DEF Descriptors
  <2> QED
    BY <2>1, <2>2, <2>3, <2>4 DEF Descriptors
<1>6. Chained(q, H \union {h})
  <2> SUFFICES ASSUME NEW k \in H \union {h}
               PROVE  /\ q.chained[k] /\ ~q.chained[q.next[k]]
                      /\ q.next[k] \notin H \union {h} /\ q.addr[q.next[k]] = k
    BY DEF Chained
  <2>1. CASE k = h
    BY <1>1, <1>4, <2>1 DEF Descriptors
  <2>2. CASE k \in H
    <3>1. /\ p.chained[k] /\ ~p.chained[p.next[k]]
          /\ p.next[k] \notin H /\ p.addr[p.next[k]] = k
      BY <2>2 DEF Chained
    <3>2. p.next[k] # h /\ p.next[k] # t /\ k # t /\ k # h
      BY <1>2, <1>3, <1>4, <2>2 DEF Shares
    <3>3. k \in TxDescs /\ p.next[k] \in TxDescs
      BY <1>1, <2>2
    <3> QED
      BY <1>1, <3>1, <3>2, <3>3 DEF Descriptors
  <2> QED
    BY <2>1, <2>2
<1>7. Shares(q, H \union {h}, g)
  <2>1. g \in [0 .. q.numFree - 1 -> TxDescs]
    BY <1>2 DEF Shares
  <2>2. ASSUME q.numFree > 0 PROVE g[0] = q.free
    <3>1. 0 \in 0 .. N - 3 /\ 2 \in 1 .. N - 1 /\ 2 - 1 = 1 /\ 0 + 2 = 2
      BY <1>1, <2>2
    <3>2. f[2] = p.next[f[1]]
      BY <3>1 DEF Shares
    <3> QED
      BY <3>1, <3>2, <1>2, <1>3
  <2>3. ASSUME NEW n \in 1 .. q.numFree - 1 PROVE g[n] = q.next[g[n - 1]]
    <3>1. n \in 0 .. N - 3 /\ n - 1 \in 0 .. N - 3 /\ n + 2 \in 1 .. N - 1
          /\ (n + 2) - 1 = (n - 1) + 2
      BY <1>1
    <3>2. f[n + 2] = p.next[f[(n + 2) - 1]]
      BY <3>1 DEF Shares
    <3> QED
      BY <3>1, <3>2, <1>2
  <2>4. ASSUME NEW m \in 0 .. q.numFree - 1, NEW n \in 0 .. q.numFree - 1, m # n
        PROVE  g[m] # g[n]
    <3>1. m + 2 # n + 2 /\ m + 2 \in 0 .. N - 1 /\ n + 2 \in 0 .. N - 1
      BY <1>1, <2>4
    <3> QED
      BY <3>1 DEF Shares
  <2>5. ASSUME NEW n \in 0 .. q.numFree - 1
        PROVE  g[n] \notin H \union {h} /\ \A k \in H \union {h} : g[n] # q.next[k]
    <3>1. n + 2 \in 0 .. N - 1 /\ n + 2 # 0 /\ n + 2 # 1
      BY <1>1
    <3>2. f[n + 2] # f[0] /\ f[n + 2] # f[1]
      BY <3>1, <1>2 DEF Shares
    <3>3. f[n + 2] \notin H /\ \A k \in H : f[n + 2] # p.next[k]
      BY <3>1 DEF Shares
    <3> QED
      BY <3>2, <3>3, <1>3
  <2>6. ASSUME NEW d \in TxDescs \ (H \union {h})
        PROVE  (\E n \in 0 .. q.numFree - 1 : g[n] = d) \/ (\E k \in H \union {h} : q.next[k] = d)
    <3>1. CASE \E k \in H : p.next[k] = d
      BY <3>1
    <3>2. CASE \E n \in 0 .. N - 1 : f[n] = d
      <4>1. PICK n \in 0 .. N - 1 : f[n] = d
        BY <3>2
      <4>2. CASE n = 1
        BY <1>3, <4>1, <4>2
      <4>3. CASE n # 1
        <5>1. n # 0
          BY <1>3, <4>1
        <5>2. n - 2 \in 0 .. q.numFree - 1 /\ (n - 2) + 2 = n
          BY <1>1, <4>3, <5>1
        <5> QED
          BY <4>1, <5>2
      <4> QED
        BY <4>2, <4>3
    <3> QED
      BY <3>1, <3>2 DEF Shares
  <2> HIDE DEF g, h
  <2> QED
    BY <2>1, <2>2, <2>3, <2>4, <2>5, <2>6 DEF Shares
<1> QED
  BY <1>4, <1>5, <1>6, <1>7

(* reclaim_send_buffers puts the two descriptors of a frame before the free  *)
(* ones.                                                                   *)
PutsTwo(p, q, h) ==
  /\ q.numFree = p.numFree + 2 /\ q.free = h /\ q.chained = p.chained /\ q.addr = p.addr
  /\ q.next = [p.next EXCEPT ![p.next[h]] = p.free]

LEMMA PutTwo ==
  ASSUME NEW p, NEW q, NEW H \in SUBSET TxDescs, NEW f, NEW h, NEW G,
         Descriptors(p), Chained(p, H), Shares(p, H, f), PutsTwo(p, q, h),
         h \in H, G = H \ {h}
  PROVE  Descriptors(q) /\ Chained(q, G) /\ \E g : Shares(q, G, g)
<1> DEFINE t == p.next[h]
           N == p.numFree
           g == [n \in 0 .. q.numFree - 1 |->
                   IF n = 0 THEN h ELSE IF n = 1 THEN t ELSE f[n - 2]]
<1> USE DEF PutsTwo
<1>1. N \in Nat /\ h \in TxDescs /\ t \in TxDescs /\ p.next \in [TxDescs -> TxDescs]
      /\ p.free \in TxDescs
  BY DEF Descriptors
<1>2. /\ t \notin H /\ t # h
      /\ \A k \in H : k # h => p.next[k] # t
  BY DEF Chained
<1>3. \A k \in H : q.next[k] = p.next[k] /\ p.next[k] \in TxDescs
  BY <1>1, <1>2
<1>4. Descriptors(q)
  <2>1. q.numFree \in Nat
    BY <1>1
  <2> QED
    BY <1>1, <2>1 DEF Descriptors
<1>5. Chained(q, H \ {h})
  BY <1>3 DEF Chained
<1>6. /\ q.numFree - 1 = N + 1 /\ q.numFree > 0
      /\ \A n \in 0 .. N + 1 : n = 0 \/ n = 1 \/ (n - 2 \in 0 .. N - 1 /\ n # 0 /\ n # 1)
      /\ 0 \in 0 .. N + 1 /\ 1 \in 0 .. N + 1 /\ 0 # 1
      /\ \A n \in 0 .. N - 1 : n + 2 \in 0 .. N + 1 /\ n + 2 # 0 /\ n + 2 # 1 /\ (n + 2) - 2 = n
      /\ \A m, n \in 0 .. N + 1 : m # n => m - 2 # n - 2
  BY <1>1
<1>7. \A n \in 0 .. N - 1 : f[n] \in TxDescs /\ f[n] \notin H /\ \A k \in H : f[n] # p.next[k]
  BY DEF Shares
<1>8. Shares(q, H \ {h}, g)
  <2>1. g \in [0 .. q.numFree - 1 -> TxDescs]
    BY <1>1, <1>6, <1>7
  <2>2. g[0] = q.free
    BY <1>6
  <2>3. ASSUME NEW n \in 1 .. q.numFree - 1 PROVE g[n] = q.next[g[n - 1]]
    <3>1. n \in 0 .. N + 1 /\ n - 1 \in 0 .. N + 1 /\ n # 0
      BY <1>1
    <3>2. CASE n = 1
      <4>1. n - 1 = 0
        BY <3>2
      <4> QED
        BY <1>1, <1>2, <1>6, <3>1, <3>2, <4>1
    <3>3. CASE n = 2
      <4>1. n - 1 = 1 /\ n - 2 = 0 /\ N > 0
        BY <1>1, <3>3
      <4>2. f[0] = p.free
        BY <4>1 DEF Shares
      <4> QED
        BY <1>1, <1>6, <3>1, <3>3, <4>1, <4>2
    <3>4. CASE n # 1 /\ n # 2
      <4>1. n - 1 # 0 /\ n - 1 # 1 /\ n - 2 \in 1 .. N - 1 /\ (n - 2) - 1 = (n - 1) - 2
            /\ (n - 1) - 2 \in 0 .. N - 1
        BY <1>1, <3>4
      <4>2. f[n - 2] = p.next[f[(n - 2) - 1]]
        BY <4>1 DEF Shares
      <4>3. f[(n - 1) - 2] \in TxDescs /\ f[(n - 1) - 2] # t
        BY <4>1, <1>7
      <4>4. g[n] = f[n - 2] /\ g[n - 1] = f[(n - 1) - 2]
        BY <3>1, <3>4, <4>1, <1>6
      <4> QED
        BY <1>1, <4>1, <4>2, <4>3, <4>4
    <3> QED
      BY <3>2, <3>3, <3>4
  <2>4. ASSUME NEW n \in 0 .. q.numFree - 1
        PROVE  \/ n = 0 /\ g[n] = h
               \/ n = 1 /\ g[n] = t
               \/ n - 2 \in 0 .. N - 1 /\ g[n] = f[n - 2]
    BY <1>6
  <2>5. ASSUME NEW m \in 0 .. q.numFree - 1, NEW n \in 0 .. q.numFree - 1, m # n
        PROVE  g[m] # g[n]
    <3>1. m - 2 # n - 2
      BY <1>6, <2>5
    <3>2. m - 2 \in 0 .. N - 1 /\ n - 2 \in 0 .. N - 1 => f[m - 2] # f[n - 2]
      BY <3>1 DEF Shares
    <3> HIDE DEF g
    <3> QED
      BY <1>2, <1>7, <2>4, <2>5, <3>2
  <2>6. ASSUME NEW n \in 0 .. q.numFree - 1
        PROVE  g[n] \notin H \ {h} /\ \A k \in H \ {h} : g[n] # q.next[k]
    <3> HIDE DEF g
    <3>1. \A k \in H : p.next[k] \notin H
      BY DEF Chained
    <3> QED
      BY <1>2, <1>3, <1>7, <2>4, <3>1
  <2>7. ASSUME NEW d \in TxDescs \ (H \ {h})
        PROVE  (\E n \in 0 .. q.numFree - 1 : g[n] = d) \/ (\E k \in H \ {h} : q.next[k] = d)
    <3>1. CASE d = h
      BY <1>6, <3>1
    <3>2. CASE d # h /\ \E n \in 0 .. N - 1 : f[n] = d
      <4>1. PICK n \in 0 .. N - 1 : f[n] = d
        BY <3>2
      <4>2. g[n + 2] = d
        BY <1>6, <4>1
      <4> QED
        BY <1>6, <4>2
    <3>3. CASE d # h /\ \E k \in H : p.next[k] = d
      <4>1. PICK k \in H : p.next[k] = d
        BY <3>3
      <4>2. CASE k = h
        BY <1>6, <4>1, <4>2
      <4>3. CASE k # h
        BY <1>3, <4>1, <4>3
      <4> QED
        BY <4>2, <4>3
    <3> QED
      BY <3>1, <3>2, <3>3 DEF Shares
  <2> HIDE DEF g
  <2> QED
    BY <1>6, <2>1, <2>2, <2>3, <2>5, <2>6, <2>7 DEF Shares
<1> QED
  BY <1>4, <1>5, <1>8

(* Neither sees the rings.                                                  *)
LEMMA SharesSame ==
  ASSUME NEW p, NEW q, NEW H, Chained(p, H), \E f : Shares(p, H, f),
         q.numFree = p.numFree, q.free = p.free, q.next = p.next, q.chained = p.chained,
         q.addr = p.addr
  PROVE  Chained(q, H) /\ \E f : Shares(q, H, f)
<1>1. Chained(q, H)
  BY DEF Chained
<1>2. PICK f : Shares(p, H, f)
  OBVIOUS
<1>3. Shares(q, H, f)
  BY <1>2 DEF Shares
<1> QED
  BY <1>1, <1>3

(* How many frames the device has to look at, with the one that is about to  *)
(* be published, and how many it has given back that are not reclaimed.     *)
ToSee == Distance(device.seen, tx.availIdx) + One(driver.at = "publish")
Given == Distance(tx.seen, tx.usedIdx)
TxAvail == Entries(tx.availRing, TxSize, device.seen, ToSee)
TxUsed == Entries(tx.usedRing, TxSize, tx.seen, Given)

TxTypes ==
  /\ Descriptors(tx)
  /\ tx.availRing \in [TxDescs -> TxDescs] /\ tx.usedRing \in [TxDescs -> TxDescs]
  /\ {tx.seen, tx.usedIdx, tx.availIdx, device.seen} \subseteq Indices
  /\ device.done \in SUBSET TxDescs

TxCounts ==
  /\ Cardinality(device.done) = Distance(tx.usedIdx, device.seen)
  /\ tx.numFree + 2 * (Given + Cardinality(device.done) + ToSee) = TxSize

TxOnce ==
  /\ OnceIn(tx.availRing, TxSize, device.seen, ToSee)
  /\ OnceIn(tx.usedRing, TxSize, tx.seen, Given)
  /\ TxAvail \intersect device.done = {} /\ TxUsed \intersect device.done = {}
  /\ TxAvail \intersect TxUsed = {}

TxInv ==
  /\ Records /\ TxTypes /\ TxCounts /\ TxOnce
  /\ Chained(tx, TxHeads) /\ \E f : Shares(tx, TxHeads, f)

(* The frames lent leave room in both rings, and in the range of the indices. *)
LEMMA TxRoom ==
  ASSUME TxInv
  PROVE  /\ Given \in Nat /\ ToSee \in Nat /\ Cardinality(device.done) \in Nat
         /\ IsFiniteSet(device.done)
         /\ Given + Cardinality(device.done) + ToSee \in 0 .. TxSize - 1
         /\ Given + Cardinality(device.done) + ToSee <= Wrap - 1
         /\ tx.numFree >= 1 => tx.numFree >= 2
         /\ TxHeads = TxAvail \union device.done \union TxUsed
         /\ TxSize \in RingSizes /\ TxSize \in Nat \ {0} /\ Wrap \in Nat
<1>1. TxSize \in RingSizes /\ TxSize \in Nat \ {0} /\ Wrap \in Nat /\ TxSize <= Wrap
  BY RingSizesOK, NetworkAssumption DEF RingSizes
<1>2. Given \in Nat /\ ToSee \in Nat
  <2>1. /\ tx.seen \in Indices /\ tx.usedIdx \in Indices /\ tx.availIdx \in Indices
        /\ device.seen \in Indices
    BY DEF TxInv, TxTypes
  <2>2. Given \in Indices /\ Distance(device.seen, tx.availIdx) \in Indices
    BY <2>1, DistanceIs DEF Given
  <2> QED
    BY <1>1, <2>2 DEF ToSee, One, Indices
<1>3. IsFiniteSet(device.done) /\ Cardinality(device.done) \in Nat
  <2>1. IsFiniteSet(TxDescs)
    BY <1>1, FS_Interval DEF TxDescs
  <2>2. IsFiniteSet(device.done)
    BY <2>1, FS_Subset DEF TxInv, TxTypes
  <2> QED
    BY <2>2, FS_CardinalityType
<1>4. PICK k \in Int : TxSize = 2 * k + 0
  <2>1. TxSize % 2 = 0
    BY NetworkAssumption
  <2> QED
    BY <1>1, <2>1
<1>5. tx.numFree \in Nat /\ tx.numFree + 2 * (Given + Cardinality(device.done) + ToSee) = TxSize
  BY DEF TxInv, TxTypes, TxCounts, Descriptors
<1>6. tx.numFree >= 1 => tx.numFree >= 2
  BY <1>2, <1>3, <1>4, <1>5
<1>7. TxHeads = TxAvail \union device.done \union TxUsed
  BY DEF TxHeads, TxAvail, TxUsed, ToSee, Given
<1> QED
  BY <1>1, <1>2, <1>3, <1>5, <1>6, <1>7

(* The entries of the two stretches are descriptors.                        *)
LEMMA EntriesTyped ==
  ASSUME NEW size \in Nat \ {0}, NEW ring \in [0 .. size - 1 -> 0 .. size - 1],
         NEW from \in Nat, NEW count \in Nat
  PROVE  Entries(ring, size, from, count) \in SUBSET (0 .. size - 1)
<1>1. \A n \in 0 .. count - 1 : (from + n) % size \in 0 .. size - 1
  OBVIOUS
<1> QED
  BY <1>1 DEF Entries

LEMMA HeadsTyped ==
  ASSUME TxInv
  PROVE  /\ TxAvail \in SUBSET TxDescs /\ TxUsed \in SUBSET TxDescs
         /\ TxHeads \in SUBSET TxDescs
<1>1. /\ TxSize \in Nat \ {0} /\ ToSee \in Nat /\ Given \in Nat
      /\ TxHeads = TxAvail \union device.done \union TxUsed
  BY TxRoom
<1>2. device.seen \in Nat /\ tx.seen \in Nat
  BY TxRoom DEF TxInv, TxTypes, Indices
<1>3. /\ tx.availRing \in [0 .. TxSize - 1 -> 0 .. TxSize - 1]
      /\ tx.usedRing \in [0 .. TxSize - 1 -> 0 .. TxSize - 1]
      /\ device.done \in SUBSET TxDescs
  BY DEF TxInv, TxTypes, TxDescs
<1>4. TxAvail \in SUBSET TxDescs
  BY <1>1, <1>2, <1>3, EntriesTyped DEF TxAvail, TxDescs
<1>5. TxUsed \in SUBSET TxDescs
  BY <1>1, <1>2, <1>3, EntriesTyped DEF TxUsed, TxDescs
<1> QED
  BY <1>1, <1>3, <1>4, <1>5

(* The invariant does not see what else the driver and the device do.       *)
LEMMA TxSame ==
  ASSUME TxInv, Records', tx' = tx, device'.seen = device.seen, device'.done = device.done,
         (driver'.at = "publish") = (driver.at = "publish")
  PROVE  TxInv'
BY DEF TxInv, TxTypes, TxCounts, TxOnce, TxHeads, TxAvail, TxUsed, ToSee, Given

LEMMA TxTransmit ==
  ASSUME TxInv, Records', Transmit
  PROVE  TxInv'
<1> DEFINE h == tx.availRing[device.seen % TxSize]
<1> USE DEF TxInv
<1>1. /\ device'.seen = Inc(device.seen) /\ device'.done = device.done \union {h}
      /\ tx'.availRing = [tx.availRing EXCEPT ![device.seen % TxSize] = 0]
      /\ tx'.usedRing = tx.usedRing /\ tx'.seen = tx.seen /\ tx'.usedIdx = tx.usedIdx
      /\ tx'.availIdx = tx.availIdx /\ tx'.numFree = tx.numFree /\ tx'.free = tx.free
      /\ tx'.next = tx.next /\ tx'.chained = tx.chained /\ tx'.addr = tx.addr
      /\ driver' = driver /\ device.seen # tx.availIdx
  BY DEF Transmit, Records, Fields
<1>2. /\ {tx.seen, tx.usedIdx, tx.availIdx, device.seen} \subseteq Indices
      /\ tx.availRing \in [TxDescs -> TxDescs] /\ Inc(device.seen) \in Indices
  BY IncIs DEF TxTypes
<1>3. Distance(device.seen, tx.availIdx) # 0 /\ Distance(device.seen, tx.availIdx) \in Nat
  BY <1>1, <1>2, DistanceMoves, DistanceIs DEF Indices
<1>4. ToSee' = ToSee - 1 /\ ToSee \in 1 .. TxSize /\ Given' = Given
  <2>1. Distance(Inc(device.seen), tx.availIdx) = Distance(device.seen, tx.availIdx) - 1
    BY <1>1, <1>2, DistanceMoves
  <2> QED
    BY <1>1, <1>3, <2>1, TxRoom DEF ToSee, Given, One
<1>5. /\ tx'.availRing \in [TxDescs -> TxDescs] /\ h \in TxAvail
      /\ TxAvail' = TxAvail \ {h}
      /\ OnceIn(tx'.availRing, TxSize, device'.seen, ToSee')
  <2>1. 0 \in 0 .. TxSize - 1 /\ TxSize \in RingSizes
    BY TxRoom
  <2>2. OnceIn(tx.availRing, TxSize, device.seen, ToSee)
    BY DEF TxOnce
  <2>3. TxAvail' = Entries(tx'.availRing, TxSize, Inc(device.seen), ToSee - 1)
    BY <1>1, <1>4 DEF TxAvail
  <2> QED
    BY <1>1, <1>2, <1>4, <2>1, <2>2, <2>3, Popped DEF TxAvail, TxDescs
<1>6. h \in TxDescs /\ h \notin device.done /\ h \notin TxUsed
  BY <1>5, HeadsTyped DEF TxOnce
<1>7. TxHeads' = TxHeads /\ TxUsed' = TxUsed
  <2>1. TxUsed' = TxUsed
    BY <1>1, <1>4 DEF TxUsed
  <2>2. TxHeads' = TxAvail' \union device'.done \union TxUsed'
    BY DEF TxHeads, TxAvail, TxUsed, ToSee, Given
  <2> QED
    BY <1>1, <1>5, <2>1, <2>2, TxRoom
<1>8. Cardinality(device'.done) = Cardinality(device.done) + 1
  BY <1>1, <1>6, TxRoom, FS_AddElement
<1>9. TxTypes'
  BY <1>1, <1>2, <1>5, <1>6 DEF TxTypes, Descriptors
<1>10. TxCounts'
  <2>1. Distance(tx.usedIdx, device.seen) < Wrap - 1
    BY <1>4, TxRoom DEF TxCounts
  <2>2. Distance(tx.usedIdx, Inc(device.seen)) = Distance(tx.usedIdx, device.seen) + 1
    BY <1>2, <2>1, DistanceMoves
  <2> QED
    BY <1>1, <1>4, <1>8, <2>2, TxRoom DEF TxCounts
<1>11. TxOnce'
  BY <1>1, <1>4, <1>5, <1>6, <1>7 DEF TxOnce
<1>12. Chained(tx', TxHeads') /\ \E f : Shares(tx', TxHeads', f)
  BY <1>1, <1>7, SharesSame
<1> QED
  BY <1>9, <1>10, <1>11, <1>12

LEMMA TxGiveBack ==
  ASSUME TxInv, Records', NEW h, GiveBack(h)
  PROVE  TxInv'
<1> USE DEF TxInv
<1>1. /\ h \in device.done /\ device'.done = device.done \ {h} /\ device'.seen = device.seen
      /\ tx'.usedRing = [tx.usedRing EXCEPT ![tx.usedIdx % TxSize] = h]
      /\ tx'.usedIdx = Inc(tx.usedIdx)
      /\ tx'.availRing = tx.availRing /\ tx'.seen = tx.seen
      /\ tx'.availIdx = tx.availIdx /\ tx'.numFree = tx.numFree /\ tx'.free = tx.free
      /\ tx'.next = tx.next /\ tx'.chained = tx.chained /\ tx'.addr = tx.addr
      /\ driver' = driver
  BY DEF GiveBack, Records, Fields
<1>2. /\ {tx.seen, tx.usedIdx, tx.availIdx, device.seen} \subseteq Indices
      /\ tx.usedRing \in [TxDescs -> TxDescs] /\ Inc(tx.usedIdx) \in Indices
  BY IncIs DEF TxTypes
<1>3. Cardinality(device'.done) = Cardinality(device.done) - 1 /\ Cardinality(device.done) # 0
  BY <1>1, TxRoom, FS_RemoveElement, FS_EmptySet
<1>4. Given \in 0 .. TxSize - 1 /\ Given' = Given + 1 /\ ToSee' = ToSee
  <2>1. Given < Wrap - 1
    BY <1>3, TxRoom
  <2>2. Distance(tx.seen, Inc(tx.usedIdx)) = Given + 1
    BY <1>2, <2>1, DistanceMoves DEF Given
  <2> QED
    BY <1>1, <2>2, TxRoom DEF Given, ToSee
<1>5. h \in TxDescs /\ h \notin TxUsed /\ h \notin TxAvail
  BY <1>1 DEF TxOnce, TxTypes
<1>6. /\ tx'.usedRing \in [TxDescs -> TxDescs]
      /\ TxUsed' = TxUsed \union {h}
      /\ OnceIn(tx'.usedRing, TxSize, tx'.seen, Given')
  <2>1. TxSize \in RingSizes /\ tx.usedIdx % TxSize = (tx.seen + Given) % TxSize
    BY <1>2, TxRoom, PlaceOf DEF Given
  <2>2. OnceIn(tx.usedRing, TxSize, tx.seen, Given)
    BY DEF TxOnce
  <2>3. TxUsed' = Entries(tx'.usedRing, TxSize, tx.seen, Given + 1)
    BY <1>1, <1>4 DEF TxUsed
  <2>4. /\ Written(tx'.usedRing, tx.usedRing, (tx.seen + Given) % TxSize, h)
        /\ tx.usedRing \in [0 .. TxSize - 1 -> 0 .. TxSize - 1] /\ h \in 0 .. TxSize - 1
        /\ tx.seen \in Indices /\ h \notin Entries(tx.usedRing, TxSize, tx.seen, Given)
    BY <1>1, <1>2, <1>5, <2>1 DEF TxUsed, TxDescs, Written
  <2>5. /\ tx'.usedRing \in [0 .. TxSize - 1 -> 0 .. TxSize - 1]
        /\ Entries(tx'.usedRing, TxSize, tx.seen, Given + 1) =
             Entries(tx.usedRing, TxSize, tx.seen, Given) \union {h}
        /\ OnceIn(tx'.usedRing, TxSize, tx.seen, Given + 1)
    BY <1>4, <2>1, <2>2, <2>4, Pushed
  <2> QED
    BY <1>1, <1>4, <2>3, <2>5 DEF TxUsed, TxDescs
<1>7. TxHeads' = TxHeads /\ TxAvail' = TxAvail
  <2>1. TxAvail' = TxAvail
    BY <1>1, <1>4 DEF TxAvail
  <2>2. TxHeads' = TxAvail' \union device'.done \union TxUsed'
    BY DEF TxHeads, TxAvail, TxUsed, ToSee, Given
  <2> QED
    BY <1>1, <1>6, <2>1, <2>2, TxRoom
<1>8. TxTypes'
  BY <1>1, <1>2, <1>6 DEF TxTypes, Descriptors
<1>9. TxCounts'
  <2>1. tx.usedIdx # device.seen
    BY <1>2, <1>3, DistanceMoves DEF TxCounts
  <2>2. Distance(Inc(tx.usedIdx), device.seen) = Distance(tx.usedIdx, device.seen) - 1
    BY <1>2, <2>1, DistanceMoves
  <2> QED
    BY <1>1, <1>3, <1>4, <2>2, TxRoom DEF TxCounts
<1>10. TxOnce'
  BY <1>1, <1>4, <1>5, <1>6, <1>7 DEF TxOnce
<1>11. Chained(tx', TxHeads') /\ \E f : Shares(tx', TxHeads', f)
  BY <1>1, <1>7, SharesSame
<1> QED
  BY <1>8, <1>9, <1>10, <1>11

LEMMA TxPublish ==
  ASSUME TxInv, Records', Publish
  PROVE  TxInv'
<1> USE DEF TxInv
<1>1. /\ device' = device /\ driver.at = "publish" /\ driver'.at = "flush"
      /\ tx'.availIdx = Inc(tx.availIdx)
      /\ tx'.usedRing = tx.usedRing /\ tx'.usedIdx = tx.usedIdx
      /\ tx'.availRing = tx.availRing /\ tx'.seen = tx.seen
      /\ tx'.numFree = tx.numFree /\ tx'.free = tx.free
      /\ tx'.next = tx.next /\ tx'.chained = tx.chained /\ tx'.addr = tx.addr
  BY DEF Publish, Goto, Records, Fields
<1>2. {tx.seen, tx.usedIdx, tx.availIdx, device.seen} \subseteq Indices
      /\ Inc(tx.availIdx) \in Indices
  BY IncIs DEF TxTypes
<1>3. ToSee' = ToSee /\ Given' = Given
  <2>1. ToSee = Distance(device.seen, tx.availIdx) + 1 /\ Distance(device.seen, tx.availIdx) \in Nat
    BY <1>1, <1>2, DistanceIs DEF ToSee, One, Indices
  <2>2. Distance(device.seen, tx.availIdx) < Wrap - 1
    BY <2>1, TxRoom
  <2>3. Distance(device.seen, Inc(tx.availIdx)) = Distance(device.seen, tx.availIdx) + 1
    BY <1>2, <2>2, DistanceMoves
  <2> QED
    BY <1>1, <2>1, <2>3 DEF ToSee, Given, One
<1>4. TxAvail' = TxAvail /\ TxUsed' = TxUsed /\ TxHeads' = TxHeads
  <2>1. TxAvail' = TxAvail /\ TxUsed' = TxUsed
    BY <1>1, <1>3 DEF TxAvail, TxUsed
  <2>2. TxHeads' = TxAvail' \union device'.done \union TxUsed'
    BY DEF TxHeads, TxAvail, TxUsed, ToSee, Given
  <2> QED
    BY <1>1, <2>1, <2>2, TxRoom
<1>5. TxTypes'
  BY <1>1, <1>2 DEF TxTypes, Descriptors
<1>6. TxCounts' /\ TxOnce'
  BY <1>1, <1>3, <1>4 DEF TxCounts, TxOnce
<1>7. Chained(tx', TxHeads') /\ \E f : Shares(tx', TxHeads', f)
  BY <1>1, <1>4, SharesSame
<1> QED
  BY <1>5, <1>6, <1>7

LEMMA TxFills ==
  ASSUME TxInv, Records', SendFills
  PROVE  /\ TxInv' /\ ToSee' = ToSee + 1 /\ tx.free \in TxDescs /\ tx.next[tx.free] \in TxDescs
         /\ tx.free \notin TxHeads
<1> DEFINE h == tx.free
           t == tx.next[h]
<1> USE DEF TxInv
<1>1. /\ device' = device /\ driver.at = "send" /\ driver'.at = "publish"
      /\ tx.numFree >= 1 /\ tx'.availIdx = tx.availIdx
      /\ tx'.usedRing = tx.usedRing /\ tx'.usedIdx = tx.usedIdx
      /\ tx'.availRing = [tx.availRing EXCEPT ![tx.availIdx % TxSize] = h]
      /\ tx'.seen = tx.seen /\ tx'.numFree = tx.numFree - 2 /\ tx'.free = tx.next[t]
      /\ tx'.next = tx.next /\ tx'.chained = [tx.chained EXCEPT ![h] = TRUE, ![t] = FALSE]
      /\ tx'.addr = [tx.addr EXCEPT ![t] = h]
  BY DEF SendFills, FillChain, Records, Fields
<1>2. /\ {tx.seen, tx.usedIdx, tx.availIdx, device.seen} \subseteq Indices
      /\ tx.availRing \in [TxDescs -> TxDescs] /\ h \in TxDescs /\ t \in TxDescs
  BY DEF TxTypes, Descriptors
<1>3. PICK f : Shares(tx, TxHeads, f)
  OBVIOUS
<1>4. /\ h \notin TxHeads
      /\ Descriptors(tx') /\ Chained(tx', TxHeads \union {h})
      /\ \E g : Shares(tx', TxHeads \union {h}, g)
  <2>1. tx.numFree >= 2 /\ TxHeads \in SUBSET TxDescs /\ Descriptors(tx) /\ Chained(tx, TxHeads)
    BY <1>1, TxRoom, HeadsTyped DEF TxTypes
  <2>3. TakesTwo(tx, tx')
    BY <1>1 DEF TakesTwo
  <2>2. /\ h \notin TxHeads
        /\ Descriptors(tx') /\ Chained(tx', TxHeads \union {h})
        /\ \E g : Shares(tx', TxHeads \union {h}, g)
    BY <1>3, <2>1, <2>3, TakeTwo
  <2> QED
    BY <2>2
<1>5. ToSee = Distance(device.seen, tx.availIdx) /\ ToSee' = ToSee + 1 /\ Given' = Given
  <2>1. Distance(device.seen, tx.availIdx) \in Nat
    BY <1>2, DistanceIs DEF Indices
  <2> QED
    BY <1>1, <2>1 DEF ToSee, Given, One
<1>6. /\ tx'.availRing \in [TxDescs -> TxDescs]
      /\ TxAvail' = TxAvail \union {h}
      /\ OnceIn(tx'.availRing, TxSize, device'.seen, ToSee')
  <2>1. /\ TxSize \in RingSizes /\ tx.availIdx % TxSize = (device.seen + ToSee) % TxSize
        /\ ToSee \in 0 .. TxSize - 1
    BY <1>2, <1>5, TxRoom, PlaceOf
  <2>2. OnceIn(tx.availRing, TxSize, device.seen, ToSee) /\ h \notin TxAvail
    BY <1>4, TxRoom DEF TxOnce
  <2>3. TxAvail' = Entries(tx'.availRing, TxSize, device.seen, ToSee + 1)
    BY <1>1, <1>5 DEF TxAvail
  <2>4. /\ Written(tx'.availRing, tx.availRing, (device.seen + ToSee) % TxSize, h)
        /\ tx.availRing \in [0 .. TxSize - 1 -> 0 .. TxSize - 1] /\ h \in 0 .. TxSize - 1
        /\ device.seen \in Indices
        /\ h \notin Entries(tx.availRing, TxSize, device.seen, ToSee)
    BY <1>1, <1>2, <2>1, <2>2 DEF TxAvail, TxDescs, Written
  <2>5. /\ tx'.availRing \in [0 .. TxSize - 1 -> 0 .. TxSize - 1]
        /\ Entries(tx'.availRing, TxSize, device.seen, ToSee + 1) =
             Entries(tx.availRing, TxSize, device.seen, ToSee) \union {h}
        /\ OnceIn(tx'.availRing, TxSize, device.seen, ToSee + 1)
    BY <2>1, <2>2, <2>4, Pushed
  <2> QED
    BY <1>1, <1>5, <2>3, <2>5 DEF TxAvail, TxDescs
<1>7. TxHeads' = TxHeads \union {h} /\ TxUsed' = TxUsed
  <2>1. TxUsed' = TxUsed
    BY <1>1, <1>5 DEF TxUsed
  <2>2. TxHeads' = TxAvail' \union device'.done \union TxUsed'
    BY DEF TxHeads, TxAvail, TxUsed, ToSee, Given
  <2> QED
    BY <1>1, <1>6, <2>1, <2>2, TxRoom
<1>8. TxTypes'
  BY <1>1, <1>2, <1>4, <1>6 DEF TxTypes
<1>9. TxCounts'
  BY <1>1, <1>5, TxRoom DEF TxCounts, TxTypes, Descriptors
<1>10. TxOnce'
  <2>1. h \notin device.done /\ h \notin TxUsed
    BY <1>4, TxRoom
  <2> QED
    BY <1>1, <1>5, <1>6, <1>7, <2>1 DEF TxOnce
<1> QED
  BY <1>2, <1>4, <1>5, <1>7, <1>8, <1>9, <1>10

(* The chain of a frame that has been sent ends after two descriptors.      *)
LEMMA WalkEnds ==
  ASSUME NEW q, NEW h, Descriptors(q), h \in TxDescs, q.chained[h], ~q.chained[q.next[h]]
  PROVE  /\ Walk(q, h)[TxSize] = q.next[h]
         /\ Cardinality({Walk(q, h)[n] : n \in 0 .. TxSize}) = 2
<1> DEFINE t == q.next[h]
           D == 0 .. TxSize
           Step(w) == [n \in D |-> IF n = 0 THEN h
                                   ELSE IF q.chained[w[n - 1]] THEN q.next[w[n - 1]] ELSE w[n - 1]]
           W == [n \in D |-> IF n = 0 THEN h ELSE t]
<1>1. TxSize \in Nat \ {0} /\ 0 \in D /\ TxSize \in D /\ h # t
  BY NetworkAssumption
<1>2. \A n \in D : n = 0 \/ (n # 0 /\ n - 1 \in D)
  BY <1>1
<1>3. W = Step(W)
  <2>1. ASSUME NEW n \in D PROVE W[n] = Step(W)[n]
    <3>1. CASE n = 0
      BY <1>1, <3>1
    <3>2. CASE n # 0 /\ n - 1 = 0
      BY <1>1, <1>2, <3>2
    <3>3. CASE n # 0 /\ n - 1 # 0
      BY <1>2, <3>3
    <3> QED
      BY <3>1, <3>2, <3>3
  <2> QED
    BY <2>1
<1>4. Walk(q, h) = CHOOSE w : w = Step(w)
  BY DEF Walk
<1> DEFINE w == Walk(q, h)
<1> HIDE DEF w
<1>5. w = Step(w)
  <2> HIDE DEF W, Step
  <2> QED
    BY <1>3, <1>4, Zenon DEF w
<1>6. \A n \in D : w[n] = W[n]
  <2> DEFINE S == {n \in D : w[n] # W[n]}
  <2>1. SUFFICES ASSUME S # {} PROVE FALSE
    OBVIOUS
  <2>2. S \in SUBSET Nat
    BY <1>1
  <2>3. PICK m \in S : \A k \in S : m <= k
    <3> HIDE DEF S
    <3> QED
      BY <2>1, <2>2, Least
  <2>4. m # 0 /\ m - 1 \in D
    BY <1>1, <1>2, <1>5
  <2>5. m - 1 \notin S
    BY <2>2, <2>3
  <2>6. w[m - 1] = W[m - 1]
    BY <2>4, <2>5
  <2>7. w[m] = Step(w)[m] /\ W[m] = Step(W)[m]
    BY <1>3, <1>5
  <2>8. w[m] = W[m]
    <3> HIDE DEF W
    <3> QED
      BY <2>4, <2>6, <2>7
  <2> QED
    BY <2>8
<1>7. {w[n] : n \in D} = {h, t}
  <2>1. {w[n] : n \in D} \subseteq {h, t}
    BY <1>6
  <2>2. w[0] = h /\ w[TxSize] = t
    BY <1>1, <1>6
  <2> QED
    BY <1>1, <2>1, <2>2
<1>8. w[TxSize] = t
  BY <1>1, <1>6
<1>9. Cardinality({h, t}) = 2
  <2>1. IsFiniteSet({h}) /\ Cardinality({h}) = 1
    BY FS_Singleton
  <2>2. Cardinality({h} \union {t}) = Cardinality({h}) + 1
    BY <1>1, <2>1, FS_AddElement
  <2>3. {h} \union {t} = {h, t}
    OBVIOUS
  <2> QED
    BY <2>1, <2>2, <2>3
<1> QED
  BY <1>7, <1>8, <1>9 DEF w

LEMMA TxReclaim ==
  ASSUME TxInv, Records', Reclaim
  PROVE  /\ TxInv' /\ Given' = Given - 1
         /\ \E h \in TxUsed : PutsTwo(tx, tx', h) /\ data' = [data EXCEPT ![h] = NoFrame]
<1> DEFINE h == tx.usedRing[tx.seen % TxSize]
<1> USE DEF TxInv
<1>1. {tx.seen, tx.usedIdx, tx.availIdx, device.seen} \subseteq Indices
      /\ Inc(tx.seen) \in Indices /\ tx.seen # tx.usedIdx
  BY IncIs DEF TxTypes, Reclaim, Returned
<1>2. Given \in 1 .. TxSize /\ Distance(Inc(tx.seen), tx.usedIdx) = Given - 1
  <2>1. Given # 0 /\ Distance(Inc(tx.seen), tx.usedIdx) = Given - 1
    BY <1>1, DistanceMoves DEF Given
  <2> QED
    BY <2>1, TxRoom
<1> DEFINE new == [tx.usedRing EXCEPT ![tx.seen % TxSize] = 0]
<1>3. /\ h \in TxUsed
      /\ new \in [TxDescs -> TxDescs]
      /\ Entries(new, TxSize, Inc(tx.seen), Given - 1) = TxUsed \ {h}
      /\ OnceIn(new, TxSize, Inc(tx.seen), Given - 1)
  <2>1. 0 \in 0 .. TxSize - 1 /\ TxSize \in RingSizes
    BY TxRoom
  <2>2. OnceIn(tx.usedRing, TxSize, tx.seen, Given)
    BY DEF TxOnce
  <2>3. tx.usedRing \in [0 .. TxSize - 1 -> 0 .. TxSize - 1]
    BY DEF TxTypes, TxDescs
  <2> QED
    BY <1>1, <1>2, <2>1, <2>2, <2>3, Popped DEF TxUsed, TxDescs
<1> HIDE DEF h
<1>4. h \in TxHeads /\ h \in TxDescs /\ h \notin device.done /\ h \notin TxAvail
      /\ TxHeads \in SUBSET TxDescs
  BY <1>3, TxRoom, HeadsTyped DEF TxOnce
<1>5. tx.chained[h] /\ ~tx.chained[tx.next[h]] /\ Descriptors(tx)
  BY <1>4 DEF Chained, TxTypes
<1>6. /\ Walk(tx, h)[TxSize] = tx.next[h]
      /\ Cardinality({Walk(tx, h)[n] : n \in 0 .. TxSize}) = 2
  BY <1>4, <1>5, WalkEnds
<1>7. /\ tx'.numFree = tx.numFree + Cardinality({Walk(tx, h)[n] : n \in 0 .. TxSize})
      /\ tx'.next = [tx.next EXCEPT ![Walk(tx, h)[TxSize]] = tx.free]
      /\ tx'.free = h /\ tx'.chained = tx.chained /\ tx'.addr = tx.addr
      /\ tx'.seen = Inc(tx.seen) /\ tx'.usedRing = new /\ tx'.usedIdx = tx.usedIdx
      /\ tx'.availIdx = tx.availIdx /\ tx'.availRing = tx.availRing
      /\ device' = device /\ driver' = driver /\ data' = [data EXCEPT ![h] = NoFrame]
  BY DEF Reclaim, Records, Fields, h
<1>8. PutsTwo(tx, tx', h)
  BY <1>6, <1>7 DEF PutsTwo
<1>9. Given' = Given - 1 /\ ToSee' = ToSee
  BY <1>2, <1>7 DEF Given, ToSee
<1>10. TxUsed' = TxUsed \ {h} /\ TxAvail' = TxAvail /\ TxHeads' = TxHeads \ {h}
  <2>1. TxUsed' = TxUsed \ {h}
    BY <1>3, <1>7, <1>9 DEF TxUsed
  <2>2. TxAvail' = TxAvail
    BY <1>7, <1>9 DEF TxAvail
  <2>3. TxHeads' = TxAvail' \union device'.done \union TxUsed'
    BY DEF TxHeads, TxAvail, TxUsed, ToSee, Given
  <2> QED
    BY <1>4, <1>7, <2>1, <2>2, <2>3, TxRoom
<1>11. Descriptors(tx') /\ Chained(tx', TxHeads') /\ \E g : Shares(tx', TxHeads', g)
  <2>1. PICK f : Shares(tx, TxHeads, f)
    OBVIOUS
  <2>2. Descriptors(tx) /\ Chained(tx, TxHeads) /\ PutsTwo(tx, tx', h)
    BY <1>5, <1>8
  <2>3. TxHeads \in SUBSET TxDescs /\ h \in TxHeads /\ TxHeads' = TxHeads \ {h}
    BY <1>4, <1>10
  <2> QED
    BY <2>1, <2>2, <2>3, PutTwo
<1>12. TxTypes'
  BY <1>1, <1>3, <1>7, <1>11 DEF TxTypes
<1>13. TxCounts'
  BY <1>6, <1>7, <1>9, TxRoom DEF TxCounts, TxTypes, Descriptors
<1>14. TxOnce'
  <2>1. OnceIn(tx'.usedRing, TxSize, tx'.seen, Given')
    BY <1>3, <1>7, <1>9
  <2> QED
    BY <1>7, <1>9, <1>10, <2>1 DEF TxOnce
<1> QED
  BY <1>3, <1>7, <1>8, <1>9, <1>10, <1>11, <1>12, <1>13, <1>14

LEMMA NoEntries ==
  ASSUME NEW ring, NEW size, NEW from
  PROVE  Entries(ring, size, from, 0) = {} /\ OnceIn(ring, size, from, 0)
<1>1. 0 .. 0 - 1 = {}
  OBVIOUS
<1> QED
  BY <1>1 DEF Entries, OnceIn

LEMMA SetupIs ==
  ASSUME NEW size \in Nat \ {0}
  PROVE  /\ DOMAIN Setup(size) = Fields
         /\ Setup(size).free = 0 /\ Setup(size).numFree = size
         /\ Setup(size).seen = 0 /\ Setup(size).usedIdx = 0 /\ Setup(size).availIdx = 0
         /\ Setup(size).next \in [0 .. size - 1 -> 0 .. size - 1]
         /\ \A n \in 0 .. size - 2 : Setup(size).next[n] = n + 1
         /\ Setup(size).chained \in [0 .. size - 1 -> BOOLEAN]
         /\ Setup(size).addr \in [0 .. size - 1 -> 0 .. size - 1]
         /\ Setup(size).availRing \in [0 .. size - 1 -> 0 .. size - 1]
         /\ Setup(size).usedRing \in [0 .. size - 1 -> 0 .. size - 1]
<1> DEFINE S == Setup(size)
<1>1. /\ DOMAIN S = Fields
      /\ S.free = 0 /\ S.numFree = size /\ S.seen = 0 /\ S.usedIdx = 0 /\ S.availIdx = 0
      /\ S.next = [d \in 0 .. size - 1 |-> IF d = size - 1 THEN 0 ELSE d + 1]
      /\ S.chained = [d \in 0 .. size - 1 |-> FALSE]
      /\ S.addr = [d \in 0 .. size - 1 |-> 0]
      /\ S.availRing = [i \in 0 .. size - 1 |-> 0]
      /\ S.usedRing = [i \in 0 .. size - 1 |-> 0]
  BY DEF Setup, Fields
<1> HIDE DEF S
<1>2. 0 \in 0 .. size - 1
  OBVIOUS
<1>3. S.next \in [0 .. size - 1 -> 0 .. size - 1] /\ \A n \in 0 .. size - 2 : S.next[n] = n + 1
  <2>1. \A d \in 0 .. size - 1 :
          (IF d = size - 1 THEN 0 ELSE d + 1) \in 0 .. size - 1
    OBVIOUS
  <2>2. \A n \in 0 .. size - 2 : n \in 0 .. size - 1 /\ n # size - 1
    OBVIOUS
  <2> QED
    BY <1>1, <2>1, <2>2
<1>4. S.chained \in [0 .. size - 1 -> BOOLEAN]
  BY <1>1
<1>5. S.addr \in [0 .. size - 1 -> 0 .. size - 1]
  BY <1>1, <1>2
<1>6. S.availRing \in [0 .. size - 1 -> 0 .. size - 1]
  BY <1>1, <1>2
<1>7. S.usedRing \in [0 .. size - 1 -> 0 .. size - 1]
  BY <1>1, <1>2
<1> QED
  BY <1>1, <1>3, <1>4, <1>5, <1>6, <1>7 DEF S

LEMMA TxInit == Init => TxInv
<1> SUFFICES ASSUME Init PROVE TxInv
  OBVIOUS
<1>1. /\ Wrap \in Nat /\ Wrap > 0 /\ TxSize \in Nat \ {0} /\ RxSize \in Nat \ {0}
      /\ 0 \in Indices /\ 0 \in TxDescs
  BY NetworkAssumption DEF Indices, TxDescs
<1>2. Records
  BY InvInit DEF Inv
<1>3. /\ Descriptors(tx) /\ tx.free = 0 /\ tx.numFree = TxSize
      /\ tx.seen = 0 /\ tx.usedIdx = 0 /\ tx.availIdx = 0
      /\ \A n \in 0 .. TxSize - 2 : tx.next[n] = n + 1
      /\ tx.availRing \in [TxDescs -> TxDescs] /\ tx.usedRing \in [TxDescs -> TxDescs]
  BY <1>1, SetupIs DEF Init, Descriptors, TxDescs
<1>4. device.seen = 0 /\ device.done = {} /\ driver.at = "poll"
  BY DEF Init
<1>5. ToSee = 0 /\ Given = 0
  <2>1. Distance(0, 0) = 0
    BY <1>1, DistanceMoves
  <2> QED
    BY <1>3, <1>4, <2>1 DEF ToSee, Given, One
<1>6. TxHeads = {} /\ TxOnce
  BY <1>3, <1>4, <1>5, NoEntries DEF TxHeads, TxOnce, TxAvail, TxUsed, ToSee, Given
<1>7. TxTypes
  BY <1>1, <1>3, <1>4 DEF TxTypes
<1>8. TxCounts
  <2>1. Distance(0, 0) = 0 /\ Cardinality({}) = 0
    BY <1>1, DistanceMoves, FS_EmptySet
  <2> QED
    BY <1>1, <1>3, <1>4, <1>5, <2>1 DEF TxCounts
<1>9. Chained(tx, {})
  BY DEF Chained
<1> DEFINE f == [n \in 0 .. tx.numFree - 1 |-> n]
<1>10. Shares(tx, {}, f)
  <2>1. f \in [0 .. tx.numFree - 1 -> TxDescs] /\ f[0] = tx.free
    BY <1>1, <1>3 DEF TxDescs
  <2>2. ASSUME NEW n \in 1 .. tx.numFree - 1 PROVE f[n] = tx.next[f[n - 1]]
    <3>1. n - 1 \in 0 .. TxSize - 2 /\ n - 1 \in 0 .. TxSize - 1 /\ n \in 0 .. TxSize - 1
          /\ (n - 1) + 1 = n
      BY <1>1, <1>3
    <3> QED
      BY <1>3, <3>1
  <2>3. \A d \in TxDescs : d \in 0 .. tx.numFree - 1 /\ f[d] = d
    BY <1>3 DEF TxDescs
  <2>4. \A n \in 0 .. tx.numFree - 1 : f[n] = n
    OBVIOUS
  <2> HIDE DEF f
  <2> QED
    BY <2>1, <2>2, <2>3, <2>4 DEF Shares
<1> QED
  BY <1>2, <1>6, <1>7, <1>8, <1>9, <1>10 DEF TxInv

(* The steps that leave the queue of frames to send alone.                  *)
TxIdle ==
  \/ PortEmpty \/ (\E m \in Messages : PortTake(m)) \/ SendFails \/ Flush
  \/ Answer \/ Deliver \/ Discard \/ Recycle \/ Offer \/ ReceiveEnds
  \/ Sleep \/ (\E f \in Frames : Come(f)) \/ Wait

LEMMA TxIdles ==
  ASSUME Records, Types, TxIdle
  PROVE  /\ tx' = tx /\ device'.seen = device.seen /\ device'.done = device.done
         /\ (driver.at # "publish" /\ driver'.at # "publish") \/ driver' = driver
<1>1. CASE PortEmpty \/ SendFails \/ Answer \/ Deliver \/ Discard \/ Recycle \/ Offer
  BY <1>1 DEF Records, PortEmpty, SendFails, Answer, Deliver, Discard, Recycle, Offer, Goto
<1>6. ASSUME NEW m, PortTake(m)
      PROVE  tx' = tx /\ device' = device /\ driver.at # "publish" /\ driver'.at # "publish"
  BY <1>6 DEF Records, PortTake
<1>2. CASE Flush
  BY <1>2 DEF Records, Types, Flush
<1>3. CASE ReceiveEnds
  BY <1>3 DEF Records, ReceiveEnds
<1>4. CASE Sleep \/ Wait
  BY <1>4 DEF Records, Sleep, Wait
<1>5. ASSUME NEW f, Come(f) PROVE tx' = tx /\ device' = device /\ driver' = driver
  BY <1>5 DEF Come
<1> QED
  BY <1>1, <1>2, <1>3, <1>4, <1>5, <1>6 DEF TxIdle

LEMMA TxNext ==
  ASSUME TxInv, Types, [Next]_vars
  PROVE  TxInv'
<1>1. Records /\ Records'
  BY RecordsNext DEF TxInv
<1>2. CASE UNCHANGED vars
  BY <1>1, <1>2, TxSame DEF vars
<1>3. CASE TxIdle
  BY <1>1, <1>3, TxIdles, TxSame
<1>4. CASE Reclaim
  BY <1>1, <1>4, TxReclaim
<1>5. CASE SendFills
  BY <1>1, <1>5, TxFills
<1>6. CASE Publish
  BY <1>1, <1>6, TxPublish
<1>7. CASE Transmit
  BY <1>1, <1>7, TxTransmit
<1>8. CASE \E head \in 0 .. TxSize - 1 : GiveBack(head)
  BY <1>1, <1>8, TxGiveBack
<1> QED
  BY <1>2, <1>3, <1>4, <1>5, <1>6, <1>7, <1>8 DEF Next, Driver, Device, TxIdle

LEMMA TypesNext ==
  ASSUME Records, Types, [Next]_vars
  PROVE  Types'
<1> USE DEF Types
<1>1. CASE UNCHANGED vars
  BY <1>1 DEF vars
<1>2. CASE PortEmpty \/ Reclaim \/ SendFails \/ SendFills \/ Publish \/ Flush
  <2>1. /\ rx' = rx /\ driver'.old = driver.old
        /\ \/ driver'.back = driver.back /\ driver'.at \in {"send", "publish", "flush"}
           \/ driver.at = "poll" /\ driver'.back = driver.back
           \/ driver'.back = "receive"
    BY <1>2 DEF Records, PortEmpty, Reclaim, SendFails, SendFills, Publish, Flush, Goto
  <2> QED
    BY <2>1
<1>3. ASSUME NEW m, PortTake(m) PROVE Types'
  BY <1>3 DEF Records, PortTake
<1>4. CASE Answer \/ Deliver \/ Discard
  BY <1>4 DEF Records, Answer, Deliver, Discard, Goto
<1>5. CASE Recycle
  <2>1. /\ rx'.seen = Inc(rx.seen) /\ rx'.usedIdx = rx.usedIdx /\ rx'.availIdx = rx.availIdx
        /\ driver'.old = driver.old /\ driver'.back = driver.back
        /\ driver.at = "recycle" /\ driver'.at = "offer"
    BY <1>5 DEF Recycle, Freed, UseBuffer, Records, Fields, Goto
  <2> QED
    BY <2>1, IncIs
<1>6. CASE Offer
  <2>1. /\ rx'.seen = rx.seen /\ rx'.usedIdx = rx.usedIdx /\ rx'.availIdx = Inc(rx.availIdx)
        /\ driver'.old = driver.old /\ driver'.back = driver.back
        /\ driver.at = "offer" /\ driver'.at = "receive"
    BY <1>6 DEF Offer, Records, Fields, Goto
  <2> QED
    BY <2>1, IncIs
<1>7. CASE ReceiveEnds
  BY <1>7 DEF Records, ReceiveEnds
<1>8. CASE Transmit \/ Sleep \/ Wait
  BY <1>8 DEF Records, Transmit, Sleep, Wait
<1>9. ASSUME NEW head, GiveBack(head) PROVE Types'
  BY <1>9 DEF Records, GiveBack
<1>10. ASSUME NEW f, Come(f) PROVE Types'
  <2>1. /\ rx'.seen = rx.seen /\ rx'.usedIdx = Inc(rx.usedIdx) /\ rx'.availIdx = rx.availIdx
        /\ driver' = driver
    BY <1>10 DEF Come, Records, Fields
  <2> QED
    BY <2>1, IncIs
<1> QED
  BY <1>1, <1>2, <1>3, <1>4, <1>5, <1>6, <1>7, <1>8, <1>9, <1>10 DEF Next, Driver, Device

--------------------------------------------------------------------------------
(* The queue of buffers into which frames come.  Came and Offered: how many *)
(* the driver has to handle, and how many the device has, with the one      *)
(* about to be offered.                                                    *)
RxDescs == 0 .. RxSize - 1
Came == Distance(rx.seen, rx.usedIdx)
Offered == Distance(rx.usedIdx, rx.availIdx) + One(driver.at = "offer")
RxAvail == Entries(rx.availRing, RxSize, rx.usedIdx, Offered)
RxUsed == Entries(rx.usedRing, RxSize, rx.seen, Came)

RxTypes ==
  /\ rx.next \in [RxDescs -> RxDescs] /\ rx.addr \in [RxDescs -> RxDescs]
  /\ rx.availRing \in [RxDescs -> RxDescs] /\ rx.usedRing \in [RxDescs -> RxDescs]

(* A descriptor freed for a buffer is taken for it again: the free list is   *)
(* what setup_receive_buffers has left.                                    *)
RxFree ==
  /\ rx.free = Buffers % RxSize /\ rx.numFree = RxSize - Buffers
  /\ \A d \in 0 .. Buffers - 1 : rx.addr[d] = d
  /\ \A d \in Buffers .. RxSize - 2 : rx.next[d] = d + 1

RxCounts == Came + Offered = Buffers /\ (Handling => rx.seen # rx.usedIdx)

RxOnce ==
  /\ OnceIn(rx.availRing, RxSize, rx.usedIdx, Offered)
  /\ OnceIn(rx.usedRing, RxSize, rx.seen, Came)
  /\ RxAvail \intersect RxUsed = {}
  /\ RxAvail \union RxUsed = 0 .. Buffers - 1

RxInv == Records /\ Types /\ RxTypes /\ RxFree /\ RxCounts /\ RxOnce

LEMMA RxRoom ==
  ASSUME RxInv
  PROVE  /\ RxSize \in RingSizes /\ RxSize \in Nat \ {0} /\ 0 \in RxDescs
         /\ Wrap \in Nat /\ Buffers \in Nat /\ Buffers <= RxSize /\ Buffers < Wrap
         /\ Came \in Nat /\ Offered \in Nat /\ Came + Offered = Buffers
         /\ Buffers % RxSize \in RxDescs
<1>1. /\ RxSize \in RingSizes /\ RxSize \in Nat \ {0} /\ Wrap \in Nat /\ 0 \in RxDescs
      /\ Buffers \in Nat /\ Buffers <= RxSize /\ Buffers < Wrap
  BY NetworkAssumption, BuffersExist DEF RingSizes, RxDescs
<1>2. /\ Came \in Indices /\ Distance(rx.usedIdx, rx.availIdx) \in Indices
  BY DistanceIs DEF RxInv, Types, Came
<1>3. Came \in Nat /\ Offered \in Nat
  BY <1>1, <1>2 DEF Offered, One, Indices
<1>4. Buffers % RxSize \in RxDescs
  BY <1>1 DEF RxDescs
<1> QED
  BY <1>1, <1>3, <1>4 DEF RxInv, RxCounts

LEMMA RxInit == Init => RxInv
<1> SUFFICES ASSUME Init PROVE RxInv
  OBVIOUS
<1>1. /\ RxSize \in Nat \ {0} /\ 0 \in RxDescs /\ 0 \in Indices /\ Buffers \in Indices
      /\ Buffers \in Nat /\ Buffers <= RxSize /\ 0 < Buffers
  BY NetworkAssumption, BuffersExist DEF Indices, RxDescs
<1>2. Records /\ Types
  BY InvInit DEF Inv
<1>3. /\ rx.seen = 0 /\ rx.usedIdx = 0 /\ rx.availIdx = Buffers
      /\ rx.free = Buffers % RxSize /\ rx.numFree = RxSize - Buffers
      /\ rx.next = Setup(RxSize).next /\ rx.usedRing = Setup(RxSize).usedRing
      /\ rx.addr = [d \in RxDescs |-> IF d < Buffers THEN d ELSE 0]
      /\ rx.availRing = [i \in RxDescs |-> IF i < Buffers THEN i ELSE 0]
  BY <1>1, SetupIs DEF Init, Posted, Fields, RxDescs
<1>4. RxTypes
  <2>1. rx.next \in [RxDescs -> RxDescs] /\ rx.usedRing \in [RxDescs -> RxDescs]
    BY <1>1, <1>3, SetupIs DEF RxDescs
  <2>2. rx.addr \in [RxDescs -> RxDescs]
    BY <1>1, <1>3
  <2>3. rx.availRing \in [RxDescs -> RxDescs]
    BY <1>1, <1>3
  <2> QED
    BY <2>1, <2>2, <2>3 DEF RxTypes
<1>5. RxFree
  <2>1. \A d \in 0 .. Buffers - 1 : d \in RxDescs /\ d < Buffers
    BY <1>1 DEF RxDescs
  <2>2. \A d \in Buffers .. RxSize - 2 : d \in 0 .. RxSize - 2
    BY <1>1
  <2>3. \A d \in 0 .. RxSize - 2 : rx.next[d] = d + 1
    BY <1>1, <1>3, SetupIs
  <2>4. \A d \in 0 .. Buffers - 1 : rx.addr[d] = d
    BY <1>3, <2>1
  <2> QED
    BY <1>3, <2>2, <2>3, <2>4 DEF RxFree
<1>6. driver.at = "poll" /\ driver.back = "receive"
  BY DEF Init
<1>7. Came = 0 /\ Offered = Buffers
  <2>1. Distance(0, 0) = 0 /\ Distance(0, Buffers) = Buffers
    BY <1>1, DistanceIs DEF Indices
  <2> QED
    BY <1>1, <1>3, <1>6, <2>1 DEF Came, Offered, One
<1>8. RxCounts
  BY <1>1, <1>6, <1>7 DEF RxCounts, Handling
<1>9. RxUsed = {} /\ OnceIn(rx.usedRing, RxSize, rx.seen, Came)
  BY <1>7, NoEntries DEF RxUsed
<1>10. \A n \in 0 .. Buffers - 1 : rx.availRing[(0 + n) % RxSize] = n
  <2> TAKE n \in 0 .. Buffers - 1
  <2>1. (0 + n) % RxSize = n /\ n \in RxDescs /\ n < Buffers
    BY <1>1 DEF RxDescs
  <2> QED
    BY <1>3, <2>1
<1>11. RxAvail = 0 .. Buffers - 1 /\ OnceIn(rx.availRing, RxSize, rx.usedIdx, Offered)
  BY <1>3, <1>7, <1>10 DEF RxAvail, Entries, OnceIn
<1> QED
  BY <1>2, <1>4, <1>5, <1>8, <1>9, <1>11 DEF RxInv, RxOnce

(* The driver and the device do something else.                             *)
LEMMA RxSame ==
  ASSUME RxInv, Records', Types', rx' = rx,
         (driver'.at = "offer") = (driver.at = "offer"),
         Handling' => Handling \/ rx.seen # rx.usedIdx
  PROVE  RxInv'
BY DEF RxInv, RxTypes, RxFree, RxCounts, RxOnce, RxAvail, RxUsed, Came, Offered

(* Recycle: the descriptor goes from the entries used to the entries that   *)
(* are about to be offered.                                                *)
Recycled(d) ==
  /\ rx'.free = rx.free /\ rx'.numFree = rx.numFree
  /\ rx'.next = [rx.next EXCEPT ![d] = rx.free]
  /\ rx'.addr = [rx.addr EXCEPT ![d] = rx.addr[d]]
  /\ rx'.availRing = [rx.availRing EXCEPT ![rx.availIdx % RxSize] = d]
  /\ rx'.usedRing = [rx.usedRing EXCEPT ![rx.seen % RxSize] = 0]
  /\ rx'.seen = Inc(rx.seen) /\ rx'.usedIdx = rx.usedIdx /\ rx'.availIdx = rx.availIdx

LEMMA RecycleIs ==
  ASSUME RxInv, Recycle, CameDesc \in RxDescs
  PROVE  /\ Recycled(CameDesc) /\ packets' = [packets EXCEPT ![rx.addr[CameDesc]] = NoFrame]
         /\ driver.at = "recycle" /\ driver.back = "receive"
         /\ driver'.at = "offer" /\ driver'.back = "receive"
<1> DEFINE d == CameDesc
           F == Freed(rx, d)
           U == UseBuffer(F, rx.addr[d])
<1>1. RxSize \in Nat \ {0} /\ rx.numFree \in Nat /\ DOMAIN rx = Fields
      /\ rx.next \in [RxDescs -> RxDescs]
  BY RxRoom DEF RxInv, RxFree, Records, RxTypes
<1>2. /\ DOMAIN F = Fields /\ F.numFree = rx.numFree + 1 /\ F.free = d
      /\ F.next = [rx.next EXCEPT ![d] = rx.free] /\ F.addr = rx.addr
      /\ F.availRing = rx.availRing /\ F.availIdx = rx.availIdx
      /\ F.usedRing = rx.usedRing /\ F.usedIdx = rx.usedIdx /\ F.seen = rx.seen
  BY <1>1 DEF Freed, Fields
<1>3. F.next[F.free] = rx.free /\ ~(F.numFree < 1) /\ F.numFree - 1 = rx.numFree
  BY <1>1, <1>2
<1> HIDE DEF F
<1>4. U = [F EXCEPT !.numFree = @ - 1, !.free = F.next[F.free], !.addr[F.free] = rx.addr[d],
                    !.availRing[F.availIdx % RxSize] = F.free]
  BY <1>3 DEF UseBuffer
<1> HIDE DEF U
<1>5. /\ DOMAIN U = Fields /\ U.numFree = rx.numFree /\ U.free = rx.free
      /\ U.next = [rx.next EXCEPT ![d] = rx.free]
      /\ U.addr = [rx.addr EXCEPT ![d] = rx.addr[d]]
      /\ U.availRing = [rx.availRing EXCEPT ![rx.availIdx % RxSize] = d]
      /\ U.availIdx = rx.availIdx
      /\ U.usedRing = rx.usedRing /\ U.usedIdx = rx.usedIdx /\ U.seen = rx.seen
  BY <1>2, <1>3, <1>4 DEF Fields
<1>6. rx' = [U EXCEPT !.seen = Inc(@), !.usedRing[rx.seen % RxSize] = 0]
  BY DEF Recycle, U, F
<1>7. Recycled(d)
  BY <1>5, <1>6 DEF Recycled, Fields
<1>8. /\ driver.at = "recycle" /\ driver.back = "receive"
      /\ driver'.at = "offer" /\ driver'.back = "receive"
  BY DEF Recycle, Goto, RxInv, Records, Types
<1> QED
  BY <1>7, <1>8 DEF Recycle

LEMMA RxRecycle ==
  ASSUME RxInv, Records', Types', Recycle
  PROVE  /\ RxInv' /\ Came \in 1 .. Buffers /\ Came' = Came - 1 /\ Offered' = Offered + 1
         /\ CameDesc \in 0 .. Buffers - 1
         /\ rx'.addr = rx.addr /\ packets' = [packets EXCEPT ![CameDesc] = NoFrame]
         /\ \A n \in 0 .. Came - 2 :
              rx'.usedRing[(rx'.seen + n) % RxSize] = rx.usedRing[(rx.seen + (n + 1)) % RxSize]
<1> DEFINE d == CameDesc
<1> USE DEF RxInv
<1>1. /\ {rx.seen, rx.usedIdx, rx.availIdx, Inc(rx.seen)} \subseteq Indices
      /\ rx.seen # rx.usedIdx
      /\ rx.usedRing \in [0 .. RxSize - 1 -> 0 .. RxSize - 1]
      /\ rx.availRing \in [0 .. RxSize - 1 -> 0 .. RxSize - 1]
  BY IncIs DEF Types, RxTypes, RxDescs, RxCounts, Handling, Recycle
<1>2. /\ Distance(Inc(rx.seen), rx.usedIdx) = Came - 1 /\ Came # 0
  BY <1>1, DistanceMoves DEF Came
<1>3. Came \in 1 .. Buffers /\ Came \in 1 .. RxSize /\ Offered \in 0 .. RxSize - 1
  BY <1>2, RxRoom
<1> DEFINE new == [rx.usedRing EXCEPT ![rx.seen % RxSize] = 0]
<1>4. /\ d \in RxUsed
      /\ new \in [0 .. RxSize - 1 -> 0 .. RxSize - 1]
      /\ Entries(new, RxSize, Inc(rx.seen), Came - 1) = RxUsed \ {d}
      /\ OnceIn(new, RxSize, Inc(rx.seen), Came - 1)
      /\ \A n \in 0 .. Came - 2 :
           new[(Inc(rx.seen) + n) % RxSize] = rx.usedRing[(rx.seen + (n + 1)) % RxSize]
  <2>1. 0 \in 0 .. RxSize - 1 /\ RxSize \in RingSizes
    BY RxRoom DEF RxDescs
  <2>2. OnceIn(rx.usedRing, RxSize, rx.seen, Came)
    BY DEF RxOnce
  <2> QED
    BY <1>1, <1>3, <2>1, <2>2, Popped DEF RxUsed, CameDesc
<1>5. d \in 0 .. Buffers - 1 /\ d \notin RxAvail /\ d \in RxDescs
  <2>1. d \in 0 .. Buffers - 1 /\ d \notin RxAvail
    BY <1>4 DEF RxOnce
  <2> QED
    BY <2>1, RxRoom DEF RxDescs
<1>6. /\ Recycled(d) /\ packets' = [packets EXCEPT ![rx.addr[d]] = NoFrame]
      /\ driver.at = "recycle" /\ driver.back = "receive"
      /\ driver'.at = "offer" /\ driver'.back = "receive"
  BY <1>5, RecycleIs
<1> HIDE DEF d
<1>7. Came' = Came - 1
  BY <1>2, <1>6 DEF Came, Recycled
<1>8. Offered = Distance(rx.usedIdx, rx.availIdx) /\ Offered' = Offered + 1
  <2>1. Distance(rx.usedIdx, rx.availIdx) \in Nat
    <3>1. Distance(rx.usedIdx, rx.availIdx) \in Indices
      BY <1>1, DistanceIs
    <3> QED
      BY <3>1, RxRoom DEF Indices
  <2> QED
    BY <1>6, <2>1 DEF Offered, One, Recycled
<1>9. rx.addr[d] = d /\ rx'.addr = rx.addr
  BY <1>5, <1>6 DEF RxFree, RxTypes, Recycled
<1>10. /\ rx'.availRing \in [0 .. RxSize - 1 -> 0 .. RxSize - 1]
       /\ Entries(rx'.availRing, RxSize, rx.usedIdx, Offered + 1) = RxAvail \union {d}
       /\ OnceIn(rx'.availRing, RxSize, rx.usedIdx, Offered + 1)
  <2>1. RxSize \in RingSizes /\ rx.availIdx % RxSize = (rx.usedIdx + Offered) % RxSize
    BY <1>1, <1>8, RxRoom, PlaceOf
  <2>2. OnceIn(rx.availRing, RxSize, rx.usedIdx, Offered)
    BY DEF RxOnce
  <2>3. /\ Written(rx'.availRing, rx.availRing, (rx.usedIdx + Offered) % RxSize, d)
        /\ d \in 0 .. RxSize - 1 /\ rx.usedIdx \in Indices
        /\ d \notin Entries(rx.availRing, RxSize, rx.usedIdx, Offered)
    BY <1>1, <1>5, <1>6, <2>1 DEF RxAvail, RxDescs, Written, Recycled
  <2> QED
    BY <1>1, <1>3, <2>1, <2>2, <2>3, Pushed DEF RxAvail
<1>11. RxAvail' = RxAvail \union {d} /\ RxUsed' = RxUsed \ {d}
  BY <1>4, <1>6, <1>7, <1>8, <1>10 DEF RxAvail, RxUsed, Recycled
<1>12. RxOnce'
  <2>1. /\ OnceIn(rx'.availRing, RxSize, rx'.usedIdx, Offered')
        /\ OnceIn(rx'.usedRing, RxSize, rx'.seen, Came')
    BY <1>4, <1>6, <1>7, <1>8, <1>10 DEF Recycled
  <2>2. RxAvail' \intersect RxUsed' = {} /\ RxAvail' \union RxUsed' = 0 .. Buffers - 1
    BY <1>4, <1>11 DEF RxOnce
  <2> QED
    BY <2>1, <2>2 DEF RxOnce
<1>13. RxTypes'
  <2>1. rx'.next \in [RxDescs -> RxDescs]
    BY <1>5, <1>6, RxRoom DEF RxFree, RxTypes, Recycled
  <2> QED
    BY <1>4, <1>6, <1>9, <1>10, <2>1 DEF RxTypes, RxDescs, Recycled
<1>14. RxFree'
  <2>1. ASSUME NEW n \in Buffers .. RxSize - 2 PROVE rx'.next[n] = n + 1
    <3>1. n # d /\ n \in RxDescs
      BY <1>5, RxRoom DEF RxDescs
    <3> QED
      BY <1>6, <3>1 DEF RxFree, RxTypes, Recycled
  <2> QED
    BY <1>6, <1>9, <2>1 DEF RxFree, Recycled
<1>15. RxCounts'
  BY <1>3, <1>6, <1>7, <1>8 DEF RxCounts, Handling
<1>16. \A n \in 0 .. Came - 2 :
         rx'.usedRing[(rx'.seen + n) % RxSize] = rx.usedRing[(rx.seen + (n + 1)) % RxSize]
  BY <1>4, <1>6 DEF Recycled
<1> QED
  BY <1>3, <1>5, <1>6, <1>7, <1>8, <1>9, <1>12, <1>13, <1>14, <1>15, <1>16 DEF d

LEMMA RxOffer ==
  ASSUME RxInv, Records', Types', Offer
  PROVE  RxInv' /\ Came' = Came /\ Offered' = Offered
<1> USE DEF RxInv
<1>1. /\ rx'.seen = rx.seen /\ rx'.usedIdx = rx.usedIdx /\ rx'.availIdx = Inc(rx.availIdx)
      /\ rx'.free = rx.free /\ rx'.numFree = rx.numFree
      /\ rx'.next = rx.next /\ rx'.addr = rx.addr
      /\ rx'.availRing = rx.availRing /\ rx'.usedRing = rx.usedRing
      /\ driver.at = "offer" /\ driver.back = "receive"
      /\ driver'.at = "receive" /\ driver'.back = "receive"
  BY DEF Offer, Goto, Records, Fields, Types
<1>2. {rx.seen, rx.usedIdx, rx.availIdx} \subseteq Indices
  BY DEF Types
<1>3. Came' = Came /\ Offered' = Offered
  <2>1. Offered = Distance(rx.usedIdx, rx.availIdx) + 1
        /\ Distance(rx.usedIdx, rx.availIdx) \in Nat
    BY <1>1, <1>2, DistanceIs DEF Offered, One, Indices
  <2>2. Distance(rx.usedIdx, rx.availIdx) < Wrap - 1
    BY <2>1, RxRoom
  <2>3. Distance(rx.usedIdx, Inc(rx.availIdx)) = Distance(rx.usedIdx, rx.availIdx) + 1
    BY <1>2, <2>2, DistanceMoves
  <2> QED
    BY <1>1, <2>1, <2>3 DEF Came, Offered, One
<1>4. RxAvail' = RxAvail /\ RxUsed' = RxUsed
  BY <1>1, <1>3 DEF RxAvail, RxUsed
<1>5. RxTypes' /\ RxFree' /\ RxOnce'
  BY <1>1, <1>3, <1>4 DEF RxTypes, RxFree, RxOnce
<1>6. RxCounts'
  BY <1>1, <1>3 DEF RxCounts, Handling
<1> QED
  BY <1>3, <1>5, <1>6

LEMMA RxCome ==
  ASSUME RxInv, Records', Types', NEW f, Come(f)
  PROVE  /\ RxInv' /\ Came' = Came + 1 /\ Offered \in 1 .. Buffers /\ Offered' = Offered - 1
         /\ Came < RxSize
         /\ \A n \in 0 .. Came - 1 :
              rx'.usedRing[(rx.seen + n) % RxSize] = rx.usedRing[(rx.seen + n) % RxSize]
         /\ \E d \in RxAvail : /\ rx'.usedRing[(rx.seen + Came) % RxSize] = d
                              /\ packets' = [packets EXCEPT ![d] = f]
         /\ rx'.addr = rx.addr /\ rx'.seen = rx.seen /\ driver' = driver
<1> DEFINE d == rx.availRing[rx.usedIdx % RxSize]
<1> USE DEF RxInv
<1>1. /\ rx'.seen = rx.seen /\ rx'.usedIdx = Inc(rx.usedIdx) /\ rx'.availIdx = rx.availIdx
      /\ rx'.free = rx.free /\ rx'.numFree = rx.numFree
      /\ rx'.next = rx.next /\ rx'.addr = rx.addr
      /\ rx'.availRing = [rx.availRing EXCEPT ![rx.usedIdx % RxSize] = 0]
      /\ rx'.usedRing = [rx.usedRing EXCEPT ![rx.usedIdx % RxSize] = d]
      /\ driver' = driver /\ rx.usedIdx # rx.availIdx
      /\ packets' = [packets EXCEPT ![rx.addr[d]] = f]
  BY DEF Come, Records, Fields
<1>2. /\ {rx.seen, rx.usedIdx, rx.availIdx, Inc(rx.usedIdx)} \subseteq Indices
      /\ rx.usedRing \in [0 .. RxSize - 1 -> 0 .. RxSize - 1]
      /\ rx.availRing \in [0 .. RxSize - 1 -> 0 .. RxSize - 1]
  BY IncIs DEF Types, RxTypes, RxDescs
<1>3. /\ Offered \in 1 .. Buffers /\ Offered \in 1 .. RxSize /\ Came \in 0 .. RxSize - 1
      /\ Offered' = Offered - 1
  <2>1. /\ Distance(Inc(rx.usedIdx), rx.availIdx) = Distance(rx.usedIdx, rx.availIdx) - 1
        /\ Distance(rx.usedIdx, rx.availIdx) # 0
    BY <1>1, <1>2, DistanceMoves
  <2>2. Distance(rx.usedIdx, rx.availIdx) \in Indices
    BY <1>2, DistanceIs
  <2>3. Distance(rx.usedIdx, rx.availIdx) \in Nat
    BY <2>2, RxRoom DEF Indices
  <2>4. Offered >= 1 /\ Offered' = Offered - 1
    BY <1>1, <2>1, <2>3 DEF Offered, One
  <2> QED
    BY <2>4, RxRoom
<1>4. Came' = Came + 1
  <2>1. Came < Wrap - 1
    BY <1>3, RxRoom
  <2>2. Distance(rx.seen, Inc(rx.usedIdx)) = Came + 1
    BY <1>2, <2>1, DistanceMoves DEF Came
  <2> QED
    BY <1>1, <2>2 DEF Came
<1>5. /\ d \in RxAvail
      /\ rx'.availRing \in [0 .. RxSize - 1 -> 0 .. RxSize - 1]
      /\ Entries(rx'.availRing, RxSize, Inc(rx.usedIdx), Offered - 1) = RxAvail \ {d}
      /\ OnceIn(rx'.availRing, RxSize, Inc(rx.usedIdx), Offered - 1)
  <2>1. 0 \in 0 .. RxSize - 1 /\ RxSize \in RingSizes
    BY RxRoom DEF RxDescs
  <2>2. OnceIn(rx.availRing, RxSize, rx.usedIdx, Offered)
    BY DEF RxOnce
  <2> QED
    BY <1>1, <1>2, <1>3, <2>1, <2>2, Popped DEF RxAvail
<1>6. d \in 0 .. Buffers - 1 /\ d \notin RxUsed /\ d \in 0 .. RxSize - 1 /\ rx.addr[d] = d
  <2>1. d \in 0 .. Buffers - 1 /\ d \notin RxUsed
    BY <1>5 DEF RxOnce
  <2> QED
    BY <2>1, RxRoom DEF RxFree
<1> HIDE DEF d
<1>7. /\ rx'.usedRing \in [0 .. RxSize - 1 -> 0 .. RxSize - 1]
      /\ rx'.usedRing[(rx.seen + Came) % RxSize] = d
      /\ \A n \in 0 .. Came - 1 :
           rx'.usedRing[(rx.seen + n) % RxSize] = rx.usedRing[(rx.seen + n) % RxSize]
      /\ Entries(rx'.usedRing, RxSize, rx.seen, Came + 1) = RxUsed \union {d}
      /\ OnceIn(rx'.usedRing, RxSize, rx.seen, Came + 1)
  <2>1. RxSize \in RingSizes /\ rx.usedIdx % RxSize = (rx.seen + Came) % RxSize
    BY <1>2, RxRoom, PlaceOf DEF Came
  <2>2. OnceIn(rx.usedRing, RxSize, rx.seen, Came)
    BY DEF RxOnce
  <2>3. /\ Written(rx'.usedRing, rx.usedRing, (rx.seen + Came) % RxSize, d)
        /\ rx.seen \in Indices /\ d \notin Entries(rx.usedRing, RxSize, rx.seen, Came)
    BY <1>1, <1>2, <1>6, <2>1 DEF RxUsed, Written
  <2> QED
    BY <1>2, <1>3, <1>6, <2>1, <2>2, <2>3, Pushed DEF RxUsed
<1>8. RxAvail' = RxAvail \ {d} /\ RxUsed' = RxUsed \union {d}
  BY <1>1, <1>3, <1>4, <1>5, <1>7 DEF RxAvail, RxUsed
<1>9. RxOnce'
  <2>1. /\ OnceIn(rx'.availRing, RxSize, rx'.usedIdx, Offered')
        /\ OnceIn(rx'.usedRing, RxSize, rx'.seen, Came')
    BY <1>1, <1>3, <1>4, <1>5, <1>7
  <2>2. RxAvail' \intersect RxUsed' = {} /\ RxAvail' \union RxUsed' = 0 .. Buffers - 1
    BY <1>5, <1>8 DEF RxOnce
  <2> QED
    BY <2>1, <2>2 DEF RxOnce
<1>10. RxTypes' /\ RxFree'
  BY <1>1, <1>5, <1>7 DEF RxTypes, RxFree, RxDescs
<1>11. RxCounts'
  <2>1. Distance(rx.seen, Inc(rx.usedIdx)) # 0
    BY <1>1, <1>3, <1>4 DEF Came
  <2>2. rx.seen # Inc(rx.usedIdx)
    BY <1>2, <2>1, DistanceMoves
  <2> QED
    BY <1>1, <1>3, <1>4, <2>2, RxRoom DEF RxCounts
<1>12. \E e \in RxAvail : /\ rx'.usedRing[(rx.seen + Came) % RxSize] = e
                          /\ packets' = [packets EXCEPT ![e] = f]
  BY <1>1, <1>5, <1>6, <1>7
<1>13. RxInv'
  BY <1>9, <1>10, <1>11
<1>14. Came < RxSize
  BY <1>3, RxRoom
<1> QED
  BY <1>1, <1>3, <1>4, <1>7, <1>12, <1>13, <1>14, Zenon

LEMMA RxNext ==
  ASSUME RxInv, [Next]_vars
  PROVE  RxInv'
<1>1. Records /\ Types /\ Records' /\ Types'
  BY RecordsNext, TypesNext DEF RxInv
<1>2. CASE UNCHANGED vars
  BY <1>1, <1>2, RxSame DEF vars, Handling
<1>3. CASE PortEmpty \/ Reclaim \/ SendFails \/ SendFills \/ Publish \/ Flush \/ ReceiveEnds
           \/ Transmit \/ Sleep \/ Wait
  <2>1. /\ rx' = rx
        /\ (driver'.at = "offer") = (driver.at = "offer")
        /\ Handling' => Handling
    BY <1>1, <1>3 DEF Records, Types, Handling, PortEmpty, Reclaim, SendFails, SendFills, Publish,
                      Flush, ReceiveEnds, Transmit, Sleep, Wait, Goto
  <2> QED
    BY <1>1, <2>1, RxSame
<1>4. ASSUME NEW m, PortTake(m) PROVE RxInv'
  <2>1. /\ rx' = rx
        /\ (driver'.at = "offer") = (driver.at = "offer")
        /\ Handling' => Handling
    BY <1>1, <1>4 DEF Records, Types, Handling, PortTake
  <2> QED
    BY <1>1, <2>1, RxSame
<1>5. ASSUME NEW head, GiveBack(head) PROVE RxInv'
  BY <1>1, <1>5, RxSame DEF GiveBack, Handling
<1>6. CASE Answer \/ Deliver \/ Discard
  <2>1. /\ rx' = rx /\ rx.seen # rx.usedIdx
        /\ (driver'.at = "offer") = (driver.at = "offer")
    BY <1>1, <1>6 DEF Records, CameUsed, Answer, Deliver, Discard, Goto
  <2> QED
    BY <1>1, <2>1, RxSame
<1>7. CASE Recycle
  BY <1>1, <1>7, RxRecycle
<1>8. CASE Offer
  BY <1>1, <1>8, RxOffer
<1>9. ASSUME NEW f, Come(f) PROVE RxInv'
  BY <1>1, <1>9, RxCome
<1> QED
  BY <1>2, <1>3, <1>4, <1>5, <1>6, <1>7, <1>8, <1>9 DEF Next, Driver, Device

--------------------------------------------------------------------------------
(* The shares of the free list, of the heads and of the tails.              *)
Members(f, k) == {f[n] : n \in 0 .. k - 1}

Distinct(f, k) == \A m, n \in 0 .. k - 1 : m # n => f[m] # f[n]

LEMMA CountList ==
  ASSUME NEW k \in Nat, NEW f, Distinct(f, k)
  PROVE  IsFiniteSet(Members(f, k)) /\ Cardinality(Members(f, k)) = k
<1> DEFINE D == 0 .. k - 1
           T == {f[n] : n \in D}
           g == [n \in D |-> f[n]]
<1>1. IsFiniteSet(D) /\ Cardinality(D) = k
  BY FS_Interval
<1>2. g \in Bijection(D, T)
  BY DEF Bijection, Injection, Surjection, IsInjective, Distinct
<1>3. ExistsBijection(D, T)
  BY <1>2 DEF ExistsBijection
<1>4. IsFiniteSet(T) /\ Cardinality(T) = Cardinality(D)
  BY <1>1, <1>3, FS_Bijection
<1> QED
  BY <1>1, <1>4 DEF Members

(* The free list of the model is the one of the invariant.                  *)
Listed(q, k, f) ==
  /\ q.numFree = k /\ f = [n \in 0 .. k - 1 |-> f[n]]
  /\ k > 0 => f[0] = q.free
  /\ \A n \in 1 .. k - 1 : f[n] = q.next[f[n - 1]]

LEMMA FreeListIs ==
  ASSUME NEW q, NEW k \in Nat, NEW f, Listed(q, k, f)
  PROVE  FreeList(q) = Members(f, k)
<1> DEFINE D == 0 .. k - 1
           Step(c) == [n \in D |-> IF n = 0 THEN q.free ELSE q.next[c[n - 1]]]
<1>1. \A n \in D : n = 0 \/ (n # 0 /\ n \in 1 .. k - 1 /\ n - 1 \in D)
  OBVIOUS
<1>2. f = Step(f)
  <2>1. ASSUME NEW n \in D PROVE f[n] = IF n = 0 THEN q.free ELSE q.next[f[n - 1]]
    BY <1>1 DEF Listed
  <2> QED
    BY <2>1 DEF Listed
<1>3. FreeChain(q) = CHOOSE c : c = Step(c)
  BY DEF FreeChain, Listed
<1> DEFINE c == FreeChain(q)
<1> HIDE DEF c
<1>4. c = Step(c)
  <2> HIDE DEF Step
  <2> QED
    BY <1>2, <1>3, Zenon DEF c
<1>5. \A n \in D : c[n] = f[n]
  <2> DEFINE S == {n \in D : c[n] # f[n]}
  <2>1. SUFFICES ASSUME S # {} PROVE FALSE
    OBVIOUS
  <2>2. S \in SUBSET Nat
    OBVIOUS
  <2>3. PICK m \in S : \A j \in S : m <= j
    <3> HIDE DEF S
    <3> QED
      BY <2>1, <2>2, Least
  <2>4. m \in D /\ c[m] # f[m]
    OBVIOUS
  <2>5. c[m] = (IF m = 0 THEN q.free ELSE q.next[c[m - 1]])
        /\ f[m] = (IF m = 0 THEN q.free ELSE q.next[f[m - 1]])
    BY <1>2, <1>4, <2>4
  <2>6. m # 0 /\ m - 1 \in D
    BY <1>1, <2>4, <2>5
  <2>7. m - 1 \notin S
    BY <2>2, <2>3
  <2> QED
    BY <2>4, <2>5, <2>6, <2>7
<1>6. FreeList(q) = {c[n] : n \in D}
  BY DEF FreeList, c, Listed
<1> QED
  BY <1>5, <1>6 DEF Members

(* A frame has as many tails as heads, and the heads of a stretch are as     *)
(* many as it is long.                                                     *)
LEMMA EntriesCount ==
  ASSUME NEW size \in RingSizes, NEW i \in Indices, NEW count \in 0 .. size,
         NEW ring \in [0 .. size - 1 -> 0 .. size - 1], OnceIn(ring, size, i, count)
  PROVE  /\ IsFiniteSet(Entries(ring, size, i, count))
         /\ Cardinality(Entries(ring, size, i, count)) = count
<1> DEFINE f == [n \in 0 .. count - 1 |-> ring[(i + n) % size]]
<1>1. size \in Nat \ {0} /\ i \in Nat /\ count \in Nat
  BY RingSizesOK, NetworkAssumption DEF Indices
<1>2. Distinct(f, count)
  BY DEF OnceIn, Distinct
<1>3. Entries(ring, size, i, count) = Members(f, count)
  BY DEF Entries, Members
<1> HIDE DEF f
<1>4. IsFiniteSet(Members(f, count)) /\ Cardinality(Members(f, count)) = count
  BY <1>1, <1>2, CountList
<1> QED
  BY <1>3, <1>4

(* The two stretches of a queue and what the device holds, together.        *)
LEMMA CountParts ==
  ASSUME NEW A, NEW B, NEW C, IsFiniteSet(A), IsFiniteSet(B), IsFiniteSet(C),
         A \intersect B = {}, A \intersect C = {}, B \intersect C = {}
  PROVE  Cardinality(A \union B \union C) = Cardinality(A) + Cardinality(B) + Cardinality(C)
<1>1. /\ Cardinality(A) \in Nat /\ Cardinality(B) \in Nat /\ Cardinality(C) \in Nat
      /\ Cardinality({}) = 0
  BY FS_CardinalityType, FS_EmptySet
<1>2. /\ IsFiniteSet(A \union B)
      /\ Cardinality(A \union B) = Cardinality(A) + Cardinality(B) - Cardinality(A \intersect B)
  BY FS_Union
<1> DEFINE D == A \union B
<1>3. Cardinality(D) = Cardinality(A) + Cardinality(B)
  <2>1. Cardinality(A \intersect B) = 0
    BY <1>1
  <2> QED
    BY <1>1, <1>2, <2>1
<1>4. IsFiniteSet(D) /\ D \intersect C = {}
  BY <1>2
<1> HIDE DEF D
<1>5. Cardinality(D \union C) = Cardinality(D) + Cardinality(C) - Cardinality(D \intersect C)
  BY <1>4, FS_Union
<1>6. Cardinality(D \union C) = Cardinality(D) + Cardinality(C)
  <2>1. Cardinality(D) \in Nat
    BY <1>1, <1>3
  <2>2. Cardinality(D \intersect C) = 0
    BY <1>1, <1>4, Zenon
  <2> DEFINE u == Cardinality(D \union C)
             i == Cardinality(D \intersect C)
  <2>3. u = Cardinality(D) + Cardinality(C) - i /\ i = 0
    BY <1>5, <2>2
  <2> HIDE DEF u, i
  <2>4. u = Cardinality(D) + Cardinality(C)
    BY <1>1, <2>1, <2>3
  <2> QED
    BY <2>4 DEF u
<1> QED
  BY <1>3, <1>6, Zenon DEF D

LEMMA TxKept ==
  ASSUME TxInv
  PROVE  LET free == FreeList(tx)
             tails == {tx.next[h] : h \in TxHeads}
         IN  /\ free \union TxHeads \union tails = 0 .. TxSize - 1
             /\ Cardinality(free) = tx.numFree
             /\ Cardinality(TxHeads) =
                  Distance(tx.seen, tx.availIdx) + One(driver.at = "publish")
             /\ tx.numFree + 2 * Cardinality(TxHeads) = TxSize
<1> DEFINE free == FreeList(tx)
           tails == {tx.next[h] : h \in TxHeads}
           N == tx.numFree
<1> USE DEF TxInv
<1>1. /\ TxHeads \in SUBSET TxDescs /\ TxSize \in Nat \ {0} /\ N \in Nat
      /\ tx.next \in [TxDescs -> TxDescs] /\ IsFiniteSet(TxDescs)
      /\ {tx.seen, tx.usedIdx, tx.availIdx, device.seen} \subseteq Indices
  <2>1. TxSize \in Nat \ {0}
    BY TxRoom
  <2>2. IsFiniteSet(TxDescs)
    BY <2>1, FS_Interval DEF TxDescs
  <2> QED
    BY <2>1, <2>2, HeadsTyped DEF TxTypes, Descriptors
<1>2. PICK f : Shares(tx, TxHeads, f)
  OBVIOUS
<1>3. \A n \in 0 .. N - 1 : f[n] \in TxDescs
  BY <1>2 DEF Shares
<1>4. free = Members(f, N)
  <2>1. Listed(tx, N, f)
    BY <1>2 DEF Shares, Listed
  <2> QED
    BY <1>1, <2>1, FreeListIs
<1>5. Cardinality(free) = N
  <2>1. Distinct(f, N)
    BY <1>2 DEF Shares, Distinct
  <2> QED
    BY <1>1, <1>4, <2>1, CountList
<1>6. free \union TxHeads \union tails = TxDescs
  <2>1. free \subseteq TxDescs /\ tails \subseteq TxDescs
    BY <1>1, <1>3, <1>4 DEF Members
  <2>2. ASSUME NEW d \in TxDescs PROVE d \in free \union TxHeads \union tails
    BY <1>2, <1>4 DEF Shares, Members
  <2> QED
    BY <1>1, <2>1, <2>2
<1>7. Cardinality(TxHeads) = Given + Cardinality(device.done) + ToSee
  <2>1. /\ TxSize \in RingSizes /\ ToSee \in 0 .. TxSize /\ Given \in 0 .. TxSize
        /\ IsFiniteSet(device.done) /\ Cardinality(device.done) \in Nat
        /\ TxHeads = TxAvail \union device.done \union TxUsed
    BY TxRoom
  <2>2. /\ tx.availRing \in [0 .. TxSize - 1 -> 0 .. TxSize - 1]
        /\ tx.usedRing \in [0 .. TxSize - 1 -> 0 .. TxSize - 1]
        /\ OnceIn(tx.availRing, TxSize, device.seen, ToSee)
        /\ OnceIn(tx.usedRing, TxSize, tx.seen, Given)
        /\ device.seen \in Indices /\ tx.seen \in Indices
    BY <1>1 DEF TxTypes, TxOnce, TxDescs
  <2>3. IsFiniteSet(TxAvail) /\ Cardinality(TxAvail) = ToSee
    BY <2>1, <2>2, EntriesCount DEF TxAvail
  <2>4. IsFiniteSet(TxUsed) /\ Cardinality(TxUsed) = Given
    BY <2>1, <2>2, EntriesCount DEF TxUsed
  <2>5. /\ TxAvail \intersect device.done = {} /\ TxAvail \intersect TxUsed = {}
        /\ device.done \intersect TxUsed = {}
    BY DEF TxOnce
  <2>6. Cardinality(TxAvail \union device.done \union TxUsed) =
          Cardinality(TxAvail) + Cardinality(device.done) + Cardinality(TxUsed)
    BY <2>1, <2>3, <2>4, <2>5, CountParts
  <2> QED
    BY <2>1, <2>3, <2>4, <2>6
<1>8. Distance(tx.seen, tx.availIdx) + One(driver.at = "publish") =
        Given + Cardinality(device.done) + ToSee
  <2> DEFINE s == tx.seen
             u == tx.usedIdx
             e == device.seen
             a == tx.availIdx
  <2>1. /\ Given = Distance(s, u) /\ Cardinality(device.done) = Distance(u, e)
        /\ ToSee = Distance(e, a) + One(driver.at = "publish")
    BY DEF TxCounts, Given, ToSee
  <2>2. /\ s \in Indices /\ u \in Indices /\ e \in Indices /\ a \in Indices
        /\ Distance(s, u) + Distance(u, e) + Distance(e, a) <= Wrap - 1
        /\ Wrap \in Nat /\ One(driver.at = "publish") \in {0, 1}
    <3>1. One(driver.at = "publish") \in {0, 1}
      BY DEF One
    <3>2. {Distance(s, u), Distance(u, e), Distance(e, a)} \subseteq Indices
      BY <1>1, DistanceIs
    <3> QED
      BY <1>1, <2>1, <3>1, <3>2, TxRoom DEF Indices
  <2>3. Distance(s, a) = Distance(s, u) + Distance(u, e) + Distance(e, a)
    <3> HIDE DEF s, u, e, a
    <3>1. /\ Distance(s, u) = IF u >= s THEN u - s ELSE u - s + Wrap
          /\ Distance(u, e) = IF e >= u THEN e - u ELSE e - u + Wrap
          /\ Distance(e, a) = IF a >= e THEN a - e ELSE a - e + Wrap
          /\ Distance(s, a) = IF a >= s THEN a - s ELSE a - s + Wrap
      BY <2>2, DistanceIs
    <3> QED
      BY <2>2, <3>1 DEF Indices
  <2>4. {Distance(s, u), Distance(u, e), Distance(e, a)} \subseteq Nat
    <3>1. {Distance(s, u), Distance(u, e), Distance(e, a)} \subseteq Indices
      BY <2>2, DistanceIs
    <3> QED
      BY <2>2, <3>1 DEF Indices
  <2> QED
    BY <2>1, <2>2, <2>3, <2>4
<1>9. tx.numFree + 2 * Cardinality(TxHeads) = TxSize
  BY <1>7 DEF TxCounts
<1> QED
  BY <1>5, <1>6, <1>7, <1>8, <1>9 DEF TxDescs

LEMMA RxKept ==
  ASSUME RxInv
  PROVE  LET free == FreeList(rx)
         IN  /\ free \union RxLent = 0 .. RxSize - 1
             /\ Cardinality(free) = rx.numFree
             /\ rx.numFree + Cardinality(RxLent) = RxSize
<1> DEFINE k == RxSize - Buffers
           f == [n \in 0 .. k - 1 |-> Buffers + n]
<1> USE DEF RxInv
<1>1. /\ RxSize \in Nat \ {0} /\ Buffers \in Nat /\ Buffers <= RxSize /\ k \in Nat
      /\ rx.numFree = k
  BY RxRoom DEF RxFree
<1>2. \A n \in 0 .. k - 1 : f[n] = Buffers + n
  OBVIOUS
<1>3. f = [n \in 0 .. k - 1 |-> f[n]]
  OBVIOUS
<1>4. ASSUME k > 0 PROVE f[0] = rx.free
  <2>1. 0 \in 0 .. k - 1 /\ Buffers \in 0 .. RxSize - 1
    BY <1>1, <1>4
  <2>2. Buffers % RxSize = Buffers
    BY <1>1, <2>1
  <2> QED
    BY <1>1, <1>2, <2>1, <2>2 DEF RxFree
<1>5. ASSUME NEW n \in 1 .. k - 1 PROVE f[n] = rx.next[f[n - 1]]
  <2>1. /\ n \in 0 .. k - 1 /\ n - 1 \in 0 .. k - 1
        /\ Buffers + (n - 1) \in Buffers .. RxSize - 2
        /\ (Buffers + (n - 1)) + 1 = Buffers + n
    BY <1>1
  <2> QED
    BY <1>2, <2>1 DEF RxFree
<1>6. Members(f, k) = Buffers .. RxSize - 1
  <2>1. \A d \in Buffers .. RxSize - 1 : d - Buffers \in 0 .. k - 1 /\ Buffers + (d - Buffers) = d
    BY <1>1
  <2>2. \A n \in 0 .. k - 1 : Buffers + n \in Buffers .. RxSize - 1
    BY <1>1
  <2> QED
    BY <1>2, <2>1, <2>2 DEF Members
<1> HIDE DEF f
<1>7. FreeList(rx) = Buffers .. RxSize - 1
  <2>1. Listed(rx, k, f)
    BY <1>1, <1>3, <1>4, <1>5 DEF Listed
  <2> QED
    BY <1>1, <1>6, <2>1, FreeListIs
<1>8. RxLent = 0 .. Buffers - 1
  <2>1. RxLent = RxAvail \union RxUsed
    BY DEF RxLent, RxAvail, RxUsed, Offered, Came
  <2> QED
    BY <2>1 DEF RxOnce
<1>9. (Buffers .. RxSize - 1) \union (0 .. Buffers - 1) = 0 .. RxSize - 1
  BY <1>1
<1>10. Cardinality(Buffers .. RxSize - 1) = k /\ Cardinality(0 .. Buffers - 1) = Buffers
  BY <1>1, FS_Interval
<1> QED
  BY <1>1, <1>7, <1>8, <1>9, <1>10

(* No descriptor is lost, none is free and in use or in use twice, in either *)
(* queue, for all sizes of the queues and all numbers of buffers: not by     *)
(* send_frame, reclaim_send_buffers, reclaim_receive_buffers or the device.  *)
THEOREM DescriptorsNeverLost == Spec => []DescriptorsKept
<1> DEFINE I == TxInv /\ RxInv
<1>1. Init => I
  BY TxInit, RxInit
<1>2. I /\ [Next]_vars => I'
  BY TxNext, RxNext DEF RxInv
<1>3. I => DescriptorsKept
  BY TxKept, RxKept DEF DescriptorsKept
<1> QED
  BY <1>1, <1>2, <1>3, PTL DEF Spec

--------------------------------------------------------------------------------
(* Sequences given by their elements.                                       *)
Row(s, k) == s = [n \in 1 .. k |-> s[n]]

LEMMA RowIs ==
  ASSUME NEW k \in Nat, NEW s, Row(s, k), NEW S, \A n \in 1 .. k : s[n] \in S
  PROVE  s \in Seq(S) /\ Len(s) = k
<1>1. s \in [1 .. k -> S]
  BY DEF Row
<1> QED
  BY <1>1

LEMMA RowLen ==
  ASSUME NEW k \in Nat, NEW s, Row(s, k)
  PROVE  Len(s) = k /\ (k > 0 => s # <<>> /\ Head(s) = s[1]) /\ (k = 0 => s = <<>>)
<1> DEFINE S == {s[n] : n \in 1 .. k}
<1>1. \A n \in 1 .. k : s[n] \in S
  OBVIOUS
<1> HIDE DEF S
<1>2. s \in Seq(S) /\ Len(s) = k
  BY <1>1, RowIs
<1> QED
  BY <1>2

LEMMA RowSame ==
  ASSUME NEW k \in Nat, NEW s, NEW t, Row(s, k), Row(t, k),
         \A n \in 1 .. k : t[n] = s[n]
  PROVE  t = s
BY DEF Row

LEMMA RowAppend ==
  ASSUME NEW k \in Nat, NEW s, NEW t, NEW e, Row(s, k), Row(t, k + 1),
         \A n \in 1 .. k : t[n] = s[n], t[k + 1] = e
  PROVE  t = Append(s, e)
<1> DEFINE S == {s[n] : n \in 1 .. k} \union {t[n] : n \in 1 .. k + 1}
<1>1. /\ \A n \in 1 .. k : s[n] \in S
      /\ \A n \in 1 .. k + 1 : t[n] \in S
      /\ e \in S
  OBVIOUS
<1> HIDE DEF S
<1>2. s \in Seq(S) /\ Len(s) = k
  BY <1>1, RowIs
<1>3. t \in Seq(S) /\ Len(t) = k + 1
  BY <1>1, RowIs
<1> DEFINE a == Append(s, e)
<1>4. a \in Seq(S) /\ Len(a) = k + 1 /\ a[k + 1] = e /\ \A n \in 1 .. k : a[n] = s[n]
  BY <1>1, <1>2
<1> HIDE DEF a
<1>5. \A n \in 1 .. k + 1 : a[n] = t[n]
  <2> TAKE n \in 1 .. k + 1
  <2>1. n \in 1 .. k \/ n = k + 1
    OBVIOUS
  <2> QED
    BY <1>4, <2>1
<1> QED
  BY <1>3, <1>4, <1>5 DEF a

LEMMA RowTail ==
  ASSUME NEW k \in Nat, NEW s, NEW t, k > 0, Row(s, k), Row(t, k - 1),
         \A n \in 1 .. k - 1 : t[n] = s[n + 1]
  PROVE  t = Tail(s)
<1> DEFINE S == {s[n] : n \in 1 .. k}
<1>1. \A n \in 1 .. k - 1 : n + 1 \in 1 .. k
  OBVIOUS
<1>2. (\A n \in 1 .. k : s[n] \in S) /\ \A n \in 1 .. k - 1 : t[n] \in S
  BY <1>1
<1> HIDE DEF S
<1>3. s \in Seq(S) /\ Len(s) = k
  BY <1>2, RowIs
<1>4. t \in Seq(S) /\ Len(t) = k - 1
  <2> DEFINE j == k - 1
  <2>1. j \in Nat /\ Row(t, j) /\ \A n \in 1 .. j : t[n] \in S
    BY <1>2
  <2> HIDE DEF j
  <2>2. t \in Seq(S) /\ Len(t) = j
    BY <2>1, RowIs
  <2> QED
    BY <2>2 DEF j
<1> DEFINE a == Tail(s)
<1>5. a \in Seq(S) /\ Len(a) = k - 1 /\ \A n \in 1 .. k - 1 : a[n] = s[n + 1]
  BY <1>3
<1> HIDE DEF a
<1> QED
  BY <1>4, <1>5 DEF a

(* The frames of the two queues, by the descriptors and the buffers that    *)
(* hold them.                                                              *)
Pending(n) == data[tx.availRing[(device.seen + n) % TxSize]]
Held(n) == packets[rx.usedRing[(rx.seen + n) % RxSize]]
ToHandle == Came - One(Handling)

SendingRow ==
  /\ Row(Sending, ToSee)
  /\ \A n \in 0 .. ToSee - 1 : /\ Sending[n + 1] = Pending(n)
                               /\ tx.availRing[(device.seen + n) % TxSize] \in TxAvail

LEMMA SendingIs ==
  ASSUME TxInv
  PROVE  SendingRow
<1>1. Row(Sending, ToSee)
  BY DEF Row, Sending, ToSee
<1>2. ASSUME NEW n \in 0 .. ToSee - 1
      PROVE  /\ Sending[n + 1] = Pending(n)
             /\ tx.availRing[(device.seen + n) % TxSize] \in TxAvail
  <2> DEFINE h == tx.availRing[(device.seen + n) % TxSize]
  <2>1. h \in TxAvail
    BY DEF TxAvail, Entries
  <2>2. h \in TxHeads
    BY <2>1, TxRoom
  <2>3. tx.addr[tx.next[h]] = h
    BY <2>2 DEF TxInv, Chained
  <2>4. /\ n + 1 \in 1 .. ToSee /\ ToSee \in Nat
        /\ device.seen + (n + 1) - 1 = device.seen + n
    BY TxRoom DEF TxInv, TxTypes, Indices
  <2>5. Sending[n + 1] = TxFrame(device.seen + (n + 1) - 1)
    BY <2>4 DEF Sending, ToSee
  <2>6. TxFrame(device.seen + n) = data[tx.addr[tx.next[h]]]
    BY DEF TxFrame
  <2>7. Pending(n) = data[h]
    BY DEF Pending
  <2>8. Sending[n + 1] = TxFrame(device.seen + n)
    BY <2>4, <2>5
  <2> HIDE DEF h
  <2>9. Sending[n + 1] = Pending(n)
    BY <2>3, <2>6, <2>7, <2>8
  <2> QED
    BY <2>1, <2>9 DEF h
<1> QED
  BY <1>1, <1>2 DEF SendingRow

LEMMA SendingIsNext == TxInv' => SendingRow'
<1>1. TxInv => SendingRow
  BY SendingIs
<1> QED
  BY <1>1, PTL

ComingRow ==
  /\ ToHandle \in Nat /\ Row(Coming, ToHandle)
  /\ \A n \in 0 .. ToHandle - 1 : Coming[n + 1] = Held(n + One(Handling))
  /\ \A n \in 0 .. Came - 1 : rx.usedRing[(rx.seen + n) % RxSize] \in RxUsed

LEMMA ComingIs ==
  ASSUME RxInv
  PROVE  ComingRow
<1>1. Came \in Nat /\ (Handling => Came # 0)
  BY RxRoom, DistanceMoves DEF RxInv, RxCounts, Types, Came
<1>2. ToHandle \in Nat /\ ToHandle <= Came /\ One(Handling) \in Nat
  BY <1>1 DEF ToHandle, One
<1>3. Row(Coming, ToHandle)
  BY DEF Row, Coming, ToHandle, Came
<1>4. \A n \in 0 .. Came - 1 : rx.usedRing[(rx.seen + n) % RxSize] \in RxUsed
  BY DEF RxUsed, Entries
<1>5. ASSUME NEW n \in 0 .. ToHandle - 1
      PROVE  Coming[n + 1] = Held(n + One(Handling))
  <2> DEFINE m == n + One(Handling)
             d == rx.usedRing[(rx.seen + m) % RxSize]
  <2>1. m \in 0 .. Came - 1
    BY <1>1, <1>2 DEF ToHandle
  <2>2. d \in RxUsed
    BY <1>4, <2>1
  <2>3. rx.addr[d] = d
    BY <2>2 DEF RxInv, RxOnce, RxFree
  <2>4. /\ n + 1 \in 1 .. ToHandle
        /\ rx.seen + (n + 1) - 1 + One(Handling) = rx.seen + m
    BY <1>2, RxRoom DEF RxInv, Types, Indices
  <2>5. Coming[n + 1] = packets[rx.addr[rx.usedRing[(rx.seen + (n + 1) - 1 + One(Handling)) % RxSize]]]
    BY <2>4 DEF Coming, ToHandle, Came
  <2> QED
    BY <2>3, <2>4, <2>5 DEF Held
<1> QED
  BY <1>2, <1>3, <1>4, <1>5 DEF ComingRow

LEMMA ComingIsNext == RxInv' => ComingRow'
<1>1. RxInv => ComingRow
  BY ComingIs
<1> QED
  BY <1>1, PTL

(* What else the link needs: a frame is in the hands of the driver exactly   *)
(* when it is about to send it, and the buffers used hold frames.           *)
LinkTypes ==
  /\ driver.at = "send" <=> driver.frame # NoFrame
  /\ DOMAIN data = TxDescs /\ DOMAIN packets = 0 .. NumBuffers - 1
  /\ \A n \in 0 .. Came - 1 : Held(n) \in Frames

LinkInv == TxInv /\ RxInv /\ LinkTypes /\ device.waiting \in BOOLEAN

LEMMA BuffersInPackets == 0 .. Buffers - 1 \subseteq 0 .. NumBuffers - 1
BY NetworkAssumption DEF Buffers, Min2

(* The frames that are held move up when the first one is handled.          *)
LEMMA RecycleHeld ==
  ASSUME RxInv, Records', Types', Recycle, DOMAIN packets = 0 .. NumBuffers - 1
  PROVE  \A n \in 0 .. Came - 2 : Held(n)' = Held(n + 1)
<1> TAKE n \in 0 .. Came - 2
<1> DEFINE d == rx.usedRing[(rx.seen + (n + 1)) % RxSize]
<1>1. /\ Came \in 1 .. Buffers /\ packets' = [packets EXCEPT ![CameDesc] = NoFrame]
      /\ rx'.usedRing[(rx'.seen + n) % RxSize] = d
  BY RxRecycle
<1>2. n + 1 \in 0 .. Came - 1 /\ 0 \in 0 .. Came - 1 /\ n + 1 # 0
  BY <1>1, BuffersExist
<1>3. CameDesc = rx.usedRing[(rx.seen + 0) % RxSize]
  <2>1. rx.seen + 0 = rx.seen
    BY RxRoom DEF RxInv, Types, Indices
  <2> QED
    BY <2>1 DEF CameDesc
<1>4. d # CameDesc /\ d \in DOMAIN packets
  <2>1. d # CameDesc
    BY <1>2, <1>3 DEF RxInv, RxOnce, OnceIn
  <2>2. d \in 0 .. Buffers - 1
    BY <1>2, ComingIs DEF ComingRow, RxInv, RxOnce
  <2> QED
    BY <2>1, <2>2, BuffersInPackets
<1>5. Held(n)' = packets'[d] /\ Held(n + 1) = packets[d]
  BY <1>1 DEF Held
<1> HIDE DEF d
<1> QED
  BY <1>1, <1>4, <1>5

(* A frame that comes is the last one held.                                 *)
LEMMA ComeHeld ==
  ASSUME RxInv, Records', Types', NEW f, Come(f), DOMAIN packets = 0 .. NumBuffers - 1
  PROVE  (\A n \in {Came} : Held(n)' = f) /\ \A n \in 0 .. Came - 1 : Held(n)' = Held(n)
<1>1. /\ \A n \in 0 .. Came - 1 :
           rx'.usedRing[(rx.seen + n) % RxSize] = rx.usedRing[(rx.seen + n) % RxSize]
      /\ rx'.seen = rx.seen
  BY RxCome
<1>2. PICK d \in RxAvail : /\ rx'.usedRing[(rx.seen + Came) % RxSize] = d
                           /\ packets' = [packets EXCEPT ![d] = f]
  BY RxCome
<1>3. d \in DOMAIN packets
  BY BuffersInPackets DEF RxInv, RxOnce
<1>4. \A n \in 0 .. Came - 1 : rx.usedRing[(rx.seen + n) % RxSize] # d
  BY ComingIs DEF ComingRow, RxInv, RxOnce
<1>5. \A n \in 0 .. Came - 1 : rx.usedRing[(rx.seen + n) % RxSize] \in DOMAIN packets
  BY ComingIs, BuffersInPackets DEF ComingRow, RxInv, RxOnce
<1>6. packets'[d] = f /\ \A b \in DOMAIN packets : b # d => packets'[b] = packets[b]
  BY <1>2, <1>3
<1>7. packets'[rx'.usedRing[(rx'.seen + Came) % RxSize]] = f
  BY <1>1, <1>2, <1>6
<1>8. \A n \in {Came} : Held(n)' = f
  BY <1>7 DEF Held
<1> QED
  BY <1>1, <1>4, <1>5, <1>6, <1>8 DEF Held

LEMMA LinkInit == Init => LinkInv
<1> SUFFICES ASSUME Init PROVE LinkInv
  OBVIOUS
<1>1. TxInv /\ RxInv
  BY TxInit, RxInit
<1>2. driver.at = "poll" /\ driver.frame = NoFrame
  BY DEF Init
<1> DEFINE w == device.waiting
<1>5. w \in BOOLEAN
  <2>1. w = FALSE
    BY DEF Init
  <2> HIDE DEF w
  <2> QED
    BY <2>1, Zenon
<1>3. Came = 0
  <2>1. rx.seen = 0 /\ rx.usedIdx = 0
    BY SetupIs, NetworkAssumption DEF Init, Posted, Fields
  <2> QED
    BY <1>1, <2>1, DistanceMoves DEF Came, RxInv, Types
<1>4. DOMAIN data = TxDescs /\ DOMAIN packets = 0 .. NumBuffers - 1
  BY DEF Init, TxDescs
<1>6. LinkTypes
  BY <1>2, <1>3, <1>4 DEF LinkTypes
<1> QED
  BY <1>1, <1>5, <1>6 DEF LinkInv

LEMMA LinkTypesNext ==
  ASSUME LinkInv, [Next]_vars
  PROVE  LinkTypes'
<1> USE DEF LinkInv
<1>1. Records /\ Types /\ Records' /\ Types'
  BY RecordsNext, TypesNext DEF RxInv
<1>2. DOMAIN data' = DOMAIN data /\ DOMAIN packets' = DOMAIN packets
  <2> DEFINE Kept == DOMAIN data' = DOMAIN data /\ DOMAIN packets' = DOMAIN packets
  <2>1. CASE PortEmpty \/ SendFails \/ Publish \/ Flush \/ Answer \/ Deliver \/ Discard \/ Offer
             \/ ReceiveEnds \/ Transmit \/ Sleep \/ Wait \/ UNCHANGED vars
    BY <2>1 DEF vars, PortEmpty, SendFails, Publish, Flush, Answer, Deliver, Discard, Offer,
                ReceiveEnds, Transmit, Sleep, Wait
  <2>2. CASE Reclaim
    BY <2>2 DEF Reclaim
  <2>3. CASE SendFills
    BY <2>3 DEF SendFills
  <2>4. CASE Recycle
    BY <2>4 DEF Recycle
  <2>5. ASSUME NEW m, PortTake(m) PROVE Kept
    BY <2>5 DEF PortTake
  <2>6. ASSUME NEW head, GiveBack(head) PROVE Kept
    BY <2>6 DEF GiveBack
  <2>7. ASSUME NEW f, Come(f) PROVE Kept
    BY <2>7 DEF Come
  <2> QED
    BY <2>1, <2>2, <2>3, <2>4, <2>5, <2>6, <2>7 DEF Next, Driver, Device
<1>3. ASSUME rx' = rx, packets' = packets PROVE \A n \in 0 .. Came' - 1 : Held(n)' \in Frames
  BY <1>3 DEF LinkTypes, Came, Held
<1>4. CameUsed => CameFrame \in Frames
  <2>1. SUFFICES ASSUME CameUsed PROVE CameFrame \in Frames
    OBVIOUS
  <2>2. Came \in Nat /\ Came # 0
    BY <1>1, <2>1, RxRoom, DistanceMoves DEF CameUsed, Came, Types
  <2>3. 0 \in 0 .. Came - 1 /\ rx.seen + 0 = rx.seen
    BY <1>1, <2>2, RxRoom DEF Types, Indices
  <2>4. Held(0) \in Frames /\ CameDesc \in RxUsed /\ Held(0) = packets[CameDesc]
    BY <2>3, ComingIs DEF ComingRow, LinkTypes, Held, CameDesc
  <2>5. rx.addr[CameDesc] = CameDesc
    BY <2>4 DEF RxInv, RxOnce, RxFree
  <2> QED
    BY <2>4, <2>5 DEF CameFrame
<1>5. CASE UNCHANGED vars
  BY <1>2, <1>3, <1>5 DEF vars, LinkTypes
<1>6. ASSUME rx' = rx, packets' = packets, driver'.at = "send" <=> driver'.frame # NoFrame
      PROVE  LinkTypes'
  BY <1>2, <1>3, <1>6 DEF LinkTypes
<1>7. CASE PortEmpty \/ Reclaim \/ SendFails \/ SendFills \/ Publish \/ Flush
           \/ Deliver \/ Discard \/ ReceiveEnds
  <2>1. /\ rx' = rx /\ packets' = packets
        /\ \/ driver' = driver
           \/ driver'.at # "send" /\ driver'.frame = NoFrame
           \/ driver'.at # "send" /\ driver'.frame = driver.frame /\ driver.at # "send"
    BY <1>1, <1>7 DEF Records, Types, PortEmpty, Reclaim, SendFails, SendFills, Publish, Flush,
                      Deliver, Discard, ReceiveEnds, Goto
  <2> QED
    BY <1>6, <2>1 DEF LinkTypes
<1>8. ASSUME NEW m \in Messages, PortTake(m) PROVE LinkTypes'
  <2>1. /\ rx' = rx /\ packets' = packets
        /\ driver'.at = "send" /\ driver'.frame = UdpFrame(m)
    BY <1>1, <1>8 DEF Records, PortTake
  <2> QED
    BY <1>6, <2>1, NetworkAssumption
<1>9. CASE Answer
  <2>1. /\ rx' = rx /\ packets' = packets /\ CameUsed
        /\ driver'.at = "send" /\ driver'.frame = ArpAnswer(CameFrame)
    BY <1>1, <1>9 DEF Records, Answer
  <2> QED
    BY <1>4, <1>6, <2>1, NetworkAssumption
<1>10. ASSUME driver'.at # "send", driver.at # "send", driver'.frame = driver.frame,
              \A n \in 0 .. Came' - 1 : Held(n)' \in Frames
       PROVE  LinkTypes'
  BY <1>2, <1>10 DEF LinkTypes
<1>11. CASE Recycle
  <2>1. driver'.at # "send" /\ driver.at # "send" /\ driver'.frame = driver.frame
    BY <1>1, <1>11 DEF Recycle, Goto, Records
  <2>2. Came' = Came - 1 /\ Came \in Nat
    BY <1>1, <1>11, RxRecycle, RxRoom
  <2>3. ASSUME NEW n \in 0 .. Came' - 1 PROVE Held(n)' \in Frames
    <3>1. n \in 0 .. Came - 2 /\ n + 1 \in 0 .. Came - 1
      BY <2>2
    <3>2. Held(n)' = Held(n + 1)
      BY <1>1, <1>11, <3>1, RecycleHeld DEF LinkTypes
    <3> QED
      BY <3>1, <3>2 DEF LinkTypes
  <2> QED
    BY <1>10, <2>1, <2>3
<1>12. CASE Offer
  <2>1. driver'.at # "send" /\ driver.at # "send" /\ driver'.frame = driver.frame
    BY <1>1, <1>12 DEF Offer, Goto, Records
  <2>2. /\ rx'.usedRing = rx.usedRing /\ rx'.seen = rx.seen /\ rx'.usedIdx = rx.usedIdx
        /\ packets' = packets
    BY <1>1, <1>12 DEF Offer, Records, Fields
  <2> QED
    BY <1>10, <2>1, <2>2 DEF LinkTypes, Came, Held
<1>13. CASE Transmit \/ Sleep \/ Wait
  BY <1>6, <1>13 DEF Transmit, Sleep, Wait, LinkTypes
<1>14. ASSUME NEW head, GiveBack(head) PROVE LinkTypes'
  BY <1>6, <1>14 DEF GiveBack, LinkTypes
<1>15. ASSUME NEW f \in Frames, Come(f) PROVE LinkTypes'
  <2>1. Came' = Came + 1 /\ Came \in Nat /\ driver' = driver
    BY <1>1, <1>15, RxCome, RxRoom
  <2>2. ASSUME NEW n \in 0 .. Came' - 1 PROVE Held(n)' \in Frames
    <3>1. n \in 0 .. Came - 1 \/ n = Came
      BY <2>1
    <3>2. (\A k \in {Came} : Held(k)' = f) /\ \A k \in 0 .. Came - 1 : Held(k)' = Held(k)
      BY <1>1, <1>15, ComeHeld DEF LinkTypes
    <3> QED
      BY <3>1, <3>2 DEF LinkTypes
  <2> QED
    BY <1>2, <2>1, <2>2 DEF LinkTypes
<1> QED
  BY <1>5, <1>7, <1>8, <1>9, <1>11, <1>12, <1>13, <1>14, <1>15 DEF Next, Driver, Device

(* How many frames are lent to the device, and how many buffers are spare.   *)
LEMMA LentIs ==
  ASSUME TxInv
  PROVE  /\ Lent = Cardinality(device.done) + ToSee /\ Lent \in Nat
         /\ tx.numFree + 2 * (Given + Lent) = TxSize
<1>1. /\ tx.usedIdx \in Indices /\ device.seen \in Indices /\ tx.availIdx \in Indices
      /\ Given \in Nat /\ ToSee \in Nat /\ Wrap \in Nat
      /\ Given + Cardinality(device.done) + ToSee <= Wrap - 1
      /\ Cardinality(device.done) = Distance(tx.usedIdx, device.seen)
      /\ Cardinality(device.done) \in Nat
  BY TxRoom DEF TxInv, TxTypes, TxCounts
<1> DEFINE u == tx.usedIdx
           e == device.seen
           a == tx.availIdx
           o == One(driver.at = "publish")
<1>2. u \in Indices /\ e \in Indices /\ a \in Indices /\ o \in {0, 1} /\ ToSee = Distance(e, a) + o
  BY <1>1 DEF One, ToSee
<1>3. Distance(e, a) \in Nat /\ Distance(u, e) \in Nat /\ Distance(u, a) \in Nat
  <2>1. Distance(e, a) \in Indices /\ Distance(u, e) \in Indices /\ Distance(u, a) \in Indices
    BY <1>2, DistanceIs
  <2> QED
    BY <1>1, <2>1 DEF Indices
<1>4. Distance(u, a) = Distance(u, e) + Distance(e, a)
  <2>1. Distance(u, e) + Distance(e, a) <= Wrap - 1
    BY <1>1, <1>2, <1>3
  <2> HIDE DEF u, e, a, o
  <2>2. /\ Distance(u, e) = IF e >= u THEN e - u ELSE e - u + Wrap
        /\ Distance(e, a) = IF a >= e THEN a - e ELSE a - e + Wrap
        /\ Distance(u, a) = IF a >= u THEN a - u ELSE a - u + Wrap
    BY <1>2, DistanceIs
  <2> QED
    BY <1>1, <1>2, <2>1, <2>2 DEF Indices
<1>5. Lent = Distance(u, a) + o
  BY DEF Lent
<1>6. Lent = Cardinality(device.done) + ToSee
  BY <1>1, <1>2, <1>3, <1>4, <1>5
<1>7. tx.numFree + 2 * (Given + Cardinality(device.done) + ToSee) = TxSize
  BY DEF TxInv, TxCounts
<1> QED
  BY <1>1, <1>6, <1>7

(* Half of the descriptors are slots.                                       *)
LEMMA SlotsAre == TxSize \div 2 \in Nat /\ TxSize = 2 * (TxSize \div 2)
<1>1. TxSize \in Nat /\ TxSize % 2 = 0
  BY NetworkAssumption
<1> QED
  BY <1>1

(* What does not concern a direction.                                       *)
TxStill == Sending' = Sending /\ Lent' = Lent
RxStill ==
  /\ Coming' = Coming /\ Spare' = Spare
  /\ device'.waiting = device.waiting /\ delivered' = delivered

LEMMA TxStillIf ==
  ASSUME tx' = tx, data' = data, device'.seen = device.seen,
         (driver'.at = "publish") = (driver.at = "publish")
  PROVE  TxStill
BY DEF TxStill, Sending, Lent, TxFrame

LEMMA RxStillIf ==
  ASSUME rx' = rx, packets' = packets, device'.waiting = device.waiting,
         delivered' = delivered, Handling' = Handling
  PROVE  RxStill
BY DEF RxStill, Coming, Spare

LEMMA Stutters ==
  ASSUME TxStill, RxStill, driver'.frame = driver.frame
  PROVE  UNCHANGED Link!vars
BY DEF TxStill, RxStill, Link!vars, Link!transmission, Link!reception

LEMMA LinkFrames ==
  /\ \A m : Link!UdpFrame(m) = UdpFrame(m)
  /\ \A f : /\ Link!ArpAnswer(f) = ArpAnswer(f)
            /\ Link!Asks(f) <=> Asks(f)
            /\ Link!Routed(f) <=> Routed(f)
<1>1. \A m : Link!UdpFrame(m) = UdpFrame(m)
  BY DEF Link!UdpFrame, UdpFrame, Link!EtherFrame, EtherFrame
<1>2. \A f : Link!ArpAnswer(f) = ArpAnswer(f)
  BY DEF Link!ArpAnswer, ArpAnswer, Link!EtherFrame, EtherFrame
<1>3. \A f : Link!Asks(f) <=> Asks(f)
  BY DEF Link!Asks, Asks, Link!MacAccepts, MacAccepts
<1>4. \A f : Link!Routed(f) <=> Routed(f)
  BY DEF Link!Routed, Routed, Link!UdpAccepts, UdpAccepts, Link!MacAccepts, MacAccepts
<1> QED
  BY <1>1, <1>2, <1>3, <1>4

(* The steps that neither direction sees.                                   *)
LEMMA StepsUnseen ==
  ASSUME LinkInv, Records', PortEmpty \/ Flush \/ Sleep \/ UNCHANGED vars
  PROVE  UNCHANGED Link!vars
<1>1. Records /\ Types
  BY DEF LinkInv, RxInv
<1>2. /\ tx' = tx /\ data' = data /\ rx' = rx /\ packets' = packets /\ delivered' = delivered
      /\ device'.seen = device.seen /\ device'.waiting = device.waiting
      /\ driver'.frame = driver.frame
      /\ (driver'.at = "publish") = (driver.at = "publish")
      /\ Handling' = Handling
  <2>1. CASE PortEmpty
    BY <1>1, <2>1 DEF Records, PortEmpty, Goto, Handling
  <2>2. CASE Flush
    BY <1>1, <2>2 DEF Records, Types, Flush, Handling
  <2>3. CASE Sleep
    BY <1>1, <2>3 DEF Records, Sleep, Handling
  <2>4. CASE UNCHANGED vars
    BY <2>4 DEF vars, Handling
  <2> QED
    BY <2>1, <2>2, <2>3, <2>4
<1> QED
  BY <1>2, TxStillIf, RxStillIf, Stutters

LEMMA PortTakeLinks ==
  ASSUME LinkInv, Records', NEW m \in Messages, PortTake(m)
  PROVE  Link!Take(m)
<1>1. Records /\ Types /\ driver.frame = NoFrame
  BY DEF LinkInv, RxInv, LinkTypes, PortTake
<1>2. /\ tx' = tx /\ data' = data /\ rx' = rx /\ packets' = packets /\ delivered' = delivered
      /\ device' = device /\ driver'.frame = UdpFrame(m)
      /\ driver.at = "poll" /\ driver'.at = "send" /\ driver'.back = driver.back
  BY <1>1 DEF Records, PortTake
<1>3. TxStill /\ RxStill
  BY <1>2, TxStillIf, RxStillIf DEF Handling
<1>4. Link!UdpFrame(m) = UdpFrame(m)
  BY LinkFrames
<1> QED
  BY <1>1, <1>2, <1>3, <1>4 DEF Link!Take, TxStill, RxStill, Link!reception

LEMMA SendFailsLinks ==
  ASSUME LinkInv, Records', SendFails
  PROVE  Link!Drop
<1>1. Records /\ Types /\ driver.frame # NoFrame /\ tx.numFree \in Nat
  BY DEF LinkInv, TxInv, TxTypes, Descriptors, RxInv, LinkTypes, SendFails
<1>2. /\ tx' = tx /\ data' = data /\ rx' = rx /\ packets' = packets /\ delivered' = delivered
      /\ device' = device /\ driver'.frame = NoFrame
      /\ driver.at = "send" /\ driver'.at = "flush" /\ driver'.back = driver.back
      /\ tx.seen = tx.usedIdx /\ tx.numFree < 1
  BY <1>1 DEF Records, SendFails, NoDescriptor, Returned
<1>3. TxStill /\ RxStill
  BY <1>2, TxStillIf, RxStillIf DEF Handling
<1>4. Given = 0
  BY <1>2, DistanceMoves DEF Given, LinkInv, TxInv, TxTypes
<1>5. Lent = TxSize \div 2
  <2> DEFINE s == TxSize \div 2
  <2>1. s \in Nat /\ TxSize = 2 * s
    BY SlotsAre
  <2>2. Lent \in Nat /\ tx.numFree + 2 * (Given + Lent) = TxSize
    BY LentIs DEF LinkInv
  <2> HIDE DEF s
  <2>3. Lent = s
    BY <1>1, <1>2, <1>4, <2>1, <2>2
  <2> QED
    BY <2>3 DEF s
<1> QED
  BY <1>1, <1>2, <1>3, <1>5 DEF Link!Drop, TxStill, RxStill, Link!reception

LEMMA SendFillsLinks ==
  ASSUME LinkInv, Records', SendFills
  PROVE  Link!Accept
<1> DEFINE h == tx.free
<1>1. Records /\ Types /\ driver.frame # NoFrame /\ TxInv /\ DOMAIN data = TxDescs
      /\ tx.numFree \in Nat
  BY DEF LinkInv, RxInv, LinkTypes, SendFills, TxInv, TxTypes, Descriptors
<1>2. /\ data' = [data EXCEPT ![h] = driver.frame]
      /\ rx' = rx /\ packets' = packets /\ delivered' = delivered
      /\ device' = device /\ driver'.frame = NoFrame
      /\ driver.at = "send" /\ driver'.at = "publish" /\ driver'.back = driver.back
      /\ tx.seen = tx.usedIdx /\ tx.numFree >= 1
      /\ tx'.usedIdx = tx.usedIdx /\ tx'.availIdx = tx.availIdx
      /\ tx'.availRing = [tx.availRing EXCEPT ![tx.availIdx % TxSize] = h]
  BY <1>1 DEF Records, SendFills, FillChain, Returned, Fields
<1>3. TxInv' /\ ToSee' = ToSee + 1 /\ h \in TxDescs /\ h \notin TxHeads
  BY <1>1, TxFills
<1>4. RxStill
  BY <1>2, RxStillIf DEF Handling
<1>5. Lent < TxSize \div 2
  <2> DEFINE s == TxSize \div 2
  <2>1. s \in Nat /\ TxSize = 2 * s
    BY SlotsAre
  <2>2. Lent \in Nat /\ tx.numFree + 2 * (Given + Lent) = TxSize /\ Given = 0
    BY <1>1, <1>2, LentIs, DistanceMoves DEF Given, TxInv, TxTypes
  <2> HIDE DEF s
  <2>3. Lent < s
    BY <1>1, <1>2, <2>1, <2>2
  <2> QED
    BY <2>3 DEF s
<1>6. Lent' = Lent + 1
  <2>1. Distance(tx.usedIdx, tx.availIdx) \in Indices /\ Wrap \in Nat
    BY <1>1, TxRoom, DistanceIs DEF TxInv, TxTypes
  <2>2. Distance(tx.usedIdx, tx.availIdx) \in Nat
    BY <2>1 DEF Indices
  <2> QED
    BY <1>2, <2>2 DEF Lent, One
<1>7. /\ ToSee \in Nat /\ Row(Sending, ToSee) /\ Row(Sending', ToSee + 1)
      /\ \A n \in 0 .. ToSee - 1 : Sending[n + 1] = Pending(n)
      /\ \A n \in 0 .. ToSee : Sending'[n + 1] = Pending(n)'
  <2>1. Row(Sending', ToSee') /\ \A n \in 0 .. ToSee' - 1 : Sending'[n + 1] = Pending(n)'
    BY <1>3, SendingIsNext DEF SendingRow
  <2>2. ToSee \in Nat
    BY <1>1, TxRoom
  <2>3. \A n \in 0 .. ToSee : n \in 0 .. ToSee' - 1
    BY <1>3, <2>2
  <2> QED
    BY <1>1, <1>3, <2>1, <2>2, <2>3, SendingIs DEF SendingRow
<1>8. /\ tx.availIdx % TxSize = (device.seen + ToSee) % TxSize
      /\ tx.availIdx % TxSize \in TxDescs /\ tx.availRing \in [TxDescs -> TxDescs]
      /\ device.seen \in Nat
  <2>1. /\ TxSize \in RingSizes /\ TxSize \in Nat \ {0} /\ ToSee = Distance(device.seen, tx.availIdx)
        /\ tx.availIdx \in Indices /\ device.seen \in Indices
    <3>1. Distance(device.seen, tx.availIdx) \in Indices /\ Wrap \in Nat
      BY <1>1, TxRoom, DistanceIs DEF TxInv, TxTypes
    <3> QED
      BY <1>1, <1>2, <3>1, TxRoom DEF TxInv, TxTypes, ToSee, One, Indices
  <2>2. tx.availIdx % TxSize = (device.seen + ToSee) % TxSize
    BY <2>1, PlaceOf
  <2>3. tx.availIdx % TxSize \in TxDescs
    <3> DEFINE a == tx.availIdx
    <3>1. a \in Nat
      BY <1>1, <2>1, TxRoom DEF Indices
    <3> HIDE DEF a
    <3>2. a % TxSize \in 0 .. TxSize - 1
      BY <2>1, <3>1
    <3> QED
      BY <3>2 DEF TxDescs, a
  <2>4. tx.availRing \in [TxDescs -> TxDescs] /\ device.seen \in Nat
    BY <1>1, <2>1, TxRoom DEF Indices, TxInv, TxTypes
  <2> QED
    BY <2>2, <2>3, <2>4
<1>9. \A n \in {ToSee} : Pending(n)' = driver.frame
  <2>1. tx'.availRing[(device'.seen + ToSee) % TxSize] = h
    BY <1>2, <1>8
  <2>2. data'[h] = driver.frame
    BY <1>1, <1>2, <1>3
  <2> HIDE DEF h
  <2> QED
    BY <2>1, <2>2 DEF Pending
<1>10. ASSUME NEW n \in 0 .. ToSee - 1 PROVE Pending(n)' = Pending(n)
  <2> DEFINE p == (device.seen + n) % TxSize
             d == tx.availRing[p]
  <2>1. p # tx.availIdx % TxSize
    <3>1. /\ n \in Nat /\ n < ToSee /\ ToSee - n < TxSize /\ ToSee \in Nat
          /\ TxSize \in RingSizes /\ device.seen \in Indices
      BY <1>1, <1>7, TxRoom DEF TxInv, TxTypes
    <3> QED
      BY <1>8, <3>1, PlacesDiffer
  <2>2. d \in TxHeads /\ d \in TxDescs
    BY <1>1, SendingIs, TxRoom, HeadsTyped DEF SendingRow
  <2>3. tx'.availRing[p] = d
    BY <1>2, <1>8, <2>1
  <2>4. data'[d] = data[d]
    BY <1>1, <1>2, <1>3, <2>2
  <2> HIDE DEF p
  <2>5. Pending(n) = data[tx.availRing[p]] /\ Pending(n)' = data'[tx'.availRing[p]]
    BY <1>2 DEF Pending, p
  <2> QED
    BY <2>3, <2>4, <2>5
<1>11. Sending' = Append(Sending, driver.frame)
  <2>1. ASSUME NEW n \in 1 .. ToSee PROVE Sending'[n] = Sending[n]
    <3>1. n - 1 \in 0 .. ToSee - 1 /\ n - 1 \in 0 .. ToSee /\ (n - 1) + 1 = n
      BY <1>7
    <3> QED
      BY <1>7, <1>10, <3>1
  <2>2. Sending'[ToSee + 1] = driver.frame
    BY <1>7, <1>9
  <2> QED
    BY <1>7, <2>1, <2>2, RowAppend
<1> QED
  BY <1>1, <1>2, <1>4, <1>5, <1>6, <1>11 DEF Link!Accept, RxStill, Link!reception

(* The sequence of frames to send stays when its elements do.               *)
LEMMA SendingStays ==
  ASSUME TxInv, TxInv', ToSee' = ToSee,
         \A n \in 0 .. ToSee - 1 : Pending(n)' = Pending(n)
  PROVE  Sending' = Sending
<1>1. /\ ToSee \in Nat /\ Row(Sending, ToSee) /\ Row(Sending', ToSee)
      /\ \A n \in 0 .. ToSee - 1 : Sending[n + 1] = Pending(n)
      /\ \A n \in 0 .. ToSee - 1 : Sending'[n + 1] = Pending(n)'
  BY TxRoom, SendingIs, SendingIsNext DEF SendingRow
<1>2. ASSUME NEW n \in 1 .. ToSee PROVE Sending'[n] = Sending[n]
  <2>1. n - 1 \in 0 .. ToSee - 1 /\ (n - 1) + 1 = n
    BY <1>1
  <2> QED
    BY <1>1, <2>1
<1> QED
  BY <1>1, <1>2, RowSame

LEMMA ReclaimUnseen ==
  ASSUME LinkInv, Records', Reclaim
  PROVE  UNCHANGED Link!vars
<1>1. Records /\ Types /\ TxInv /\ DOMAIN data = TxDescs
  BY DEF LinkInv, RxInv, LinkTypes
<1>2. /\ rx' = rx /\ packets' = packets /\ delivered' = delivered
      /\ device' = device /\ driver' = driver
      /\ tx'.usedIdx = tx.usedIdx /\ tx'.availIdx = tx.availIdx /\ tx'.availRing = tx.availRing
  BY <1>1 DEF Records, Reclaim, Fields
<1>3. TxInv'
  BY <1>1, TxReclaim
<1>4. PICK h \in TxUsed : data' = [data EXCEPT ![h] = NoFrame]
  BY <1>1, TxReclaim
<1>5. ToSee' = ToSee /\ Lent' = Lent
  BY <1>2 DEF ToSee, Lent
<1>6. ASSUME NEW n \in 0 .. ToSee - 1 PROVE Pending(n)' = Pending(n)
  <2> DEFINE d == tx.availRing[(device.seen + n) % TxSize]
  <2>1. d \in TxAvail /\ d \in TxDescs /\ d # h
    BY <1>1, SendingIs, HeadsTyped DEF SendingRow, TxInv, TxOnce
  <2>2. Pending(n) = data[d] /\ Pending(n)' = data'[d]
    BY <1>2 DEF Pending
  <2> HIDE DEF d
  <2> QED
    BY <1>1, <1>4, <2>1, <2>2
<1>7. TxStill
  BY <1>1, <1>3, <1>5, <1>6, SendingStays DEF TxStill
<1>8. RxStill
  BY <1>2, RxStillIf DEF Handling
<1> QED
  BY <1>2, <1>7, <1>8, Stutters

LEMMA PublishUnseen ==
  ASSUME LinkInv, Records', Publish
  PROVE  UNCHANGED Link!vars
<1>1. Records /\ Types /\ TxInv
  BY DEF LinkInv, RxInv
<1>2. /\ rx' = rx /\ packets' = packets /\ delivered' = delivered /\ data' = data
      /\ device' = device /\ driver'.frame = driver.frame /\ driver'.back = driver.back
      /\ driver.at = "publish" /\ driver'.at = "flush"
      /\ tx'.usedIdx = tx.usedIdx /\ tx'.availIdx = Inc(tx.availIdx)
      /\ tx'.availRing = tx.availRing
  BY <1>1 DEF Records, Publish, Fields, Goto
<1>3. TxInv'
  BY <1>1, TxPublish
<1>4. device.done' = device.done
  BY <1>2
<1>5. ToSee' = ToSee
  <2>1. /\ {device.seen, tx.availIdx} \subseteq Indices
        /\ ToSee = Distance(device.seen, tx.availIdx) + 1
    BY <1>1, <1>2 DEF TxInv, TxTypes, ToSee, One
  <2>2. Distance(device.seen, tx.availIdx) \in Indices /\ Wrap \in Nat
    BY <1>1, <2>1, DistanceIs, TxRoom
  <2>3. Distance(device.seen, tx.availIdx) \in Nat
    BY <2>2 DEF Indices
  <2>4. Distance(device.seen, tx.availIdx) < Wrap - 1
    BY <1>1, <2>1, <2>3, TxRoom
  <2>5. Distance(device.seen, Inc(tx.availIdx)) = Distance(device.seen, tx.availIdx) + 1
    BY <2>1, <2>4, DistanceMoves
  <2>6. ToSee' = Distance(device.seen, Inc(tx.availIdx)) + 0
    BY <1>2 DEF ToSee, One
  <2> QED
    BY <2>1, <2>3, <2>5, <2>6
<1>6. Lent' = Lent
  <2>1. {tx.usedIdx, tx.availIdx} \subseteq Indices
    BY <1>1 DEF TxInv, TxTypes
  <2>2. Lent = Distance(tx.usedIdx, tx.availIdx) + 1
    BY <1>2 DEF Lent, One
  <2>3. Distance(tx.usedIdx, tx.availIdx) \in Indices /\ Wrap \in Nat
    BY <1>1, <2>1, DistanceIs, TxRoom
  <2>4. Distance(tx.usedIdx, tx.availIdx) \in Nat
    BY <2>3 DEF Indices
  <2>5. Distance(tx.usedIdx, tx.availIdx) < Wrap - 1
    <3>1. Lent = Cardinality(device.done) + ToSee
      BY <1>1, LentIs
    <3>2. Lent <= Wrap - 1
      BY <1>1, <3>1, TxRoom
    <3> QED
      BY <2>2, <2>3, <2>4, <3>2
  <2>6. Distance(tx.usedIdx, Inc(tx.availIdx)) = Distance(tx.usedIdx, tx.availIdx) + 1
    BY <2>1, <2>5, DistanceMoves
  <2>7. Lent' = Distance(tx.usedIdx, Inc(tx.availIdx)) + 0
    BY <1>2 DEF Lent, One
  <2> QED
    BY <2>2, <2>4, <2>6, <2>7
<1>7. \A n \in 0 .. ToSee - 1 : Pending(n)' = Pending(n)
  BY <1>2 DEF Pending
<1>8. TxStill
  BY <1>1, <1>3, <1>5, <1>6, <1>7, SendingStays DEF TxStill
<1>9. RxStill
  BY <1>2, RxStillIf DEF Handling
<1> QED
  BY <1>2, <1>8, <1>9, Stutters

LEMMA TransmitLinks ==
  ASSUME LinkInv, Records', Transmit
  PROVE  Link!Transmit
<1>1. Records /\ Types /\ TxInv
  BY DEF LinkInv, RxInv
<1>2. /\ rx' = rx /\ packets' = packets /\ delivered' = delivered /\ data' = data
      /\ driver' = driver /\ device'.waiting = device.waiting
      /\ device'.seen = Inc(device.seen) /\ device.seen # tx.availIdx
      /\ tx'.usedIdx = tx.usedIdx /\ tx'.availIdx = tx.availIdx
      /\ tx'.availRing = [tx.availRing EXCEPT ![device.seen % TxSize] = 0]
  BY <1>1 DEF Records, Transmit, Fields
<1>3. TxInv'
  BY <1>1, TxTransmit
<1>4. Lent' = Lent
  BY <1>2 DEF Lent
<1>5. /\ {device.seen, tx.availIdx} \subseteq Indices /\ TxSize \in RingSizes
      /\ tx.availRing \in [0 .. TxSize - 1 -> 0 .. TxSize - 1]
      /\ 0 \in 0 .. TxSize - 1
  BY <1>1, TxRoom DEF TxInv, TxTypes, TxDescs
<1>6. ToSee \in 1 .. TxSize /\ ToSee' = ToSee - 1
  <2>1. Distance(device.seen, tx.availIdx) # 0
    BY <1>2, <1>5, DistanceMoves
  <2>2. Distance(Inc(device.seen), tx.availIdx) = Distance(device.seen, tx.availIdx) - 1
    BY <1>2, <1>5, DistanceMoves
  <2>3. Distance(device.seen, tx.availIdx) \in Indices /\ Wrap \in Nat
    BY <1>1, <1>5, DistanceIs, TxRoom
  <2>4. Distance(device.seen, tx.availIdx) \in Nat
    BY <2>3 DEF Indices
  <2>5. ToSee >= 1 /\ ToSee' = ToSee - 1
    BY <1>2, <2>1, <2>2, <2>4 DEF ToSee, One
  <2> QED
    BY <1>1, <2>5, TxRoom
<1>7. ASSUME NEW n \in 0 .. ToSee - 2 PROVE Pending(n)' = Pending(n + 1)
  <2>1. tx'.availRing[(Inc(device.seen) + n) % TxSize]
          = tx.availRing[(device.seen + (n + 1)) % TxSize]
    BY <1>2, <1>5, <1>6, Popped
  <2> QED
    BY <1>2, <2>1 DEF Pending
<1>8. /\ Row(Sending, ToSee) /\ Row(Sending', ToSee - 1)
      /\ \A n \in 0 .. ToSee - 1 : Sending[n + 1] = Pending(n)
      /\ \A n \in 0 .. ToSee - 2 : Sending'[n + 1] = Pending(n)'
  <2>1. \A n \in 0 .. ToSee - 2 : n \in 0 .. ToSee' - 1
    BY <1>6
  <2> QED
    BY <1>1, <1>3, <1>6, <2>1, SendingIs, SendingIsNext DEF SendingRow
<1>9. ASSUME NEW n \in 1 .. ToSee - 1 PROVE Sending'[n] = Sending[n + 1]
  <2>1. n - 1 \in 0 .. ToSee - 2 /\ (n - 1) + 1 = n /\ n \in 0 .. ToSee - 1
    BY <1>6
  <2>2. Sending'[n] = Pending(n - 1)'
    BY <1>8, <2>1
  <2>3. Pending(n - 1)' = Pending(n)
    BY <1>7, <2>1
  <2> QED
    BY <1>8, <2>1, <2>2, <2>3
<1>10. Sending' = Tail(Sending) /\ Sending # <<>>
  <2>1. ToSee \in Nat /\ ToSee > 0
    BY <1>6
  <2> QED
    BY <1>8, <1>9, <2>1, RowTail, RowLen
<1>11. RxStill
  BY <1>2, RxStillIf DEF Handling
<1> QED
  BY <1>2, <1>4, <1>10, <1>11 DEF Link!Transmit, RxStill, Link!reception

LEMMA GiveBackLinks ==
  ASSUME LinkInv, Records', NEW head, GiveBack(head)
  PROVE  Link!GiveBack
<1>1. Records /\ Types /\ TxInv
  BY DEF LinkInv, RxInv
<1>2. /\ rx' = rx /\ packets' = packets /\ delivered' = delivered /\ data' = data
      /\ driver' = driver /\ device'.waiting = device.waiting
      /\ device'.seen = device.seen /\ head \in device.done
      /\ tx'.usedIdx = Inc(tx.usedIdx) /\ tx'.availIdx = tx.availIdx
      /\ tx'.availRing = tx.availRing
  BY <1>1 DEF Records, GiveBack, Fields
<1>3. TxInv'
  BY <1>1, TxGiveBack
<1>4. ToSee' = ToSee
  BY <1>2 DEF ToSee
<1>5. Sending' = Sending
  <2>1. \A n \in 0 .. ToSee - 1 : Pending(n)' = Pending(n)
    BY <1>2 DEF Pending
  <2> QED
    BY <1>1, <1>3, <1>4, <2>1, SendingStays
<1>6. Lent > Len(Sending)
  <2>1. Cardinality(device.done) # 0 /\ Cardinality(device.done) \in Nat /\ ToSee \in Nat
    BY <1>1, <1>2, TxRoom, FS_EmptySet
  <2>2. Len(Sending) = ToSee
    BY <1>1, <2>1, SendingIs, RowLen DEF SendingRow
  <2>3. Lent = Cardinality(device.done) + ToSee
    BY <1>1, LentIs
  <2> QED
    BY <2>1, <2>2, <2>3
<1>7. Lent' = Lent - 1
  <2>1. {tx.usedIdx, device.seen, tx.availIdx} \subseteq Indices
    BY <1>1 DEF TxInv, TxTypes
  <2>2. tx.usedIdx # tx.availIdx
    <3>1. SUFFICES ASSUME tx.usedIdx = tx.availIdx PROVE FALSE
      OBVIOUS
    <3>2. Distance(tx.usedIdx, tx.availIdx) = 0
      BY <2>1, <3>1, DistanceMoves
    <3>3. Lent = One(driver.at = "publish")
      BY <3>2 DEF Lent, One
    <3>4. ToSee = Distance(device.seen, tx.availIdx) + One(driver.at = "publish")
      BY DEF ToSee
    <3>5. Distance(device.seen, tx.availIdx) \in Indices /\ Wrap \in Nat
      BY <1>1, <2>1, DistanceIs, TxRoom
    <3>6. Distance(device.seen, tx.availIdx) \in Nat
      BY <3>5 DEF Indices
    <3>7. Lent = Cardinality(device.done) + ToSee /\ Cardinality(device.done) \in Nat
          /\ Cardinality(device.done) # 0 /\ One(driver.at = "publish") \in Nat
      BY <1>1, <1>2, LentIs, TxRoom, FS_EmptySet DEF One
    <3> QED
      BY <3>3, <3>4, <3>6, <3>7
  <2>3. Distance(Inc(tx.usedIdx), tx.availIdx) = Distance(tx.usedIdx, tx.availIdx) - 1
    BY <2>1, <2>2, DistanceMoves
  <2>4. Distance(tx.usedIdx, tx.availIdx) \in Indices /\ Wrap \in Nat
    BY <1>1, <2>1, DistanceIs, TxRoom
  <2>5. Distance(tx.usedIdx, tx.availIdx) \in Nat
    BY <2>4 DEF Indices
  <2> QED
    BY <1>2, <2>3, <2>5 DEF Lent, One
<1>8. RxStill
  BY <1>2, RxStillIf DEF Handling
<1> QED
  BY <1>2, <1>5, <1>6, <1>7, <1>8 DEF Link!GiveBack, RxStill, Link!reception

(* A frame that came is answered, delivered or discarded.                   *)
Handles ==
  /\ driver.at = "receive" /\ CameUsed
  /\ tx' = tx /\ rx' = rx /\ data' = data /\ packets' = packets /\ device' = device
  /\ driver'.at \in {"send", "recycle"} /\ Handling'
  /\ driver'.frame = IF Asks(CameFrame) THEN ArpAnswer(CameFrame) ELSE NoFrame
  /\ delivered' \in {delivered} \union (IF Routed(CameFrame) THEN {CameFrame.payload} ELSE {})

(* The frames that will be there to handle, after `skip' of those held.     *)
LEMMA ComingNextIs ==
  ASSUME RxInv', NEW skip \in {0, 1}, Handling' <=> skip = 1
  PROVE  /\ ToHandle' = Came' - skip /\ ToHandle' \in Nat /\ Row(Coming', ToHandle')
         /\ \A n \in 0 .. ToHandle' - 1 :
              Coming'[n + 1] = packets'[rx'.usedRing[(rx'.seen + (n + skip)) % RxSize]]
<1>1. ComingRow' /\ One(Handling)' = skip
  BY ComingIsNext DEF One
<1>2. \A n \in 0 .. ToHandle' - 1 :
        Coming'[n + 1] = packets'[rx'.usedRing[(rx'.seen + (n + One(Handling)')) % RxSize]]
  BY <1>1 DEF ComingRow, Held
<1> QED
  BY <1>1, <1>2 DEF ComingRow, ToHandle

LEMMA HandlesWhole ==
  ASSUME LinkInv, Records', Answer \/ Deliver \/ Discard
  PROVE  Handles
<1>1. Records /\ driver.at = "receive" /\ driver.frame = NoFrame
  BY DEF LinkInv, RxInv, LinkTypes, Answer, Deliver, Discard
<1>2. CASE Answer
  BY <1>1, <1>2 DEF Records, Answer, Handles, Handling
<1>3. CASE Deliver
  <2>1. ~Asks(CameFrame) /\ Routed(CameFrame)
    BY <1>3 DEF Deliver, Asks, Routed, UdpAccepts, MacAccepts
  <2> QED
    BY <1>1, <1>3, <2>1 DEF Records, Deliver, Handles, Handling, Goto
<1>4. CASE Discard
  BY <1>1, <1>4 DEF Records, Discard, Handles, Handling, Goto
<1> QED
  BY <1>2, <1>3, <1>4

LEMMA HandleLinks ==
  ASSUME LinkInv, RxInv', Handles
  PROVE  Link!Handle
<1>1. Records /\ Types /\ RxInv /\ driver.frame = NoFrame /\ driver.back = "receive"
  BY DEF LinkInv, RxInv, LinkTypes, Handles, Types
<1>2. One(Handling) = 0 /\ One(Handling)' = 1 /\ Came' = Came
  BY <1>1 DEF Handles, Handling, One, Came
<1>3. Came \in Nat /\ Came > 0
  <2>1. Came \in Nat /\ Came # 0
    BY <1>1, RxRoom, DistanceMoves DEF Handles, CameUsed, Came, Types
  <2> QED
    BY <2>1
<1>4. ToHandle = Came /\ ToHandle' = Came - 1
  BY <1>2, <1>3 DEF ToHandle
<1>5. /\ Row(Coming, Came) /\ Row(Coming', Came - 1)
      /\ \A n \in 0 .. Came - 1 : Coming[n + 1] = Held(n)
      /\ \A n \in 0 .. Came - 2 : Coming'[n + 1] = Held(n + 1)
  <2>1. /\ Row(Coming', ToHandle')
        /\ \A n \in 0 .. ToHandle' - 1 :
             Coming'[n + 1] = packets'[rx'.usedRing[(rx'.seen + (n + 1)) % RxSize]]
    BY ComingNextIs DEF Handles
  <2>2. Row(Coming, ToHandle) /\ \A n \in 0 .. ToHandle - 1 : Coming[n + 1] = Held(n + One(Handling))
    BY <1>1, ComingIs DEF ComingRow
  <2>3. \A n : packets'[rx'.usedRing[(rx'.seen + (n + 1)) % RxSize]] = Held(n + 1)
    BY DEF Held, Handles
  <2>4. \A n \in 0 .. Came - 2 : n \in 0 .. ToHandle' - 1
    BY <1>3, <1>4
  <2>5. \A n \in 0 .. Came - 1 : n + One(Handling) = n
    BY <1>2
  <2> QED
    BY <1>2, <1>4, <2>1, <2>2, <2>3, <2>4, <2>5
<1>6. Coming # <<>> /\ Head(Coming) = Held(0)
  <2>1. Head(Coming) = Coming[1] /\ Coming # <<>>
    BY <1>3, <1>5, RowLen
  <2>2. 0 \in 0 .. Came - 1 /\ 0 + 1 = 1
    BY <1>3
  <2> QED
    BY <1>5, <2>1, <2>2
<1>7. Coming' = Tail(Coming)
  <2>1. ASSUME NEW n \in 1 .. Came - 1 PROVE Coming'[n] = Coming[n + 1]
    <3>1. n - 1 \in 0 .. Came - 2 /\ (n - 1) + 1 = n /\ n \in 0 .. Came - 1
      BY <1>3
    <3>2. Coming'[n] = Held(n)
      BY <1>5, <3>1
    <3> QED
      BY <1>5, <3>1, <3>2
  <2> QED
    BY <1>3, <1>5, <2>1, RowTail
<1>8. Held(0) = CameFrame
  <2>1. 0 \in 0 .. Came - 1 /\ rx.seen + 0 = rx.seen
    BY <1>1, <1>3, RxRoom DEF Types, Indices
  <2>2. CameDesc \in RxUsed /\ Held(0) = packets[CameDesc]
    BY <1>1, <2>1, ComingIs DEF ComingRow, Held, CameDesc
  <2>3. rx.addr[CameDesc] = CameDesc
    BY <1>1, <2>2 DEF RxInv, RxOnce, RxFree
  <2> QED
    BY <2>2, <2>3 DEF CameFrame
<1>9. TxStill
  BY <1>1, TxStillIf DEF Handles
<1>10. Spare' = Spare /\ device'.waiting = device.waiting
  BY DEF Spare, Handles
<1>11. /\ driver'.frame = IF Link!Asks(CameFrame) THEN Link!ArpAnswer(CameFrame) ELSE NoFrame
       /\ delivered' \in {delivered} \union
                           (IF Link!Routed(CameFrame) THEN {CameFrame.payload} ELSE {})
  BY LinkFrames DEF Handles
<1>12. Head(Coming) = CameFrame
  BY <1>6, <1>8
<1> QED
  BY <1>1, <1>6, <1>7, <1>9, <1>10, <1>11, <1>12 DEF Link!Handle, TxStill

(* The frames to handle stay when those held do.                            *)
LEMMA ComingStays ==
  ASSUME RxInv, RxInv', NEW skip \in {0, 1}, Handling' <=> skip = 1, ToHandle' = ToHandle,
         \A n \in 0 .. ToHandle - 1 :
           packets'[rx'.usedRing[(rx'.seen + (n + skip)) % RxSize]] = Held(n + One(Handling))
  PROVE  Coming' = Coming
<1>1. /\ ToHandle \in Nat /\ Row(Coming, ToHandle) /\ Row(Coming', ToHandle)
      /\ \A n \in 0 .. ToHandle - 1 : Coming[n + 1] = Held(n + One(Handling))
  BY ComingIs, ComingNextIs DEF ComingRow
<1>2. \A n \in 0 .. ToHandle - 1 :
        Coming'[n + 1] = packets'[rx'.usedRing[(rx'.seen + (n + skip)) % RxSize]]
  BY ComingNextIs
<1>3. ASSUME NEW n \in 1 .. ToHandle PROVE Coming'[n] = Coming[n]
  <2>1. n - 1 \in 0 .. ToHandle - 1 /\ (n - 1) + 1 = n
    BY <1>1
  <2> QED
    BY <1>1, <1>2, <2>1
<1> QED
  BY <1>1, <1>3, RowSame

LEMMA RecycleUnseen ==
  ASSUME LinkInv, Records', Types', Recycle
  PROVE  UNCHANGED Link!vars
<1>1. Records /\ Types /\ RxInv /\ DOMAIN packets = 0 .. NumBuffers - 1
  BY DEF LinkInv, RxInv, LinkTypes
<1>2. RxInv' /\ Came \in Nat /\ Came >= 1 /\ Came' = Came - 1
  BY <1>1, RxRecycle, RxRoom
<1>3. /\ tx' = tx /\ data' = data /\ device' = device /\ delivered' = delivered
      /\ driver.at = "recycle" /\ driver'.at = "offer" /\ driver.back = "receive"
      /\ driver'.back = "receive" /\ driver'.frame = driver.frame
  BY <1>1 DEF Recycle, Goto, Records, Types
<1>4. Spare' = Spare
  BY <1>1, <1>2 DEF Recycle, UseBuffer, Freed, Spare, RxInv, Records, Fields
<1>5. One(Handling) = 1 /\ One(Handling)' = 0 /\ ToHandle = Came - 1 /\ ToHandle' = ToHandle
  BY <1>2, <1>3 DEF One, Handling, ToHandle
<1>6. \A n \in 0 .. ToHandle - 1 :
        packets'[rx'.usedRing[(rx'.seen + (n + 0)) % RxSize]] = Held(n + One(Handling))
  <2>1. \A n \in 0 .. Came - 2 :
          packets'[rx'.usedRing[(rx'.seen + n) % RxSize]] = Held(n + 1)
    BY <1>1, RecycleHeld DEF Held
  <2>2. \A n \in 0 .. ToHandle - 1 : n \in 0 .. Came - 2 /\ n + 0 = n
    BY <1>2, <1>5
  <2> QED
    BY <1>5, <2>1, <2>2
<1>7. Coming' = Coming
  <2>1. ~Handling'
    BY <1>3 DEF Handling
  <2> QED
    BY <1>1, <1>2, <1>5, <1>6, <2>1, ComingStays
<1>8. TxStill
  BY <1>3, TxStillIf
<1> QED
  BY <1>3, <1>4, <1>7, <1>8, Stutters DEF RxStill

LEMMA OfferLinks ==
  ASSUME LinkInv, Records', Types', Offer
  PROVE  Link!Recycle
<1>1. Records /\ Types /\ RxInv /\ RxInv' /\ Came' = Came /\ Offered' = Offered
  BY RxOffer DEF LinkInv, RxInv
<1>2. /\ tx' = tx /\ data' = data /\ device' = device /\ delivered' = delivered
      /\ packets' = packets /\ driver'.frame = driver.frame
      /\ driver.at = "offer" /\ driver'.at = "receive" /\ driver.back = "receive"
      /\ driver'.back = "receive"
      /\ rx'.usedRing = rx.usedRing /\ rx'.seen = rx.seen
  BY <1>1 DEF Offer, Goto, Records, Types, Fields
<1>3. One(Handling) = 0 /\ ~Handling' /\ ~Handling /\ One(Handling)' = 0
  BY <1>2 DEF One, Handling
<1>4. /\ Came \in Nat /\ Offered \in Nat /\ Came + Offered = Buffers /\ Buffers \in Nat
  BY <1>1, RxRoom
<1>5. Spare \in Nat /\ Offered = Spare + 1 /\ Spare' = Spare + 1
  <2>1. Spare \in Indices /\ Wrap \in Nat
    BY <1>1, RxRoom, DistanceIs DEF Spare, Types
  <2>2. Spare \in Nat
    BY <2>1 DEF Indices
  <2>3. Offered = Spare + 1 /\ Offered' = Distance(rx'.usedIdx, rx'.availIdx) + 0
    BY <1>2 DEF Offered, Spare, One
  <2> DEFINE t == Distance(rx'.usedIdx, rx'.availIdx)
  <2>4. t \in Nat
    <3>1. t \in Indices /\ Wrap \in Nat
      BY <1>1, RxRoom, DistanceIs DEF Types
    <3> QED
      BY <3>1 DEF Indices
  <2>5. Offered' = t + 0
    BY <2>3
  <2> HIDE DEF t
  <2>6. t = Spare + 1
    BY <1>1, <2>2, <2>3, <2>4, <2>5
  <2> QED
    BY <2>2, <2>3, <2>6 DEF t, Spare
<1>6. ToHandle = Came /\ ToHandle' = ToHandle
  BY <1>1, <1>3, <1>4 DEF ToHandle
<1>7. Coming' = Coming
  <2>1. \A n \in 0 .. ToHandle - 1 :
          packets'[rx'.usedRing[(rx'.seen + (n + 0)) % RxSize]] = Held(n + One(Handling))
    BY <1>2, <1>3 DEF Held
  <2> QED
    BY <1>1, <1>3, <1>6, <2>1, ComingStays
<1>8. Len(Coming) = Came
  BY <1>1, <1>4, <1>6, ComingIs, RowLen DEF ComingRow
<1>9. Spare + Len(Coming) < Buffers
  BY <1>4, <1>5, <1>8
<1>10. TxStill
  BY <1>2, TxStillIf
<1> QED
  BY <1>2, <1>5, <1>7, <1>9, <1>10
  DEF Link!Recycle, Link!transmission, TxStill

LEMMA ReceiveEndsLinks ==
  ASSUME LinkInv, Records', ReceiveEnds
  PROVE  Link!Resume \/ UNCHANGED Link!vars
<1>1. Records /\ Types /\ RxInv
  BY DEF LinkInv, RxInv
<1>2. /\ tx' = tx /\ rx' = rx /\ data' = data /\ packets' = packets /\ delivered' = delivered
      /\ driver.at = "receive" /\ driver'.at = "poll" /\ driver'.frame = driver.frame
      /\ driver'.back = driver.back /\ device'.seen = device.seen /\ ~CameUsed
      /\ (device'.waiting = FALSE \/ device'.waiting = device.waiting)
  BY <1>1 DEF Records, ReceiveEnds
<1>3. TxStill
  BY <1>2, TxStillIf
<1>4. Coming' = Coming /\ Spare' = Spare
  BY <1>1, <1>2 DEF Coming, Spare, Handling, Types
<1>5. Spare > 0
  <2>1. Came = 0
    BY <1>1, <1>2, DistanceMoves DEF CameUsed, Came, Types
  <2>2. Offered = Spare + 0
    BY <1>2 DEF Offered, Spare, One
  <2>3. Came + Offered = Buffers /\ Offered \in Nat
    BY <1>1, RxRoom
  <2>4. Spare \in Indices /\ Wrap \in Nat
    BY <1>1, RxRoom, DistanceIs DEF Spare, Types
  <2>5. Spare \in Nat
    BY <2>4 DEF Indices
  <2> QED
    BY <2>1, <2>2, <2>3, <2>5, BuffersExist
<1>6. CASE device'.waiting = device.waiting
  <2>1. RxStill
    BY <1>2, <1>4, <1>6 DEF RxStill
  <2> QED
    BY <1>2, <1>3, <2>1, Stutters
<1>7. CASE device'.waiting = FALSE /\ device.waiting = TRUE
  BY <1>2, <1>3, <1>4, <1>5, <1>7 DEF Link!Resume, Link!transmission, TxStill
<1>8. device.waiting \in BOOLEAN
  BY DEF LinkInv
<1> QED
  BY <1>2, <1>6, <1>7, <1>8

LEMMA ComeLinks ==
  ASSUME LinkInv, Records', Types', NEW f, Come(f)
  PROVE  Link!Come(f)
<1>1. Records /\ Types /\ RxInv /\ DOMAIN packets = 0 .. NumBuffers - 1
  BY DEF LinkInv, RxInv, LinkTypes
<1>2. RxInv' /\ Came' = Came + 1 /\ Offered' = Offered - 1 /\ Came \in Nat /\ Offered \in Nat
  BY <1>1, RxCome, RxRoom
<1>3. /\ tx' = tx /\ data' = data /\ device' = device /\ delivered' = delivered
      /\ driver' = driver /\ ~device.waiting /\ rx.usedIdx # rx.availIdx
  BY DEF Come
<1>4. Spare \in Nat /\ Spare > 0 /\ Spare' = Spare - 1
  <2>1. Spare \in Indices /\ Spare' \in Indices /\ Wrap \in Nat
    BY <1>1, RxRoom, DistanceIs DEF Spare, Types
  <2>2. Spare \in Nat /\ Spare' \in Nat
    BY <2>1 DEF Indices
  <2>3. Spare # 0
    BY <1>1, <1>3, DistanceMoves DEF Spare, Types
  <2>4. One(driver.at = "offer") \in Nat
    BY DEF One
  <2>5. Offered = Spare + One(driver.at = "offer") /\ Offered' = Spare' + One(driver.at = "offer")
    BY <1>3 DEF Offered, Spare
  <2> QED
    BY <1>2, <2>2, <2>3, <2>4, <2>5
<1> DEFINE skip == One(Handling)
<1>5. /\ skip \in {0, 1} /\ (Handling' <=> skip = 1) /\ (Handling => Came # 0)
  BY <1>1, <1>3, DistanceMoves DEF One, Handling, RxInv, RxCounts, Came, Types
<1>6. ToHandle \in Nat /\ ToHandle + skip = Came /\ ToHandle' = ToHandle + 1
  <2>1. ToHandle = Came - skip
    BY DEF ToHandle
  <2>2. ToHandle' = Came' - skip
    BY <1>2, <1>5, ComingNextIs
  <2> QED
    BY <1>1, <1>2, <1>5, <2>1, <2>2, ComingIs DEF ComingRow
<1>7. /\ Row(Coming, ToHandle) /\ Row(Coming', ToHandle + 1)
      /\ \A n \in 0 .. ToHandle - 1 : Coming[n + 1] = Held(n + skip)
      /\ \A n \in 0 .. ToHandle :
           Coming'[n + 1] = packets'[rx'.usedRing[(rx'.seen + (n + skip)) % RxSize]]
  <2>1. /\ Row(Coming', ToHandle + 1)
        /\ \A n \in 0 .. (ToHandle + 1) - 1 :
             Coming'[n + 1] = packets'[rx'.usedRing[(rx'.seen + (n + skip)) % RxSize]]
    BY <1>2, <1>5, <1>6, ComingNextIs
  <2>2. \A n \in 0 .. ToHandle : n \in 0 .. (ToHandle + 1) - 1
    BY <1>6
  <2> QED
    BY <1>1, <2>1, <2>2, ComingIs DEF ComingRow
<1>8. /\ packets'[rx'.usedRing[(rx'.seen + Came) % RxSize]] = f
      /\ \A n \in 0 .. Came - 1 :
           packets'[rx'.usedRing[(rx'.seen + n) % RxSize]] = Held(n)
  <2>1. (\A n \in {Came} : Held(n)' = f) /\ \A n \in 0 .. Came - 1 : Held(n)' = Held(n)
    BY <1>1, ComeHeld
  <2>2. Came \in {Came}
    OBVIOUS
  <2>3. \A n \in {Came} : packets'[rx'.usedRing[(rx'.seen + n) % RxSize]] = f
    BY <2>1 DEF Held
  <2>4. \A n \in 0 .. Came - 1 : packets'[rx'.usedRing[(rx'.seen + n) % RxSize]] = Held(n)
    BY <2>1 DEF Held
  <2> QED
    BY <2>2, <2>3, <2>4
<1>9. Coming' = Append(Coming, f)
  <2>1. ASSUME NEW n \in 1 .. ToHandle PROVE Coming'[n] = Coming[n]
    <3>1. /\ n - 1 \in 0 .. ToHandle - 1 /\ n - 1 \in 0 .. ToHandle /\ (n - 1) + 1 = n
          /\ (n - 1) + skip \in 0 .. Came - 1
      BY <1>5, <1>6
    <3> HIDE DEF skip
    <3> QED
      BY <1>7, <1>8, <3>1
  <2>2. Coming'[ToHandle + 1] = f
    <3>1. ToHandle \in 0 .. ToHandle
      BY <1>6
    <3> QED
      BY <1>6, <1>7, <1>8, <3>1
  <2> QED
    BY <1>6, <1>7, <2>1, <2>2, RowAppend
<1>10. TxStill
  BY <1>3, TxStillIf
<1> QED
  BY <1>3, <1>4, <1>9, <1>10 DEF Link!Come, Link!transmission, TxStill

LEMMA WaitLinks ==
  ASSUME LinkInv, Records', Wait
  PROVE  Link!Wait
<1>1. Records /\ Types /\ RxInv
  BY DEF LinkInv, RxInv
<1>2. /\ tx' = tx /\ rx' = rx /\ data' = data /\ packets' = packets /\ delivered' = delivered
      /\ driver' = driver /\ device'.seen = device.seen /\ device'.waiting = TRUE
      /\ rx.usedIdx = rx.availIdx
  BY <1>1 DEF Records, Wait
<1>3. Spare = 0
  BY <1>1, <1>2, DistanceMoves DEF Spare, Types
<1>4. TxStill
  BY <1>2, TxStillIf
<1>5. Coming' = Coming /\ Spare' = Spare
  BY <1>2 DEF Coming, Spare, Handling
<1> QED
  BY <1>2, <1>3, <1>4, <1>5 DEF Link!Wait, Link!transmission, TxStill

LEMMA LinkStarts == Init => Link!Init
<1> SUFFICES ASSUME Init PROVE Link!Init
  OBVIOUS
<1>1. /\ LinkInv /\ RxInv /\ TxInv /\ Wrap \in Nat
  BY LinkInit, RxRoom DEF LinkInv
<1>2. /\ driver.frame = NoFrame /\ driver.at = "poll" /\ driver.back = "receive"
      /\ device.seen = 0 /\ device.waiting = FALSE /\ delivered = NoMessage
  BY DEF Init
<1>3. /\ tx.availIdx = 0 /\ tx.usedIdx = 0 /\ rx.seen = 0 /\ rx.usedIdx = 0
      /\ rx.availIdx = Buffers
  BY SetupIs, NetworkAssumption DEF Init, Posted, Fields
<1>4. 0 \in Indices /\ Buffers \in Indices /\ Buffers >= 0
  BY <1>1, BuffersExist DEF Indices
<1>5. Distance(0, 0) = 0 /\ Distance(0, Buffers) = Buffers
  <2>1. Distance(0, Buffers) = IF Buffers >= 0 THEN Buffers - 0 ELSE Buffers - 0 + Wrap
    BY <1>4, DistanceIs
  <2>2. Distance(0, 0) = 0
    BY <1>4, DistanceMoves
  <2> QED
    BY <1>4, <2>1, <2>2, BuffersExist
<1>6. /\ ToSee = 0 /\ Lent = 0 /\ ToHandle = 0 /\ Spare = Buffers
  BY <1>2, <1>3, <1>5 DEF ToSee, Lent, ToHandle, Came, Spare, One, Handling
<1>7. Sending = <<>> /\ Coming = <<>>
  BY <1>1, <1>6, SendingIs, ComingIs, RowLen DEF SendingRow, ComingRow
<1> QED
  BY <1>2, <1>6, <1>7 DEF Link!Init

LEMMA LinkInvNext ==
  ASSUME LinkInv, [Next]_vars
  PROVE  LinkInv'
<1>1. Records
  BY DEF LinkInv, RxInv
<1>2. device'.waiting \in BOOLEAN
  <2> DEFINE w == device.waiting
             Told == w' = w \/ w' = TRUE \/ w' = FALSE
  <2>1. ASSUME UNCHANGED vars PROVE Told
    BY <2>1 DEF vars
  <2>2. ASSUME \/ PortEmpty \/ Reclaim \/ SendFails \/ SendFills \/ Publish
               \/ Answer \/ Deliver \/ Discard \/ Recycle \/ Offer
        PROVE  Told
    BY <2>2 DEF PortEmpty, Reclaim, SendFails, SendFills, Publish, Answer, Deliver, Discard,
                Recycle, Offer
  <2>3. ASSUME NEW m, PortTake(m) PROVE Told
    BY <2>3 DEF PortTake
  <2>4. ASSUME Flush \/ ReceiveEnds \/ Transmit \/ Sleep \/ Wait PROVE Told
    BY <1>1, <2>4 DEF Records, Flush, ReceiveEnds, Transmit, Sleep, Wait
  <2>5. ASSUME NEW head, GiveBack(head) PROVE Told
    BY <1>1, <2>5 DEF Records, GiveBack
  <2>6. ASSUME NEW f, Come(f) PROVE Told
    BY <2>6 DEF Come
  <2>7. Told
    <3> HIDE DEF Told
    <3> QED
      BY <2>1, <2>2, <2>3, <2>4, <2>5, <2>6 DEF Next, Driver, Device
  <2>8. w \in BOOLEAN
    BY DEF LinkInv
  <2> HIDE DEF w
  <2>9. w' \in BOOLEAN
    BY <2>7, <2>8, Zenon
  <2> QED
    BY <2>9 DEF w
<1> QED
  BY <1>2, TxNext, RxNext, LinkTypesNext DEF LinkInv, RxInv

LEMMA LinkNext ==
  ASSUME LinkInv, [Next]_vars
  PROVE  [Link!Next]_Link!vars
<1>1. Records /\ Types /\ Records' /\ Types' /\ LinkInv' /\ RxInv'
  BY RecordsNext, TypesNext, LinkInvNext DEF LinkInv, RxInv
<1>2. CASE PortEmpty \/ Flush \/ Sleep \/ UNCHANGED vars
  BY <1>1, <1>2, StepsUnseen
<1>3. ASSUME NEW m \in Messages, PortTake(m) PROVE Link!Next
  BY <1>1, <1>3, PortTakeLinks DEF Link!Next
<1>4. CASE Reclaim
  BY <1>1, <1>4, ReclaimUnseen
<1>5. CASE SendFails
  BY <1>1, <1>5, SendFailsLinks DEF Link!Next
<1>6. CASE SendFills
  BY <1>1, <1>6, SendFillsLinks DEF Link!Next
<1>7. CASE Publish
  BY <1>1, <1>7, PublishUnseen
<1>8. CASE Answer \/ Deliver \/ Discard
  BY <1>1, <1>8, HandlesWhole, HandleLinks DEF Link!Next
<1>9. CASE Recycle
  BY <1>1, <1>9, RecycleUnseen
<1>10. CASE Offer
  BY <1>1, <1>10, OfferLinks DEF Link!Next
<1>11. CASE ReceiveEnds
  BY <1>1, <1>11, ReceiveEndsLinks DEF Link!Next
<1>12. CASE Transmit
  BY <1>1, <1>12, TransmitLinks DEF Link!Next
<1>13. ASSUME NEW head, GiveBack(head) PROVE Link!Next
  BY <1>1, <1>13, GiveBackLinks DEF Link!Next
<1>14. ASSUME NEW f \in Frames, Come(f) PROVE Link!Next
  BY <1>1, <1>14, ComeLinks DEF Link!Next
<1>15. CASE Wait
  BY <1>1, <1>15, WaitLinks DEF Link!Next
<1> QED
  BY <1>2, <1>3, <1>4, <1>5, <1>6, <1>7, <1>8, <1>9, <1>10, <1>11, <1>12, <1>13, <1>14, <1>15
  DEF Next, Driver, Device

(* The two queues of descriptors, with driver and device interleaved at every *)
(* access, implement the link, for all sizes of the queues and numbers of     *)
(* buffers: frames leave whole, in order and once, one is dropped only while  *)
(* the device has every slot, and those that come are handled in order and    *)
(* once.  What the link owes to fairness is not stated here.                  *)
THEOREM QueuesImplementLink == Spec => Link!Init /\ [][Link!Next]_Link!vars
<1>1. Init => LinkInv /\ Link!Init
  BY LinkInit, LinkStarts
<1>2. LinkInv /\ [Next]_vars => LinkInv' /\ [Link!Next]_Link!vars
  BY LinkInvNext, LinkNext
<1> QED
  BY <1>1, <1>2, PTL DEF Spec
================================================================================
