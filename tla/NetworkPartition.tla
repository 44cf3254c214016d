---------------------------- MODULE NetworkPartition ----------------------------
(***************************************************************************)
(* A network partition on the virtio driver (syspart/components): a single *)
(* process that takes messages from a port, sends them as frames, and       *)
(* handles the frames that come (__components_activity__).  Driver and      *)
(* device share two queues of descriptors in memory and never wait for one  *)
(* another; the device goes on between any two accesses of the driver.      *)
(*                                                                         *)
(* The kernel's ports are reduced to their answers: a reception finds a     *)
(* message or none, a delivery finds room or not.  The entries of a ring    *)
(* and the contents of a buffer that nobody reads any more are forgotten.   *)
(***************************************************************************)
EXTENDS NetworkFrames, Integers, Sequences, FiniteSets

CONSTANTS TxSize, RxSize, \* vring.num of each queue
          NumBuffers,     \* POK_MAX_RECEIVE_BUFFERS
          Wrap,           \* the indices are counted modulo 2^16
          Burst           \* bound: frames that come in one activity

(* The device chooses the sizes, powers of 2; a frame takes 2 descriptors.  *)
ASSUME NetworkAssumption ==
  /\ TxSize \in Nat \ {0} /\ TxSize % 2 = 0 /\ Wrap % TxSize = 0
  /\ RxSize \in Nat \ {0} /\ Wrap \in Nat /\ Wrap % RxSize = 0 /\ Wrap > RxSize
  /\ NumBuffers \in Nat \ {0} /\ Burst \in Nat \ {0}
  /\ NoFrame \notin Frames
  /\ \A m \in Messages : UdpFrame(m) # NoFrame
  /\ \A f \in Frames : ArpAnswer(f) # NoFrame

VARIABLES tx, rx,    \* struct virtio_virtqueue: tx_vq, rx_vq
          data,      \* send_buffers
          packets,   \* receive_buffers
          driver,    \* where the process is, and its local variables
          device,    \* seen: how far it has read the avail ring of tx;
                     \* done: frames sent and not given back;
                     \* awake: it looks at tx; waiting: a frame waits for rx
          delivered  \* the last message delivered to a port

vars == <<tx, rx, data, packets, driver, device, delivered>>

Min2(a, b) == IF a < b THEN a ELSE b
Buffers == Min2(NumBuffers, RxSize)

(* uint16_t arithmetic of the ring indices.                                *)
Inc(i) == (i + 1) % Wrap
Distance(i, j) == (j - i + Wrap) % Wrap

(* virtio_virtqueue_setup.                                                 *)
Setup(size) ==
  [free |-> 0, numFree |-> size, seen |-> 0,
   next     |-> [d \in 0 .. size - 1 |-> IF d = size - 1 THEN 0 ELSE d + 1],
   chained  |-> [d \in 0 .. size - 1 |-> FALSE],
   addr     |-> [d \in 0 .. size - 1 |-> 0],
   availIdx |-> 0, availRing |-> [i \in 0 .. size - 1 |-> 0],
   usedIdx  |-> 0, usedRing  |-> [i \in 0 .. size - 1 |-> 0]]

(* use_receive_buffer: a descriptor for a buffer, and its entry in the avail *)
(* ring; it counts for the device once the index has moved past it.        *)
UseBuffer(q, buf) ==
  IF q.numFree < 1 THEN q
  ELSE [q EXCEPT !.numFree = @ - 1,
                 !.free = q.next[q.free],
                 !.addr[q.free] = buf,
                 !.availRing[q.availIdx % RxSize] = q.free]

(* setup_receive_buffers has given buffer d to descriptor d, as long as     *)
(* there were both.                                                        *)
Posted ==
  [Setup(RxSize) EXCEPT
     !.free = Buffers % RxSize,
     !.numFree = RxSize - Buffers,
     !.addr = [d \in 0 .. RxSize - 1 |-> IF d < Buffers THEN d ELSE 0],
     !.availIdx = Buffers,
     !.availRing = [i \in 0 .. RxSize - 1 |-> IF i < Buffers THEN i ELSE 0]]

Init ==
  /\ tx = Setup(TxSize)
  /\ rx = Posted
  /\ data = [h \in 0 .. TxSize - 1 |-> NoFrame]
  /\ packets = [b \in 0 .. NumBuffers - 1 |-> NoFrame]
  /\ driver = [at |-> "poll", frame |-> NoFrame, back |-> "receive", old |-> 0]
  /\ device = [seen |-> 0, done |-> {}, awake |-> FALSE, waiting |-> FALSE]
  /\ delivered = NoMessage

Goto(l) == driver' = [driver EXCEPT !.at = l]

--------------------------------------------------------------------------------
(* arinc_sender_activity: the port is empty, or a message goes to send_frame *)
(* through udp_ip_send and mac_send.                                       *)
PortEmpty ==
  /\ driver.at = "poll"
  /\ Goto("receive")
  /\ UNCHANGED <<tx, rx, data, packets, device, delivered>>

PortTake(m) ==
  /\ driver.at = "poll"
  /\ driver' = [driver EXCEPT !.at = "send", !.frame = UdpFrame(m)]
  /\ UNCHANGED <<tx, rx, data, packets, device, delivered>>

(* Mutant: only the first descriptor is reclaimed, as the driver does for   *)
(* the frames that come.                                                   *)
WalkOne(q, head) == [n \in 0 .. TxSize |-> head]

(* The descriptors of the chain that starts at `head', in order: walk[n] is *)
(* the last one or the one n steps further.                                *)
Walk(q, head) ==
  LET walk[n \in 0 .. TxSize] ==
        IF n = 0 THEN head
        ELSE IF q.chained[walk[n - 1]] THEN q.next[walk[n - 1]] ELSE walk[n - 1]
  IN  walk

(* One turn of the loop of reclaim_send_buffers: a chain that the device    *)
(* has given back goes to the front of the free list.                      *)
Returned == tx.seen # tx.usedIdx

Reclaim ==
  /\ driver.at = "send" /\ Returned
  /\ LET position == tx.seen % TxSize
         head == tx.usedRing[position]
         walk == Walk(tx, head)
         tail == walk[TxSize]
     IN  /\ tx' = [tx EXCEPT
                     !.numFree = @ + Cardinality({walk[n] : n \in 0 .. TxSize}),
                     !.next[tail] = tx.free,
                     !.free = head,
                     !.seen = Inc(@),
                     !.usedRing[position] = 0]
         /\ data' = [data EXCEPT ![head] = NoFrame]
  /\ UNCHANGED <<rx, packets, driver, device, delivered>>

(* Mutant: the frame is dropped without reclaiming first.                   *)
NoDescriptorYet == tx.numFree < 1

(* The loop has seen nothing more to reclaim, and send_frame finds no free  *)
(* descriptor: it returns FALSE, which nobody looks at.                    *)
NoDescriptor == ~Returned /\ tx.numFree < 1

SendFails ==
  /\ driver.at = "send" /\ NoDescriptor
  /\ driver' = [driver EXCEPT !.at = "flush", !.frame = NoFrame]
  /\ UNCHANGED <<tx, rx, data, packets, device, delivered>>

(* ... or it fills two of them, for the header and for its copy of the      *)
(* frame, and the entry of the avail ring.                                 *)
FillChain(head) ==
  LET tail == tx.next[head]
  IN  [tx EXCEPT !.numFree = @ - 2,
                 !.chained = [@ EXCEPT ![head] = TRUE, ![tail] = FALSE],
                 !.addr[tail] = head,
                 !.free = tx.next[tail],
                 !.availRing[tx.availIdx % TxSize] = head]

SendFills ==
  /\ driver.at = "send" /\ ~Returned /\ tx.numFree >= 1
  /\ tx' = FillChain(tx.free)
  /\ data' = [data EXCEPT ![tx.free] = driver.frame]
  /\ driver' = [driver EXCEPT !.at = "publish", !.frame = NoFrame]
  /\ UNCHANGED <<rx, packets, device, delivered>>

(* Mutant: only a send that fails is flushed.                               *)
PublishUnflushed ==
  /\ driver.at = "publish"
  /\ tx' = [tx EXCEPT !.availIdx = Inc(@)]
  /\ driver' = [driver EXCEPT !.at = driver.back, !.back = "receive"]
  /\ UNCHANGED <<rx, data, packets, device, delivered>>

(* The device may see the frame from here on.                              *)
Publish ==
  /\ driver.at = "publish"
  /\ tx' = [tx EXCEPT !.availIdx = Inc(@)]
  /\ Goto("flush")
  /\ UNCHANGED <<rx, data, packets, device, delivered>>

(* flush_send, and the return to the activity that sends.                  *)
Flush ==
  /\ driver.at = "flush"
  /\ device' = [device EXCEPT !.awake = TRUE]
  /\ driver' = [driver EXCEPT !.at = driver.back, !.back = "receive"]
  /\ UNCHANGED <<tx, rx, data, packets, delivered>>
--------------------------------------------------------------------------------
(* reclaim_receive_buffers: the frame in the next buffer goes up to         *)
(* mac_receive and from there to a port, to the ARP answerer, which sends   *)
(* a frame itself, or nowhere.                                             *)
CameUsed == rx.seen # rx.usedIdx
CameDesc == rx.usedRing[rx.seen % RxSize]
CameFrame == packets[rx.addr[CameDesc]]

Answer ==
  /\ driver.at = "receive" /\ CameUsed /\ Asks(CameFrame)
  /\ driver' = [driver EXCEPT !.at = "send", !.back = "recycle",
                              !.frame = ArpAnswer(CameFrame)]
  /\ UNCHANGED <<tx, rx, data, packets, device, delivered>>

Deliver ==
  /\ driver.at = "receive" /\ CameUsed /\ Routed(CameFrame)
  /\ delivered' \in {delivered, CameFrame.payload}
  /\ Goto("recycle")
  /\ UNCHANGED <<tx, rx, data, packets, device>>

Discard ==
  /\ driver.at = "receive" /\ CameUsed
  /\ ~Asks(CameFrame) /\ ~Routed(CameFrame)
  /\ Goto("recycle")
  /\ UNCHANGED <<tx, rx, data, packets, device, delivered>>

(* The descriptor is freed, and use_receive_buffer takes one for the same   *)
(* buffer.                                                                 *)
Freed(q, desc) ==
  [q EXCEPT !.numFree = @ + 1, !.next[desc] = q.free, !.free = desc]

Recycle ==
  /\ driver.at = "recycle"
  /\ LET buf == rx.addr[CameDesc]
     IN  /\ rx' = [UseBuffer(Freed(rx, CameDesc), buf) EXCEPT
                     !.seen = Inc(@), !.usedRing[rx.seen % RxSize] = 0]
         /\ packets' = [packets EXCEPT ![buf] = NoFrame]
  /\ Goto("offer")
  /\ UNCHANGED <<tx, data, device, delivered>>

Offer ==
  /\ driver.at = "offer"
  /\ rx' = [rx EXCEPT !.availIdx = Inc(@)]
  /\ Goto("receive")
  /\ UNCHANGED <<tx, data, packets, device, delivered>>

(* The loop ends; the device is notified if a buffer has moved.            *)
Moved == driver.old # rx.seen

ReceiveEnds ==
  /\ driver.at = "receive" /\ ~CameUsed
  /\ device' = IF Moved THEN [device EXCEPT !.waiting = FALSE] ELSE device
  /\ driver' = [driver EXCEPT !.at = "poll", !.old = rx.seen]
  /\ UNCHANGED <<tx, rx, data, packets, delivered>>
--------------------------------------------------------------------------------
(* The device.  While awake it sends the frames that it finds; when it has  *)
(* found no more it sleeps until it is notified.  It gives frames back in   *)
(* any order.                                                              *)
TxFrame(i) ==
  LET head == tx.availRing[i % TxSize] IN data[tx.addr[tx.next[head]]]

Transmit ==
  /\ device.awake /\ device.seen # tx.availIdx
  /\ LET position == device.seen % TxSize
     IN  /\ device' = [device EXCEPT !.seen = Inc(@),
                                     !.done = @ \union {tx.availRing[position]}]
         /\ tx' = [tx EXCEPT !.availRing[position] = 0]
  /\ UNCHANGED <<rx, data, packets, driver, delivered>>

Sleep ==
  /\ device.awake /\ device.seen = tx.availIdx
  /\ device' = [device EXCEPT !.awake = FALSE]
  /\ UNCHANGED <<tx, rx, data, packets, driver, delivered>>

GiveBack(head) ==
  /\ head \in device.done
  /\ device' = [device EXCEPT !.done = @ \ {head}]
  /\ tx' = [tx EXCEPT !.usedRing[tx.usedIdx % TxSize] = head, !.usedIdx = Inc(@)]
  /\ UNCHANGED <<rx, data, packets, driver, delivered>>

(* A frame comes: it goes to the next buffer, or waits until the device is  *)
(* notified that there are more.                                           *)
Come(f) ==
  /\ ~device.waiting /\ rx.usedIdx # rx.availIdx
  /\ Distance(driver.old, rx.usedIdx) < Burst
  /\ LET position == rx.usedIdx % RxSize
         desc == rx.availRing[position]
     IN  /\ packets' = [packets EXCEPT ![rx.addr[desc]] = f]
         /\ rx' = [rx EXCEPT !.usedRing[position] = desc, !.usedIdx = Inc(@),
                             !.availRing[position] = 0]
  /\ UNCHANGED <<tx, data, driver, device, delivered>>

Wait ==
  /\ ~device.waiting /\ rx.usedIdx = rx.availIdx
  /\ device' = [device EXCEPT !.waiting = TRUE]
  /\ UNCHANGED <<tx, rx, data, packets, driver, delivered>>
--------------------------------------------------------------------------------
Driver ==
  \/ PortEmpty \/ \E m \in Messages : PortTake(m)
  \/ Reclaim \/ SendFails \/ SendFills \/ Publish \/ Flush
  \/ Answer \/ Deliver \/ Discard \/ Recycle \/ Offer \/ ReceiveEnds

Device ==
  \/ Transmit \/ Sleep \/ \E head \in 0 .. TxSize - 1 : GiveBack(head)
  \/ \E f \in Frames : Come(f)
  \/ Wait

Next == Driver \/ Device

Spec == Init /\ [][Next]_vars

(* The process of the partition runs in its windows, and the device does    *)
(* what it has been notified of.                                           *)
FairSpec == Spec /\ WF_vars(Driver) /\ WF_vars(Transmit)
--------------------------------------------------------------------------------
TypeOK ==
  /\ driver.at \in {"poll", "send", "publish", "flush", "receive", "recycle", "offer"}
  /\ driver.back \in {"receive", "recycle"} /\ driver.old \in 0 .. Wrap - 1
  /\ \A q \in {tx, rx} : /\ q.numFree \in Nat
                         /\ {q.seen, q.availIdx, q.usedIdx} \subseteq 0 .. Wrap - 1
  /\ device.done \subseteq 0 .. TxSize - 1

One(b) == IF b THEN 1 ELSE 0
Entries(ring, size, from, count) == {ring[(from + n) % size] : n \in 0 .. count - 1}

(* The free list of a queue, from its first descriptor on.                  *)
FreeChain(q) ==
  LET nth[n \in 0 .. q.numFree - 1] == IF n = 0 THEN q.free ELSE q.next[nth[n - 1]]
  IN  nth

FreeList(q) == {FreeChain(q)[n] : n \in 0 .. q.numFree - 1}

(* The first descriptors of the frames that the driver has given to the     *)
(* device, or is about to, and has not reclaimed.                          *)
TxHeads ==
  Entries(tx.availRing, TxSize, device.seen,
          Distance(device.seen, tx.availIdx) + One(driver.at = "publish"))
  \union device.done
  \union Entries(tx.usedRing, TxSize, tx.seen, Distance(tx.seen, tx.usedIdx))

RxLent ==
  Entries(rx.availRing, RxSize, rx.usedIdx,
          Distance(rx.usedIdx, rx.availIdx) + One(driver.at = "offer"))
  \union Entries(rx.usedRing, RxSize, rx.seen, Distance(rx.seen, rx.usedIdx))

(* No descriptor is lost, and none is free and in use, or in use twice: the *)
(* free lists of both queues, relinked at every turn, and what the device   *)
(* has, share the descriptors out.                                         *)
DescriptorsKept ==
  /\ LET free == FreeList(tx)
         tails == {tx.next[h] : h \in TxHeads}
     IN  /\ free \union TxHeads \union tails = 0 .. TxSize - 1
         /\ Cardinality(free) = tx.numFree
         /\ Cardinality(TxHeads) =
              Distance(tx.seen, tx.availIdx) + One(driver.at = "publish")
         /\ tx.numFree + 2 * Cardinality(TxHeads) = TxSize
  /\ LET free == FreeList(rx)
     IN  /\ free \union RxLent = 0 .. RxSize - 1
         /\ Cardinality(free) = rx.numFree
         /\ rx.numFree + Cardinality(RxLent) = RxSize

(* Nobody sleeps beside work: a device that has not looked at the last      *)
(* frame is awake or about to be notified, and while a frame waits for a    *)
(* buffer, buffers have moved whose notification is to come.               *)
KickNeverMissed ==
  /\ device.seen # tx.availIdx => device.awake \/ driver.at = "flush"
  /\ device.waiting => driver.old # rx.usedIdx

(* The queues of descriptors implement the link between ports and wire.    *)
Handling == "recycle" \in {driver.at, driver.back}

(* The frames that the device has still to send, the frames lent to it, the *)
(* frames that the driver has still to handle, the buffers it has offered.  *)
Sending ==
  [n \in 1 .. Distance(device.seen, tx.availIdx) + One(driver.at = "publish")
     |-> TxFrame(device.seen + n - 1)]
Lent == Distance(tx.usedIdx, tx.availIdx) + One(driver.at = "publish")
Coming ==
  [n \in 1 .. Distance(rx.seen, rx.usedIdx) - One(Handling) |->
     packets[rx.addr[rx.usedRing[(rx.seen + n - 1 + One(Handling)) % RxSize]]]]
Spare == Distance(rx.usedIdx, rx.availIdx)

Link == INSTANCE NetworkLink WITH
  Slots <- TxSize \div 2, hand <- driver.frame, sending <- Sending, lent <- Lent,
  came <- Coming, spare <- Spare, waiting <- device.waiting

(* Frames leave whole, in order and once, are dropped only while the device *)
(* has every descriptor, and neither a frame given to the device nor one    *)
(* that waits for a buffer stays where it is.                              *)
LinkSpec == Link!Spec
================================================================================
