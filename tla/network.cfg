\* Two frames can be lent to the device, which has two buffers for three frames.
CONSTANTS
  Messages = {M1}
  M1 = M1
  NoMessage = NoMessage
  NoFrame = NoFrame
  Everybody = everybody
  Me = me
  Peer = peer
  MyMac = me
  PeerMac = peer
  PeerAddr = peer
  GoodIps <- Mine
  Routes <- Mine
  Frames <- MCFrames
  TxSize = 4
  RxSize = 2
  NumBuffers = 2
  Wrap = 4
  Burst = 3
SPECIFICATION FairSpec
INVARIANTS DescriptorsKept KickNeverMissed

PROPERTY LinkSpec
