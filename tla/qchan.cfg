\* Both overflow strategies; receivers that connect once and receivers that
\* restart or clear their port; three generations of each partition.
CONSTANTS
  RecvMax = 2
  SendMax = 2
  Messages = {m1, m2}
  NoMessage = NoMessage
  MaxGeneration = 3
SPECIFICATION Spec
SYMMETRY Symmetry
INVARIANTS AssertsHold SubscriptionsKept EventsFitRing
PROPERTY FifoSpec
