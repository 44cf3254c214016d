\* One port, two delayed events, three instants.
CONSTANTS
  Ports = {p1}
  Delayed = {d1, d2}
  TimerEvent = TimerEvent
  MaxWaiting = 2
  MaxTime = 2
SPECIFICATION FairSpec
INVARIANTS NoEventForgotten HandledBeforeUser TimerCovers RingHasRoom
PROPERTY DelayedHandled
