SPECIFICATION PreemptiveSpec
CONSTANTS
  t1 = t1
  t2 = t2
  t3 = t3
  s1 = s1
  None = None
  Threads = {t1, t2, t3}
  Sections = {s1}
  BasePriority <- MCBasePriority
  Priorities = {1, 2, 3}
  MaxLock = 1
  Programs <- MCPrograms
  Main = None
  Periodic = {}
  Messages = {m1, m2}
  Capacity = 2
  MaxValue = 1
INVARIANTS
  Alone
  EnteringIsTrue
  AssertionsHold
  NoReleaseMissed
  DonatorsWait
PROPERTY
  CountingSemaphores
  FifoBuffers
  NoticeBoards
