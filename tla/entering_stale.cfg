\* An event interrupts msection_enter and leaves the same thread running.
SPECIFICATION ObjSpec
CONSTANTS
  t1 = t1
  t2 = t2
  t3 = t3
  s1 = s1
  None = None
  Threads = {t1, t2, t3}
  Sections = {s1}
  BasePriority <- MCBasePriority
  Priorities = {1, 2, 3}
  MaxLock = 1
  Programs <- MCTimeouts
  Main = None
  Periodic = {}
  Messages = {m1, m2}
  Capacity = 2
  MaxValue = 1
INVARIANT SelectionAllowed
