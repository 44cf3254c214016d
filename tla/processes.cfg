SPECIFICATION HistorySpec
CONSTANTS
  m = m
  t1 = t1
  t2 = t2
  t3 = t3
  None = None
  Threads = {m, t1, t2, t3}
  Main = m
  Periodic = {t1}
  Limited = {t1}
  Sections = {}
  BasePriority <- MCBasePriority
  Priorities = {1}
  MaxLock = 2
INVARIANTS
  EligibleQueue
  RightThreadRuns
  LockHolderRuns
  HandlerFirst
  EventsOfActive
  ErrorsListedSoFar
  SyncErrorFirstSoFar
PROPERTY
  PlacesKept
