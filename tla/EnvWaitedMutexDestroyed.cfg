\* The waiting count is lost to wake-ups by signals.
SPECIFICATION Spec
CONSTANTS
  m1 = m1
  m2 = m2
  m3 = m3
  c1 = c1
  s1 = s1
  Nobody = Nobody
  NoCond = NoCond
  NumThreads = 3
  Threads <- Threads3
  Mutexes <- OneMutex
  Conds = {c1}
  Sems <- NoObjects
  Address <- OwnAddress
  Kind <- NormalKind
  Magic0 <- StaticMagic
  MaxDepth = 1
  WaitMutex <- EveryMutex
  Open0 <- NoObjects
  MaxValue = 0
  MaxSuspend = 0
  CrossUnlock = FALSE
  Calls <- MonitorDestroyCallSet
INVARIANT BlockedMutexExists
CHECK_DEADLOCK FALSE
