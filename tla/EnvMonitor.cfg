\* Three threads use one monitor, a mutex and a condition variable,
\* and suspend each other.
SPECIFICATION FairSpec
CONSTANTS
  m1 = m1
  m2 = m2
  m3 = m3
  c1 = c1
  s1 = s1
  Nobody = Nobody
  NoCond = NoCond
  NumThreads = 3
  Threads <- Threads3
  Mutexes <- OneMutex
  Conds = {c1}
  Sems <- NoObjects
  Address <- OwnAddress
  Kind <- NormalKind
  Magic0 <- StaticMagic
  MaxDepth = 1
  WaitMutex <- EveryMutex
  Open0 <- NoObjects
  MaxValue = 0
  MaxSuspend = 1
  CrossUnlock = FALSE
  Calls <- MonitorSuspendCallSet
INVARIANTS TypeOK QueuesExact NoHostBug
PROPERTIES WaitEnds ImplementsMonitor TimedWaitEnds
CHECK_DEADLOCK FALSE
