\* Three threads create, join, suspend and resume each other, and share a
\* semaphore.
SPECIFICATION FairSpec
CONSTANTS
  m1 = m1
  m2 = m2
  m3 = m3
  c1 = c1
  s1 = s1
  Nobody = Nobody
  NoCond = NoCond
  NumThreads = 3
  Threads <- Threads3
  Mutexes <- NoObjects
  Conds <- NoObjects
  Sems = {s1}
  Address <- OwnAddress
  Kind <- NormalKind
  Magic0 <- StaticMagic
  MaxDepth = 1
  WaitMutex <- EveryMutex
  Open0 = {s1}
  MaxValue = 2
  MaxSuspend = 1
  CrossUnlock = FALSE
  Calls <- ThreadCallSet
INVARIANTS RunsUnblocked SemWaitersExact SemConservation
PROPERTIES StuckForGood ReadyThreadRuns JoinEnds DeadlockFound
CHECK_DEADLOCK FALSE
