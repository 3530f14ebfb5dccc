\* Two mutexes, their whole life, used by three threads.
SPECIFICATION Spec
CONSTANTS
  m1 = m1
  m2 = m2
  m3 = m3
  c1 = c1
  s1 = s1
  Nobody = Nobody
  NoCond = NoCond
  NumThreads = 3
  Threads <- Threads3
  Mutexes <- TwoMutexes
  Conds <- NoObjects
  Sems <- NoObjects
  Address <- OwnAddress
  Kind <- MixedKinds
  Magic0 <- RawMagic
  MaxDepth = 2
  WaitMutex <- EveryMutex
  Open0 <- NoObjects
  MaxValue = 0
  MaxSuspend = 0
  CrossUnlock = FALSE
  Calls <- MutexCallSet
INVARIANTS LockAccounting BlockedMutexExists WaitingExact
CHECK_DEADLOCK FALSE
