\* Two threads break the rules for mutexes, condition variables and semaphores.
\* One mutex address is initialised up to three times, with different types.
SPECIFICATION Spec
CONSTANTS
  m1 = m1
  m2 = m2
  m3 = m3
  c1 = c1
  s1 = s1
  Nobody = Nobody
  NoCond = NoCond
  NumThreads = 2
  Threads <- Threads2
  Mutexes <- ThreeMutexes
  Conds = {c1}
  Sems = {s1}
  Address <- OneAddress
  Kind <- CheckedKinds
  Magic0 <- RawMagic
  MaxDepth = 1
  WaitMutex <- EveryMutex
  Open0 <- NoObjects
  MaxValue = 1
  MaxSuspend = 0
  CrossUnlock = TRUE
  Calls <- MisuseCallSet
INVARIANTS MutualExclusion DeadlockIsReal
CHECK_DEADLOCK FALSE
