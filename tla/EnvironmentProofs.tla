-------------------------- MODULE EnvironmentProofs --------------------------
(***************************************************************************)
(* Theorems about Environment, for every number of threads and objects and *)
(* for every program of the guest.                                         *)
(***************************************************************************)
EXTENDS Environment, SequenceTheorems, TLAPS

-----------------------------------------------------------------------------
(* What the operations on the objects do to the types of their variables.  *)

(* The thread that a pass looks at is one of Environment.threads.          *)
LEMMA CandidateType ==
  ASSUME nthreads \in Nat \ {0}, current \in Nat, scanned \in Nat
  PROVE  Candidate \in 0..(nthreads - 1)
<1>1. \A a \in Nat, n \in Nat \ {0} : a % n \in 0..(n - 1)
  OBVIOUS
<1>2. current + 1 + scanned \in Nat
  OBVIOUS
<1> QED BY <1>1, <1>2 DEF Candidate

-----------------------------------------------------------------------------
(* The mutexes. Every step of the environment is at most one operation on  *)
(* one mutex, together with what its caller is told.                       *)
LockStep(t, m) ==
  \/ init_mutex(m) /\ Unreferenced(m) /\ UNCHANGED held
  \/ (LockFree(t, m) \/ LockRecursive(t, m) \/ LockPhantom(t, m)) /\ Gain(t, m)
  \/ LockContended(t, m) /\ UNCHANGED held
  \/ CanRelock(m) /\ relock_unblocked_mutex(t, m) /\ Gain(t, m)
  \/ MayUnlock(t, m) /\ unlock_mutex(t, m) /\ Lose(t, m)
  \/ Register(m) /\ UNCHANGED <<owner, depth, phantom, waiting, held>>
  \/ destroy_mutex(m) /\ UNCHANGED held

NoLockStep == UNCHANGED <<mutexVars, held>>

(* What LockAccounting needs to be inductive: a mutex has a lock count     *)
(* exactly while it has an owner, and only its owner has phantom locks.    *)
OwnerCounted == \A m \in Mutexes : owner[m] = Nobody <=> depth[m] = 0

PhantomsOfOwner ==
  \A t \in Threads, m \in Mutexes :
    Guarded(m) /\ phantom[t][m] > 0 => owner[m] = t

LockInv ==
  /\ MutexTypeOK
  /\ held \in [Threads -> [Mutexes -> Nat]]
  /\ OwnerCounted
  /\ PhantomsOfOwner
  /\ LockAccounting

(* Guest calls. *)
LEMMA GuestLockStep ==
  ASSUME Guest
  PROVE  NoLockStep \/ \E t \in Threads, m \in Mutexes : LockStep(t, m)
<1>1. PICK t \in Threads :
        \/ \E m \in Mutexes : MutexCalls(t, m)
        \/ \E c \in Conds, m \in Mutexes : WaitCalls(t, c, m)
        \/ \E c \in Conds : CondCalls(t, c)
        \/ \E s \in Sems : SemCalls(t, s)
        \/ ThreadCalls(t)
        \/ \E u \in Threads : ThreadPairCalls(t, u)
  BY DEF Guest
<1>2. ASSUME NEW m \in Mutexes, MutexCalls(t, m) PROVE LockStep(t, m)
  BY <1>2 DEF MutexCalls, LockStep, pthread_mutex_init, pthread_mutex_lock,
     pthread_mutex_lock_blocks, pthread_mutex_trylock, pthread_mutex_unlock,
     pthread_mutex_destroy
<1>3. ASSUME NEW c \in Conds, NEW m \in Mutexes, WaitCalls(t, c, m)
      PROVE  LockStep(t, m) \/ NoLockStep
  BY <1>3 DEF WaitCalls, LockStep, NoLockStep, pthread_cond_wait,
     pthread_cond_timedwait, CondWait, WaitRefused, WaitPanics, Panic, mutexVars
<1>4. ASSUME NEW c \in Conds, CondCalls(t, c) PROVE NoLockStep
  BY <1>4 DEF CondCalls, NoLockStep, pthread_cond_init, pthread_cond_signal,
     pthread_cond_broadcast, SignalPanics, pthread_cond_destroy,
     CondDestroyPanics, Panic
<1>5. ASSUME NEW s \in Sems, SemCalls(t, s) PROVE NoLockStep
  BY <1>5 DEF SemCalls, NoLockStep, sem_init, sem_destroy, sem_post, sem_wait,
     sem_wait_blocks
<1>6. ASSUME ThreadCalls(t) PROVE NoLockStep
  BY <1>6 DEF ThreadCalls, NoLockStep, Resume, ResumePanics, Panic, sleep,
     pthread_create, pthread_create_suspended_np, NewThread, FinishThread
<1>7. ASSUME NEW u \in Threads, ThreadPairCalls(t, u) PROVE NoLockStep
  BY <1>7 DEF ThreadPairCalls, NoLockStep, pthread_join, pthread_detach,
     suspend_thread, resume_thread
<1> QED BY <1>1, <1>2, <1>3, <1>4, <1>5, <1>6, <1>7

(* The scheduler relocks a mutex for the thread it wakes, or none. *)
LEMMA SchedulerLockStep ==
  ASSUME MutexTypeOK, Scheduler
  PROVE  NoLockStep \/ \E t \in Threads, m \in Mutexes : LockStep(t, m)
<1>1. ASSUME NEW u \in Threads, NEW m, WakeWithMutex(u, m)
      PROVE  m \in Mutexes /\ LockStep(u, m)
  BY <1>1 DEF WakeWithMutex, CanRelock, MutexTypeOK, LockStep
<1>2. ASSUME NEW u \in Threads, ScanThread(u)
      PROVE  NoLockStep \/ \E m : WakeWithMutex(u, m)
  BY <1>2 DEF ScanThread, NoLockStep, ScanIdle, ScanReady, ScanSleeping,
     ScanMutex, ScanSemaphore, ScanJoining, PassOver, Panic
<1>3. ASSUME NEW u \in Threads, NEW c \in Conds, ScanWaiter(u, c)
      PROVE  NoLockStep \/ \E m : WakeWithMutex(u, m)
  BY <1>3 DEF ScanWaiter, NoLockStep, ScanCondPanics, ScanCondSignalled,
     ScanCondTimesOut, ScanCondTimesOutLocked, ScanCondStays, PassOver, Panic
<1>4. ASSUME SleepTillAwakening \/ GracePeriod \/ DeclareDeadlock
      PROVE  NoLockStep
  BY <1>4 DEF NoLockStep, SleepTillAwakening, GracePeriod, DeclareDeadlock,
     Panic
<1> QED BY <1>1, <1>2, <1>3, <1>4 DEF Scheduler

(* Every step of the system does to the mutexes, and to what the threads   *)
(* have been told of them, what one LockStep does, or nothing.             *)
LEMMA NextLockStep ==
  ASSUME MutexTypeOK, [Next]_vars
  PROVE  NoLockStep \/ \E t \in Threads, m \in Mutexes : LockStep(t, m)
<1>1. CASE Guest
  BY <1>1, GuestLockStep
<1>2. CASE Scheduler
  BY <1>2, SchedulerLockStep
<1>3. CASE Preempt \/ \E t \in Threads : Tick(t)
  BY <1>3 DEF Preempt, Tick, NoLockStep
<1>4. CASE UNCHANGED vars
  BY <1>4 DEF vars, NoLockStep
<1> QED BY <1>1, <1>2, <1>3, <1>4 DEF Next

(* At the start no mutex is locked and no thread has been told it holds one. *)
LEMMA LockInvInit ==
  ASSUME Init
  PROVE  LockInv
BY ObjectsAssumption, MutexAssumption
   DEF Init, MutexInit, LockInv, MutexTypeOK, OwnerCounted, PhantomsOfOwner,
       LockAccounting

(* One operation on one mutex, path by path.                               *)
LEMMA LockStepInv ==
  ASSUME LockInv, NEW t \in Threads, NEW m \in Mutexes, LockStep(t, m)
  PROVE  LockInv'
<1> USE ObjectsAssumption
    DEF LockInv, MutexTypeOK, OwnerCounted, PhantomsOfOwner, LockAccounting,
        Guarded
<1>1. CASE init_mutex(m) /\ Unreferenced(m) /\ UNCHANGED held
  BY <1>1 DEF init_mutex, Unreferenced, Register, Magics
<1>2. CASE LockFree(t, m) /\ Gain(t, m)
  BY <1>2 DEF LockFree, Gain, Register, Magics
<1>3. CASE LockRecursive(t, m) /\ Gain(t, m)
  BY <1>3 DEF LockRecursive, Gain
<1>4. CASE LockPhantom(t, m) /\ Gain(t, m)
  BY <1>4 DEF LockPhantom, Gain
<1>5. CASE LockContended(t, m) /\ UNCHANGED held
  BY <1>5 DEF LockContended
<1>6. CASE CanRelock(m) /\ relock_unblocked_mutex(t, m) /\ Gain(t, m)
  BY <1>6 DEF CanRelock, relock_unblocked_mutex, Gain
<1>7. CASE UnlockPhantom(t, m) /\ Lose(t, m)
  BY <1>7 DEF UnlockPhantom, Lose
<1>8. CASE MayUnlock(t, m) /\ UnlockReal(t, m) /\ Lose(t, m)
  <2>1. owner[m] # Nobody /\ depth[m] > 0 /\ phantom[t][m] = 0
    BY <1>8 DEF UnlockReal, UnlockFails
  (* Of a guarded mutex only the owner can get this far. *)
  <2>2. Guarded(m) => owner[m] = t /\ held[t][m] = depth[m]
    BY <1>8, <2>1 DEF MayUnlock, UnlockReal, UnlockFails
  <2>3. MutexTypeOK' /\ held' \in [Threads -> [Mutexes -> Nat]] /\ OwnerCounted'
    BY <1>8, <2>1 DEF UnlockReal, Lose
  <2>4. PhantomsOfOwner'
    BY <1>8, <2>1, <2>2 DEF UnlockReal
  <2>5. ASSUME NEW u \in Threads, NEW n \in Mutexes, Guarded(n)
        PROVE  held'[u][n] = (IF owner'[n] = u THEN depth'[n] ELSE 0)
                               + phantom'[u][n]
    <3>1. CASE n # m
      BY <1>8, <2>5, <3>1 DEF UnlockReal, Lose
    <3>2. CASE n = m /\ u = t
      BY <1>8, <2>1, <2>2, <2>5, <3>2 DEF UnlockReal, Lose
    <3>3. CASE n = m /\ u # t
      BY <1>8, <2>1, <2>2, <2>5, <3>3 DEF UnlockReal, Lose
    <3> QED BY <3>1, <3>2, <3>3
  <2> QED BY <2>3, <2>4, <2>5
<1>9. CASE Register(m) /\ UNCHANGED <<owner, depth, phantom, waiting, held>>
  BY <1>9 DEF Register, Magics
<1>10. CASE destroy_mutex(m) /\ UNCHANGED held
  <2>1. CASE DestroyFails(m)
    BY <1>10, <2>1 DEF destroy_mutex, Magics
  <2>2. CASE ~DestroyFails(m)
    <3>1. \A u \in Threads : Guarded(m) => phantom[u][m] = 0
      BY <2>2 DEF DestroyFails
    <3>2. phantom' = [u \in Threads |-> [phantom[u] EXCEPT ![m] = 0]]
      BY <1>10, <2>2 DEF destroy_mutex
    <3>3. UNCHANGED <<owner, depth, waiting, held>>
      BY <1>10 DEF destroy_mutex
    <3>4. MutexTypeOK'
      BY <1>10, <2>2, <3>2, <3>3 DEF destroy_mutex, Magics
    <3>5. \A u \in Threads, n \in Mutexes :
            Guarded(n) => phantom'[u][n] = phantom[u][n]
      BY <3>1, <3>2
    <3> QED BY <3>3, <3>4, <3>5
  <2> QED BY <2>1, <2>2
<1> QED
  BY <1>1, <1>2, <1>3, <1>4, <1>5, <1>6, <1>7, <1>8, <1>9, <1>10
     DEF LockStep, unlock_mutex

(* The lock invariant is inductive: every step of the system keeps it.     *)
LEMMA LockInvStep ==
  ASSUME LockInv, [Next]_vars
  PROVE  LockInv'
<1>1. CASE NoLockStep
  BY <1>1 DEF NoLockStep, mutexVars, LockInv, MutexTypeOK, OwnerCounted,
     PhantomsOfOwner, LockAccounting
<1>2. CASE \E t \in Threads, m \in Mutexes : LockStep(t, m)
  BY <1>2, LockStepInv
<1> QED BY <1>1, <1>2, NextLockStep DEF LockInv

(* The lock invariant holds for every number of threads, mutexes of every  *)
(* kind, and guest programs with or without unlocks of foreign mutexes.    *)
THEOREM LockInvHolds == Spec => []LockInv
BY LockInvInit, LockInvStep, PTL DEF Spec

(* What a thread has been told about a mutex agrees with the host's        *)
(* records, through every wait, wake-up and timeout.                       *)
THEOREM LocksAccounted == Spec => []LockAccounting
BY LockInvHolds, PTL DEF LockInv

(* Two threads never both believe that they hold a guarded mutex.          *)
THEOREM LocksExclusive == Spec => []MutualExclusion
<1>1. LockInv => MutualExclusion
  <2> SUFFICES ASSUME LockInv, NEW m \in Mutexes, Guarded(m),
                      NEW t \in Threads, held[t][m] > 0
               PROVE  owner[m] = t
    BY DEF MutualExclusion
  <2> QED
    BY DEF LockInv, LockAccounting, PhantomsOfOwner, MutexTypeOK
<1> QED BY <1>1, LockInvHolds, PTL

-----------------------------------------------------------------------------
(* The condition variables. A step changes at most one, and only in one of *)
(* these ways.                                                             *)
CondStep(t, c) ==
  \/ cond_init(c)
  \/ \E m \in Mutexes : cond_enqueue(t, c, m)
  \/ cond_signal(c)
  \/ cond_broadcast(c)
  \/ cond_destroy(c)
  \/ NextToWake(c, t) /\ cond_wake(c)
  \/ cond_time_out(c, t)
  \/ /\ ctimedout' = [ctimedout EXCEPT ![c] = @ \ {t}]
     /\ UNCHANGED <<cstate, cwaiting, cwaking, cmutex>>
  \/ /\ cstate' = [cstate EXCEPT ![c] = IF @ = "static" THEN "live" ELSE @]
     /\ UNCHANGED <<cwaiting, cwaking, cmutex, ctimedout>>

(* VecDeque::retain leaves a queue of threads.                             *)
LEMMA WithoutType ==
  ASSUME NEW q \in Seq(Threads), NEW t
  PROVE  Without(q, t) \in Seq(Threads)
<1>1. CASE ~InQueue(q, t)
  BY <1>1 DEF Without
<1>2. CASE InQueue(q, t)
  <2>1. PICK i \in 1..Len(q) : Without(q, t) = SX!RemoveAt(q, i)
    BY <1>2 DEF Without, InQueue
  <2>2. /\ SubSeq(q, 1, i - 1) \in Seq(Threads)
        /\ SubSeq(q, i + 1, Len(q)) \in Seq(Threads)
    BY SubSeqProperties
  <2> QED BY <2>1, <2>2, ConcatProperties DEF SX!RemoveAt
<1> QED BY <1>1, <1>2

(* Each operation on a condition variable keeps the types of its fields.   *)
LEMMA CondStepTypes ==
  ASSUME CondTypeOK, NEW t \in Threads, NEW c \in Conds, CondStep(t, c)
  PROVE  CondTypeOK'
<1> USE DEF CondTypeOK
<1>1. CASE cond_init(c)
  BY <1>1 DEF cond_init
<1>2. CASE \E m \in Mutexes : cond_enqueue(t, c, m)
  BY <1>2 DEF cond_enqueue
<1>3. CASE cond_signal(c)
  <2>1. CASE cwaiting[c] = << >>
    BY <1>3, <2>1 DEF cond_signal
  <2>2. CASE cwaiting[c] # << >>
    <3>1. cwaiting[c] \in Seq(Threads)
      OBVIOUS
    <3>2. Head(cwaiting[c]) \in Threads /\ Tail(cwaiting[c]) \in Seq(Threads)
      BY <2>2, <3>1, HeadTailProperties
    <3>3. Append(cwaking[c], Head(cwaiting[c])) \in Seq(Threads)
      BY <3>2
    <3> QED BY <1>3, <2>2, <3>2, <3>3 DEF cond_signal
  <2> QED BY <2>1, <2>2
<1>4. CASE cond_broadcast(c)
  <2>1. cwaking[c] \o cwaiting[c] \in Seq(Threads)
    BY ConcatProperties
  <2> QED BY <1>4, <2>1 DEF cond_broadcast
<1>5. CASE cond_destroy(c)
  BY <1>5 DEF cond_destroy
<1>6. CASE NextToWake(c, t) /\ cond_wake(c)
  <2>1. Tail(cwaking[c]) \in Seq(Threads)
    BY <1>6, HeadTailProperties DEF NextToWake
  <2> QED BY <1>6, <2>1 DEF cond_wake
<1>7. CASE cond_time_out(c, t)
  BY <1>7, WithoutType DEF cond_time_out
<1>8. CASE /\ ctimedout' = [ctimedout EXCEPT ![c] = @ \ {t}]
           /\ UNCHANGED <<cstate, cwaiting, cwaking, cmutex>>
  BY <1>8
<1>9. CASE /\ cstate' = [cstate EXCEPT ![c] = IF @ = "static" THEN "live" ELSE @]
           /\ UNCHANGED <<cwaiting, cwaking, cmutex, ctimedout>>
  BY <1>9
<1> QED BY <1>1, <1>2, <1>3, <1>4, <1>5, <1>6, <1>7, <1>8, <1>9 DEF CondStep

(* Guest calls, and the scheduler's handling of one waiter. *)
LEMMA GuestCondStep ==
  ASSUME Guest, ThreadTypeOK
  PROVE  \/ UNCHANGED condVars
         \/ \E t \in Threads, c \in Conds : CondStep(t, c)
<1>1. PICK t \in Threads :
        \/ \E m \in Mutexes : MutexCalls(t, m)
        \/ \E c \in Conds, m \in Mutexes : WaitCalls(t, c, m)
        \/ \E c \in Conds : CondCalls(t, c)
        \/ \E s \in Sems : SemCalls(t, s)
        \/ ThreadCalls(t)
        \/ \E u \in Threads : ThreadPairCalls(t, u)
  BY DEF Guest
<1>2. ASSUME NEW m \in Mutexes, MutexCalls(t, m) PROVE UNCHANGED condVars
  BY <1>2 DEF MutexCalls, pthread_mutex_init, pthread_mutex_lock,
     pthread_mutex_lock_blocks, pthread_mutex_trylock, pthread_mutex_unlock,
     pthread_mutex_destroy
<1>3. ASSUME NEW c \in Conds, NEW m \in Mutexes, WaitCalls(t, c, m)
      PROVE  CondStep(t, c) \/ UNCHANGED condVars
  BY <1>3 DEF WaitCalls, CondStep, pthread_cond_wait, pthread_cond_timedwait,
     CondWait, WaitRefused, WaitPanics, Panic
<1>4. ASSUME NEW c \in Conds, CondCalls(t, c)
      PROVE  CondStep(t, c) \/ UNCHANGED condVars
  BY <1>4 DEF CondCalls, CondStep, pthread_cond_init, pthread_cond_signal,
     pthread_cond_broadcast, SignalPanics, pthread_cond_destroy,
     CondDestroyPanics, Panic
<1>5. ASSUME NEW s \in Sems, SemCalls(t, s) PROVE UNCHANGED condVars
  BY <1>5 DEF SemCalls, sem_init, sem_destroy, sem_post, sem_wait,
     sem_wait_blocks
<1>6. ASSUME ThreadCalls(t)
      PROVE  UNCHANGED condVars \/ \E c \in Conds : CondStep(t, c)
  <2>1. CASE Resume(t)
    <3>1. inWait[t] \in Conds
      BY <2>1 DEF Resume, ThreadTypeOK
    <3> QED BY <2>1, <3>1 DEF Resume, CondStep
  <2>2. CASE ~Resume(t)
    BY <1>6, <2>2 DEF ThreadCalls, ResumePanics, Panic, sleep, pthread_create,
       pthread_create_suspended_np, NewThread, FinishThread
  <2> QED BY <2>1, <2>2
<1>7. ASSUME NEW u \in Threads, ThreadPairCalls(t, u) PROVE UNCHANGED condVars
  BY <1>7 DEF ThreadPairCalls, pthread_join, pthread_detach,
     suspend_thread, resume_thread
<1> QED BY <1>1, <1>2, <1>3, <1>4, <1>5, <1>6, <1>7

(* The scheduler takes one thread off the queues, or leaves them alone.    *)
LEMMA SchedulerCondStep ==
  ASSUME Scheduler
  PROVE  \/ UNCHANGED condVars
         \/ \E t \in Threads, c \in Conds : CondStep(t, c)
<1>1. ASSUME NEW u \in Threads, ScanThread(u) PROVE UNCHANGED condVars
  BY <1>1 DEF ScanThread, ScanIdle, ScanReady, ScanSleeping,
     ScanMutex, ScanSemaphore, ScanJoining, PassOver, Panic
<1>2. ASSUME NEW u \in Threads, NEW c \in Conds, ScanWaiter(u, c)
      PROVE  UNCHANGED condVars \/ CondStep(u, c)
  BY <1>2 DEF ScanWaiter, CondStep, ScanCondPanics, ScanCondSignalled,
     Signalled, TimesOut, ScanCondTimesOut, ScanCondTimesOutLocked,
     ScanCondStays, PassOver, Panic
<1>3. ASSUME SleepTillAwakening \/ GracePeriod \/ DeclareDeadlock
      PROVE  UNCHANGED condVars
  BY <1>3 DEF SleepTillAwakening, GracePeriod, DeclareDeadlock, Panic
<1> QED BY <1>1, <1>2, <1>3 DEF Scheduler

(* Every step of the system keeps the types of the condition variables.    *)
LEMMA NextCondTypes ==
  ASSUME CondTypeOK, ThreadTypeOK, [Next]_vars
  PROVE  CondTypeOK'
<1>1. CASE UNCHANGED condVars
  BY <1>1 DEF CondTypeOK, condVars
<1>2. CASE \E t \in Threads, c \in Conds : CondStep(t, c)
  BY <1>2, CondStepTypes
<1>3. CASE Preempt \/ (\E t \in Threads : Tick(t)) \/ UNCHANGED vars
  BY <1>1, <1>3 DEF Preempt, Tick, vars
<1> QED
  BY <1>1, <1>2, <1>3, GuestCondStep, SchedulerCondStep DEF Next

-----------------------------------------------------------------------------
(* The semaphores. *)
SemStep(t, s) ==
  \/ \E v \in 0..MaxValue : init_semaphore(s, v)
  \/ destroy_semaphore(s)
  \/ sem_increment(s)
  \/ DecrementNow(s)
  \/ DecrementLater(t, s)
  \/ DecrementForWaiter(t, s)
  \/ DecrementOfMissing(s)

(* Each operation on a semaphore keeps the types of its fields.            *)
LEMMA SemStepTypes ==
  ASSUME SemTypeOK, NEW t \in Threads, NEW s \in Sems, SemStep(t, s)
  PROVE  SemTypeOK'
<1> USE SemAssumption DEF SemTypeOK
<1>1. CASE \E v \in 0..MaxValue : init_semaphore(s, v)
  BY <1>1 DEF init_semaphore
<1>2. CASE destroy_semaphore(s)
  BY <1>2 DEF destroy_semaphore
<1>3. CASE sem_increment(s)
  BY <1>3 DEF sem_increment
<1>4. CASE DecrementNow(s)
  BY <1>4 DEF DecrementNow
<1>5. CASE DecrementLater(t, s)
  BY <1>5 DEF DecrementLater
<1>6. CASE DecrementForWaiter(t, s)
  BY <1>6 DEF DecrementForWaiter
<1>7. CASE DecrementOfMissing(s)
  BY <1>7 DEF DecrementOfMissing
<1> QED BY <1>1, <1>2, <1>3, <1>4, <1>5, <1>6, <1>7 DEF SemStep

(* Every step of the system does one SemStep, or none.                     *)
LEMMA NextSemStep ==
  ASSUME ThreadTypeOK, [Next]_vars
  PROVE  UNCHANGED semVars \/ \E t \in Threads, s \in Sems : SemStep(t, s)
<1>1. CASE Guest
  <2>1. PICK t \in Threads :
          \/ \E m \in Mutexes : MutexCalls(t, m)
          \/ \E c \in Conds, m \in Mutexes : WaitCalls(t, c, m)
          \/ \E c \in Conds : CondCalls(t, c)
          \/ \E s \in Sems : SemCalls(t, s)
          \/ ThreadCalls(t)
          \/ \E u \in Threads : ThreadPairCalls(t, u)
    BY <1>1 DEF Guest
  <2>2. ASSUME NEW m \in Mutexes, MutexCalls(t, m) PROVE UNCHANGED semVars
    BY <2>2 DEF MutexCalls, pthread_mutex_init, pthread_mutex_lock,
       pthread_mutex_lock_blocks, pthread_mutex_trylock,
       pthread_mutex_unlock, pthread_mutex_destroy
  <2>3. ASSUME NEW c \in Conds, NEW m \in Mutexes, WaitCalls(t, c, m)
        PROVE  UNCHANGED semVars
    BY <2>3 DEF WaitCalls, pthread_cond_wait, pthread_cond_timedwait,
       CondWait, WaitRefused, WaitPanics, Panic
  <2>4. ASSUME NEW c \in Conds, CondCalls(t, c) PROVE UNCHANGED semVars
    BY <2>4 DEF CondCalls, pthread_cond_init, pthread_cond_signal,
       pthread_cond_broadcast, SignalPanics, pthread_cond_destroy,
       CondDestroyPanics, Panic
  <2>5. ASSUME NEW s \in Sems, SemCalls(t, s) PROVE SemStep(t, s)
    BY <2>5 DEF SemCalls, SemStep, sem_init, sem_destroy, sem_post, sem_wait,
       sem_wait_blocks
  <2>6. ASSUME ThreadCalls(t) PROVE UNCHANGED semVars
    BY <2>6 DEF ThreadCalls, Resume, ResumePanics, Panic, sleep,
       pthread_create, pthread_create_suspended_np, NewThread, FinishThread
  <2>7. ASSUME NEW u \in Threads, ThreadPairCalls(t, u)
        PROVE  UNCHANGED semVars
    BY <2>7 DEF ThreadPairCalls, pthread_join, pthread_detach,
       suspend_thread, resume_thread
  <2> QED BY <2>1, <2>2, <2>3, <2>4, <2>5, <2>6, <2>7
<1>2. CASE Scheduler
  <2>1. ASSUME NEW u \in Threads, ScanSemaphore(u)
        PROVE  \/ UNCHANGED semVars
               \/ \E s \in Sems : SemStep(u, s)
    <3>1. blocked[u].on = "sem" /\ blocked[u] \in Blocks
      BY <2>1 DEF ScanSemaphore, Looking, ThreadTypeOK
    <3>2. blocked[u].obj \in Sems
      BY <3>1 DEF Blocks, Ready, Asleep
    <3> QED BY <2>1, <3>2 DEF ScanSemaphore, SemStep, PassOver
  <2>2. ASSUME NEW u \in Threads, ScanThread(u), ~ScanSemaphore(u)
        PROVE  UNCHANGED semVars
    BY <2>2 DEF ScanThread, ScanIdle, ScanReady, ScanSleeping, ScanMutex,
       ScanJoining, PassOver, Panic
  <2>3. ASSUME NEW u \in Threads, NEW c \in Conds, ScanWaiter(u, c)
        PROVE  UNCHANGED semVars
    BY <2>3 DEF ScanWaiter, ScanCondPanics, ScanCondSignalled,
       ScanCondTimesOut, ScanCondTimesOutLocked, ScanCondStays, PassOver, Panic
  <2>4. ASSUME SleepTillAwakening \/ GracePeriod \/ DeclareDeadlock
        PROVE  UNCHANGED semVars
    BY <2>4 DEF SleepTillAwakening, GracePeriod, DeclareDeadlock, Panic
  <2> QED BY <1>2, <2>1, <2>2, <2>3, <2>4 DEF Scheduler
<1>3. CASE Preempt \/ (\E t \in Threads : Tick(t)) \/ UNCHANGED vars
  BY <1>3 DEF Preempt, Tick, vars
<1> QED BY <1>1, <1>2, <1>3 DEF Next

-----------------------------------------------------------------------------
(* The threads and their scheduler. *)
ThreadsTyped == ThreadTypeOK /\ SchedTypeOK

(* What a thread can be blocked on is a value of ThreadBlock.              *)
LEMMA BlockTypes ==
  /\ Ready \in Blocks
  /\ Asleep \in Blocks
  /\ \A m \in Mutexes : On("mutex", m) \in Blocks
  /\ \A c \in Conds : On("cond", c) \in Blocks
  /\ \A s \in Sems : On("sem", s) \in Blocks
  /\ \A u \in Threads : On("join", u) \in Blocks
<1>1. Ready \in Blocks /\ Asleep \in Blocks
  BY DEF Blocks
<1>2. \A m \in Mutexes : On("mutex", m) \in Blocks
  BY DEF Blocks, On
<1>3. \A c \in Conds : On("cond", c) \in Blocks
  BY DEF Blocks, On
<1>4. \A s \in Sems : On("sem", s) \in Blocks
  BY DEF Blocks, On
<1>5. \A u \in Threads : On("join", u) \in Blocks
  BY DEF Blocks, On
<1> QED BY <1>1, <1>2, <1>3, <1>4, <1>5

(* The number of threads is a positive number within the bound.            *)
LEMMA ThreadCount ==
  ASSUME ThreadTypeOK
  PROVE  nthreads \in Nat \ {0}
<1>1. NumThreads \in Nat
  BY EnvironmentAssumption
<1> QED BY <1>1 DEF ThreadTypeOK

(* The start of a pass keeps the types of the scheduler's variables.       *)
LEMMA StartPassTypes ==
  ASSUME ThreadsTyped, StartPass, ThreadTypeOK', UNCHANGED nthreads
  PROVE  ThreadsTyped'
<1>1. 0 \in 0..nthreads
  BY ThreadCount DEF ThreadsTyped
<1>2. SchedTypeOK'
  BY <1>1 DEF ThreadsTyped, SchedTypeOK, StartPass
<1> QED BY <1>2 DEF ThreadsTyped

(* A thread that yields keeps the types of the threads and the scheduler.  *)
LEMMA YieldTypes ==
  ASSUME ThreadsTyped, NEW t \in Threads, NEW b \in Blocks, Yield(t, b),
         UNCHANGED nthreads
  PROVE  blocked' \in [Threads -> Blocks] /\ SchedTypeOK'
<1>1. 0 \in 0..nthreads
  BY ThreadCount DEF ThreadsTyped
<1>2. SchedTypeOK'
  BY <1>1 DEF ThreadsTyped, SchedTypeOK, Yield, StartPass
<1>3. blocked' \in [Threads -> Blocks]
  BY DEF ThreadsTyped, ThreadTypeOK, Yield
<1> QED BY <1>2, <1>3

(* Every call of the guest keeps the types of ThreadsTyped.                *)
LEMMA GuestThreadTypes ==
  ASSUME ThreadsTyped, Guest
  PROVE  ThreadsTyped'
<1>1. PICK t \in Threads :
        \/ \E m \in Mutexes : MutexCalls(t, m)
        \/ \E c \in Conds, m \in Mutexes : WaitCalls(t, c, m)
        \/ \E c \in Conds : CondCalls(t, c)
        \/ \E s \in Sems : SemCalls(t, s)
        \/ ThreadCalls(t)
        \/ \E u \in Threads : ThreadPairCalls(t, u)
  BY DEF Guest
<1>4. ASSUME UNCHANGED <<threadVars, schedVars>> PROVE ThreadsTyped'
  BY <1>4 DEF ThreadsTyped, ThreadTypeOK, SchedTypeOK, threadVars, schedVars
<1>5. ASSUME NEW why \in Panics, Panic(why) PROVE ThreadsTyped'
  BY <1>5 DEF ThreadsTyped, ThreadTypeOK, SchedTypeOK, Panic, threadVars
<1>6. ASSUME NEW m \in Mutexes, MutexCalls(t, m) PROVE ThreadsTyped'
  <2>1. CASE pthread_mutex_lock_blocks(t, m)
    BY <2>1, BlockTypes, YieldTypes
       DEF pthread_mutex_lock_blocks, ThreadsTyped, ThreadTypeOK
  <2>2. CASE ~pthread_mutex_lock_blocks(t, m)
    BY <1>4, <1>6, <2>2 DEF MutexCalls, pthread_mutex_init,
       pthread_mutex_lock, pthread_mutex_trylock, pthread_mutex_unlock,
       pthread_mutex_destroy
  <2> QED BY <2>1, <2>2
<1>7. ASSUME NEW c \in Conds, NEW m \in Mutexes, WaitCalls(t, c, m)
      PROVE  ThreadsTyped'
  <2>1. ASSUME NEW limit \in {"none", "ahead"}, CondWait(t, c, m, limit)
        PROVE  ThreadsTyped'
    BY <2>1, BlockTypes, YieldTypes DEF CondWait, ThreadsTyped, ThreadTypeOK
  <2>2. CASE WaitRefused(t, c, m)
    BY <1>4, <2>2 DEF WaitRefused
  <2>3. CASE WaitPanics(t, c, m)
    BY <1>5, <2>3 DEF WaitPanics, Panics, HostBugs
  <2> QED
    BY <1>7, <2>1, <2>2, <2>3
       DEF WaitCalls, pthread_cond_wait, pthread_cond_timedwait
<1>8. ASSUME NEW c \in Conds, CondCalls(t, c) PROVE ThreadsTyped'
  <2>1. CASE SignalPanics(t, c) \/ CondDestroyPanics(t, c)
    BY <1>5, <2>1 DEF SignalPanics, CondDestroyPanics, Panics, HostBugs
  <2>2. CASE ~(SignalPanics(t, c) \/ CondDestroyPanics(t, c))
    BY <1>4, <1>8, <2>2 DEF CondCalls, pthread_cond_init, pthread_cond_signal,
       pthread_cond_broadcast, pthread_cond_destroy
  <2> QED BY <2>1, <2>2
<1>9. ASSUME NEW s \in Sems, SemCalls(t, s) PROVE ThreadsTyped'
  <2>1. CASE sem_wait_blocks(t, s)
    BY <2>1, BlockTypes, YieldTypes
       DEF sem_wait_blocks, ThreadsTyped, ThreadTypeOK
  <2>2. CASE ~sem_wait_blocks(t, s)
    BY <1>4, <1>9, <2>2 DEF SemCalls, sem_init, sem_destroy, sem_post, sem_wait
  <2> QED BY <2>1, <2>2
<1>10. ASSUME ThreadCalls(t) PROVE ThreadsTyped'
  <2>1. CASE Resume(t)
    BY <2>1 DEF Resume, schedVars, ThreadsTyped, ThreadTypeOK, SchedTypeOK
  <2>2. CASE ResumePanics(t)
    BY <1>5, <2>2 DEF ResumePanics, Panics, HostBugs
  <2>3. CASE sleep(t)
    BY <2>3, BlockTypes, YieldTypes DEF sleep, ThreadsTyped, ThreadTypeOK
  <2>4. ASSUME NEW count \in {0, 1}, NewThread(t, count) PROVE ThreadsTyped'
    BY <2>4, EnvironmentAssumption
       DEF NewThread, schedVars, ThreadsTyped, ThreadTypeOK, SchedTypeOK
  <2>5. CASE FinishThread(t)
    BY <2>5, StartPassTypes DEF FinishThread, ThreadsTyped, ThreadTypeOK
  <2> QED
    BY <1>10, <2>1, <2>2, <2>3, <2>4, <2>5
       DEF ThreadCalls, pthread_create, pthread_create_suspended_np
<1>11. ASSUME NEW u \in Threads, ThreadPairCalls(t, u) PROVE ThreadsTyped'
  <2>1. CASE pthread_join(t, u)
    BY <2>1, BlockTypes, YieldTypes
       DEF pthread_join, ThreadsTyped, ThreadTypeOK
  <2>2. CASE pthread_detach(t, u)
    BY <2>2 DEF pthread_detach, schedVars, ThreadsTyped, ThreadTypeOK,
       SchedTypeOK
  <2>3. CASE suspend_thread(t, u)
    <3>1. ThreadTypeOK' /\ UNCHANGED nthreads
      BY <2>3 DEF suspend_thread, ThreadsTyped, ThreadTypeOK
    <3>2. StartPass \/ UNCHANGED schedVars
      BY <2>3 DEF suspend_thread
    <3> QED
      BY <3>1, <3>2, StartPassTypes DEF ThreadsTyped, SchedTypeOK, schedVars
  <2>4. CASE resume_thread(t, u)
    <3>1. suspended[u] - 1 \in Nat
      BY <2>4 DEF resume_thread, ThreadsTyped, ThreadTypeOK
    <3> QED
      BY <2>4, <3>1 DEF resume_thread, schedVars, ThreadsTyped, ThreadTypeOK,
         SchedTypeOK
  <2> QED BY <1>11, <2>1, <2>2, <2>3, <2>4 DEF ThreadPairCalls
<1> QED BY <1>1, <1>6, <1>7, <1>8, <1>9, <1>10, <1>11

(* A candidate that is woken becomes the current thread. *)
LEMMA WakeTypes ==
  ASSUME ThreadsTyped, NEW u \in Threads, Scanning(u), Wake(u),
         UNCHANGED nthreads
  PROVE  blocked' \in [Threads -> Blocks] /\ SchedTypeOK'
<1>1. u \in 0..(nthreads - 1)
  BY EnvironmentAssumption, CandidateType
     DEF ThreadsTyped, ThreadTypeOK, SchedTypeOK, Scanning
<1>2. 0 \in 0..nthreads
  BY ThreadCount DEF ThreadsTyped
<1>3. SchedTypeOK'
  BY <1>1, <1>2 DEF ThreadsTyped, SchedTypeOK, Wake
<1>4. blocked' \in [Threads -> Blocks]
  BY BlockTypes DEF ThreadsTyped, ThreadTypeOK, Wake
<1> QED BY <1>3, <1>4

(* The loop of schedule_next_thread never goes past the last thread.       *)
LEMMA PassTypes ==
  ASSUME ThreadsTyped, NEW u \in Threads, NEW timed \in BOOLEAN, Scanning(u),
         Pass(timed), UNCHANGED nthreads
  PROVE  SchedTypeOK'
BY EnvironmentAssumption
   DEF ThreadsTyped, ThreadTypeOK, SchedTypeOK, Scanning, Pass

(* Every step of the scheduler keeps the types of ThreadsTyped.            *)
LEMMA SchedulerThreadTypes ==
  ASSUME MutexTypeOK, CondTypeOK, ThreadsTyped, Scheduler
  PROVE  ThreadsTyped'
<1>1. ASSUME NEW why \in Panics, Panic(why) PROVE ThreadsTyped'
  BY <1>1 DEF ThreadsTyped, ThreadTypeOK, SchedTypeOK, Panic, threadVars
<1>2. ASSUME NEW u \in Threads, NEW timed \in BOOLEAN, Scanning(u),
             PassOver(timed)
      PROVE  ThreadsTyped'
  BY <1>2, PassTypes DEF ThreadsTyped, ThreadTypeOK, PassOver, threadVars
<1>3. ASSUME NEW u \in Threads, Scanning(u), Wake(u),
             UNCHANGED <<nthreads, active, suspended, inWait, joinedBy, detached>>,
             deadline' \in [Threads -> {"none", "ahead", "over"}]
      PROVE  ThreadsTyped'
  BY <1>3, WakeTypes DEF ThreadsTyped, ThreadTypeOK
<1>4. ASSUME NEW u \in Threads, ScanThread(u) PROVE ThreadsTyped'
  <2>1. CASE ScanIdle(u)
    BY <1>2, <2>1 DEF ScanIdle
  <2>2. CASE ScanReady(u)
    BY <1>3, <2>2 DEF ScanReady, Looking, ThreadsTyped, ThreadTypeOK
  <2>3. CASE ScanSleeping(u)
    BY <1>2, <1>3, <2>3 DEF ScanSleeping, Looking, ThreadsTyped, ThreadTypeOK
  <2>4. CASE ScanMutex(u)
    BY <1>1, <1>2, <1>3, <2>4
       DEF ScanMutex, WakeWithMutex, Looking, ThreadsTyped, ThreadTypeOK,
           Panics, HostBugs
  <2>5. CASE ScanSemaphore(u)
    BY <1>2, <1>3, <2>5 DEF ScanSemaphore, Looking, ThreadsTyped, ThreadTypeOK
  <2>6. CASE ScanJoining(u)
    BY <1>2, <1>3, <2>6 DEF ScanJoining, Looking, ThreadsTyped, ThreadTypeOK
  <2> QED BY <1>4, <2>1, <2>2, <2>3, <2>4, <2>5, <2>6 DEF ScanThread
<1>5. ASSUME NEW u \in Threads, NEW c \in Conds, ScanWaiter(u, c)
      PROVE  ThreadsTyped'
  <2>1. CASE ScanCondPanics(u, c)
    BY <1>1, <2>1 DEF ScanCondPanics, Panics, HostBugs
  <2>2. CASE ScanCondSignalled(u, c)
    BY <1>3, <2>2 DEF ScanCondSignalled, WakeWithMutex, WaitingFor, Looking,
       ThreadsTyped, ThreadTypeOK
  <2>3. CASE ScanCondTimesOut(u, c)
    BY <1>3, <2>3 DEF ScanCondTimesOut, TimesOut, WakeWithMutex, WaitingFor,
       Looking, ThreadsTyped, ThreadTypeOK
  <2>4. CASE ScanCondTimesOutLocked(u, c)
    <3>1. cmutex[c] \in Mutexes
      BY <2>4 DEF ScanCondTimesOutLocked, mutex_is_locked, MutexTypeOK
    <3>2. On("mutex", cmutex[c]) \in Blocks
      BY <3>1, BlockTypes
    <3>3. ThreadTypeOK'
      BY <2>4, <3>2 DEF ScanCondTimesOutLocked, ThreadsTyped, ThreadTypeOK
    <3>4. SchedTypeOK'
      BY <2>4, PassTypes
         DEF ScanCondTimesOutLocked, TimesOut, WaitingFor, Looking
    <3> QED BY <3>3, <3>4 DEF ThreadsTyped
  <2>5. CASE ScanCondStays(u, c)
    BY <1>2, <2>5 DEF ScanCondStays, WaitingFor, Looking
  <2> QED BY <1>5, <2>1, <2>2, <2>3, <2>4, <2>5 DEF ScanWaiter
<1>6. CASE SleepTillAwakening
  BY <1>6, StartPassTypes
     DEF SleepTillAwakening, ThreadsTyped, ThreadTypeOK, threadVars
<1>7. CASE GracePeriod
  BY <1>7, EnvironmentAssumption
     DEF GracePeriod, ThreadsTyped, ThreadTypeOK, SchedTypeOK, threadVars,
         MaxGrace
<1>8. CASE DeclareDeadlock
  BY <1>1, <1>8 DEF DeclareDeadlock, Panics
<1> QED BY <1>4, <1>5, <1>6, <1>7, <1>8 DEF Scheduler

(* Every step of the system keeps the types of ThreadsTyped.               *)
LEMMA NextThreadTypes ==
  ASSUME MutexTypeOK, CondTypeOK, ThreadsTyped, [Next]_vars
  PROVE  ThreadsTyped'
<1>1. CASE Guest
  BY <1>1, GuestThreadTypes
<1>2. CASE Scheduler
  BY <1>2, SchedulerThreadTypes
<1>3. CASE Preempt
  BY <1>3, StartPassTypes DEF Preempt, ThreadsTyped, ThreadTypeOK, threadVars
<1>4. ASSUME NEW t \in Threads, Tick(t) PROVE ThreadsTyped'
  BY <1>4 DEF Tick, ThreadsTyped, ThreadTypeOK, SchedTypeOK, schedVars
<1>5. CASE UNCHANGED vars
  BY <1>5 DEF vars, threadVars, schedVars, ThreadsTyped, ThreadTypeOK,
     SchedTypeOK
<1> QED BY <1>1, <1>2, <1>3, <1>4, <1>5 DEF Next

-----------------------------------------------------------------------------
(* Every variable keeps its type; the lock invariant is what keeps lock    *)
(* counts from going below zero.                                           *)
THEOREM TypeCorrect == Spec => []TypeOK
<1>1. Init => TypeOK
  <2> SUFFICES ASSUME Init PROVE TypeOK
    OBVIOUS
  <2>1. MutexTypeOK /\ held \in [Threads -> [Mutexes -> Nat]]
    BY LockInvInit DEF LockInv
  <2>2. CondTypeOK
    BY DEF Init, CondInit, CondTypeOK
  <2>3. SemTypeOK
    BY SemAssumption DEF Init, SemInit, SemTypeOK
  <2>4. ThreadTypeOK
    BY EnvironmentAssumption, BlockTypes DEF Init, ThreadTypeOK
  <2>5. SchedTypeOK
    <3>1. /\ current = 0 /\ nthreads = 1 /\ scanned = 0 /\ grace = 0
          /\ pc = "guest" /\ awakening = FALSE
      BY DEF Init
    <3>2. awakening \in BOOLEAN
      BY <3>1
    <3>3. current \in 0..(nthreads - 1) /\ scanned \in 0..nthreads
      BY <3>1
    <3>4. grace \in 0..MaxGrace
      BY <3>1 DEF MaxGrace
    <3> QED BY <3>1, <3>2, <3>3, <3>4 DEF SchedTypeOK
  <2> QED BY <2>1, <2>2, <2>3, <2>4, <2>5 DEF TypeOK
<1>2. TypeOK /\ LockInv' /\ [Next]_vars => TypeOK'
  <2> SUFFICES ASSUME TypeOK, LockInv', [Next]_vars PROVE TypeOK'
    OBVIOUS
  <2>1. MutexTypeOK' /\ held' \in [Threads -> [Mutexes -> Nat]]
    BY DEF LockInv
  <2>2. CondTypeOK'
    BY NextCondTypes DEF TypeOK
  <2>3. SemTypeOK'
    <3>1. CASE UNCHANGED semVars
      BY <3>1 DEF TypeOK, SemTypeOK, semVars
    <3>2. CASE \E t \in Threads, s \in Sems : SemStep(t, s)
      BY <3>2, SemStepTypes DEF TypeOK
    <3> QED BY <3>1, <3>2, NextSemStep DEF TypeOK
  <2>4. ThreadTypeOK' /\ SchedTypeOK'
    BY NextThreadTypes DEF TypeOK, ThreadsTyped
  <2> QED BY <2>1, <2>2, <2>3, <2>4 DEF TypeOK
<1> QED BY <1>1, <1>2, LockInvHolds, PTL DEF Spec
=============================================================================
