-------------------------- MODULE SchedulerProofs --------------------------
(***************************************************************************)
(* Theorems about the scheduler of Environment: it runs no thread that     *)
(* cannot run, wakes waiters for a reason, and is right about deadlocks.   *)
(***************************************************************************)
EXTENDS EnvironmentProofs

-----------------------------------------------------------------------------
(* A pass looks at every thread: (current + 1 + i) % nthreads is onto.     *)
LEMMA PassComplete ==
  ASSUME NEW n \in Nat \ {0}, NEW c \in 0..(n - 1), NEW t \in 0..(n - 1)
  PROVE  \E i \in 0..(n - 1) : (c + 1 + i) % n = t
<1>1. CASE t > c
  <2>1. t % n = t
    OBVIOUS
  <2>2. t - c - 1 \in 0..(n - 1) /\ c + 1 + (t - c - 1) = t
    BY <1>1
  <2> QED BY <2>1, <2>2
<1>2. CASE t <= c
  <2>1. (t + n) % n = t
    OBVIOUS
  <2>2. t - c - 1 + n \in 0..(n - 1) /\ c + 1 + (t - c - 1 + n) = t + n
    BY <1>2
  <2> QED BY <2>1, <2>2
<1> QED BY <1>1, <1>2

-----------------------------------------------------------------------------
(* While a pass has found no awakening, it has found no thread to run.     *)
PassedOver ==
  pc = "scan" /\ ~awakening =>
    \A i \in 0..(scanned - 1) : ~CanRun((current + 1 + i) % nthreads)

(* After a pass that found neither, no thread can run any more.            *)
StuckStays == grace > 0 => pc # "guest" /\ \A t \in Threads : ~CanRun(t)

SchedInv == RunsUnblocked /\ PassedOver /\ StuckStays /\ DeadlockIsReal

(* At the start the main thread runs.                                      *)
LEMMA SchedInvInit == Init => SchedInv
<1> SUFFICES ASSUME Init PROVE SchedInv
  OBVIOUS
<1>1. pc = "guest" /\ grace = 0
  BY DEF Init
<1>2. PassedOver /\ StuckStays /\ DeadlockIsReal
  BY <1>1 DEF PassedOver, StuckStays, DeadlockIsReal
<1>3. current = 0 /\ 0 \in Threads
  BY EnvironmentAssumption DEF Init
<1>4. RunsUnblocked
  BY <1>3 DEF Init, RunsUnblocked
<1> QED BY <1>2, <1>4 DEF SchedInv

(* A guest call lets the current thread go on, starts a pass or makes the  *)
(* host panic, and blocks no thread but the current one.                   *)
GuestMoves ==
  /\ pc = "guest" /\ grace' = grace
  /\ \/ pc' = "guest" /\ RunsUnblocked'
     \/ pc' = "scan" /\ scanned' = 0
     \/ pc' \in HostBugs
  /\ \A t \in Threads \ {current} : blocked'[t] = blocked[t]

(* Every guest call is such a move.                                        *)
LEMMA GuestControl ==
  ASSUME ThreadsTyped, RunsUnblocked, Guest
  PROVE  GuestMoves
<1>1. PICK t \in Threads :
        \/ \E m \in Mutexes : MutexCalls(t, m)
        \/ \E c \in Conds, m \in Mutexes : WaitCalls(t, c, m)
        \/ \E c \in Conds : CondCalls(t, c)
        \/ \E s \in Sems : SemCalls(t, s)
        \/ ThreadCalls(t)
        \/ \E u \in Threads : ThreadPairCalls(t, u)
  BY DEF Guest
<1>2. ASSUME pc = "guest",
             UNCHANGED <<active, suspended, blocked, schedVars>>
      PROVE  GuestMoves
  BY <1>2 DEF schedVars, GuestMoves, RunsUnblocked
<1>3. ASSUME NEW why \in HostBugs, pc = "guest", Panic(why) PROVE GuestMoves
  BY <1>3 DEF Panic, GuestMoves, threadVars
<1>4. ASSUME NEW b, Running(t), Yield(t, b) PROVE GuestMoves
  BY <1>4 DEF Running, Yield, StartPass, GuestMoves, ThreadsTyped, ThreadTypeOK
<1>5. ASSUME NEW m \in Mutexes, MutexCalls(t, m) PROVE GuestMoves
  <2>1. CASE pthread_mutex_lock_blocks(t, m)
    BY <1>4, <2>1 DEF pthread_mutex_lock_blocks, Call
  <2>2. CASE ~pthread_mutex_lock_blocks(t, m)
    BY <1>2, <1>5, <2>2 DEF MutexCalls, pthread_mutex_init, threadVars, Call,
       Running, pthread_mutex_lock, pthread_mutex_trylock,
       pthread_mutex_unlock, pthread_mutex_destroy
  <2> QED BY <2>1, <2>2
<1>6. ASSUME NEW c \in Conds, NEW m \in Mutexes, WaitCalls(t, c, m)
      PROVE  GuestMoves
  <2>1. CASE pthread_cond_wait(t, c, m) \/ pthread_cond_timedwait(t, c, m)
    BY <1>4, <2>1
       DEF pthread_cond_wait, pthread_cond_timedwait, CondWait, Call
  <2>2. CASE WaitRefused(t, c, m)
    BY <1>2, <2>2 DEF WaitRefused, threadVars, Running
  <2>3. CASE WaitPanics(t, c, m)
    BY <1>3, <2>3 DEF WaitPanics, HostBugs, Running
  <2> QED BY <1>6, <2>1, <2>2, <2>3 DEF WaitCalls
<1>7. ASSUME NEW c \in Conds, CondCalls(t, c) PROVE GuestMoves
  <2>1. CASE SignalPanics(t, c) \/ CondDestroyPanics(t, c)
    BY <1>3, <2>1 DEF SignalPanics, CondDestroyPanics, HostBugs, Call, Running
  <2>2. CASE ~(SignalPanics(t, c) \/ CondDestroyPanics(t, c))
    BY <1>2, <1>7, <2>2 DEF CondCalls, pthread_cond_init, pthread_cond_signal,
       pthread_cond_broadcast, pthread_cond_destroy, threadVars, Call, Running
  <2> QED BY <2>1, <2>2
<1>8. ASSUME NEW s \in Sems, SemCalls(t, s) PROVE GuestMoves
  <2>1. CASE sem_wait_blocks(t, s)
    BY <1>4, <2>1 DEF sem_wait_blocks, Call
  <2>2. CASE ~sem_wait_blocks(t, s)
    BY <1>2, <1>8, <2>2 DEF SemCalls, sem_init, sem_destroy, sem_post,
       sem_wait, threadVars, Call, Running
  <2> QED BY <2>1, <2>2
<1>9. ASSUME ThreadCalls(t) PROVE GuestMoves
  <2>1. CASE Resume(t)
    BY <1>2, <2>1 DEF Resume
  <2>2. CASE ResumePanics(t)
    BY <1>3, <2>2 DEF ResumePanics, HostBugs
  <2>3. CASE sleep(t)
    BY <1>4, <2>3 DEF sleep, Call
  <2>4. ASSUME NEW count \in {0, 1}, Running(t), NewThread(t, count)
        PROVE  GuestMoves
    <3>1. suspended'[current] = suspended[current] /\ active \subseteq active'
      BY <2>4 DEF NewThread, ThreadsTyped, ThreadTypeOK, SchedTypeOK
    <3> QED
      BY <2>4, <3>1 DEF NewThread, Running, schedVars, GuestMoves,
         RunsUnblocked
  <2>5. CASE FinishThread(t)
    BY <2>5 DEF FinishThread, Call, Running, StartPass, GuestMoves
  <2> QED
    BY <1>9, <2>1, <2>2, <2>3, <2>4, <2>5
       DEF ThreadCalls, pthread_create, pthread_create_suspended_np, Call
<1>10. ASSUME NEW u \in Threads, ThreadPairCalls(t, u) PROVE GuestMoves
  <2>1. CASE pthread_join(t, u)
    BY <1>4, <2>1 DEF pthread_join, Call
  <2>2. CASE pthread_detach(t, u)
    BY <1>2, <2>2 DEF pthread_detach, Call, Running
  <2>3. CASE suspend_thread(t, u)
    <3>1. CASE u = t
      BY <2>3, <3>1 DEF suspend_thread, StartPass, Call, Running, GuestMoves
    <3>2. CASE u # t
      BY <2>3, <3>2 DEF suspend_thread, schedVars, Call, Running, GuestMoves,
         RunsUnblocked, ThreadsTyped, ThreadTypeOK
    <3> QED BY <3>1, <3>2
  <2>4. CASE resume_thread(t, u)
    <3>1. u # current
      BY <2>4 DEF resume_thread, Call, Running, RunsUnblocked
    <3> QED
      BY <2>4, <3>1 DEF resume_thread, schedVars, Call, Running, GuestMoves,
         RunsUnblocked, ThreadsTyped, ThreadTypeOK
  <2> QED BY <1>10, <2>1, <2>2, <2>3, <2>4 DEF ThreadPairCalls
<1> QED BY <1>1, <1>5, <1>6, <1>7, <1>8, <1>9, <1>10

-----------------------------------------------------------------------------
(* No thread can run that could not before.                                *)
NoneFreed == \A t \in Threads : CanRun(t)' => CanRun(t)

(* The scheduler wakes a thread that can run, passes over one that cannot  *)
(* or that has a deadline, makes the host panic, or is at a pass's end.    *)
Woken(u) ==
  Scanning(u) /\ CanRun(u) /\ Wake(u) /\ UNCHANGED <<active, suspended>>

Skipped(u, timed) ==
  /\ Scanning(u) /\ Pass(timed) /\ UNCHANGED nthreads
  /\ timed \/ ~CanRun(u)'
  /\ NoneFreed

SchedulerMoves ==
  \/ \E u \in Threads : Woken(u)
  \/ \E u \in Threads, timed \in BOOLEAN : Skipped(u, timed)
  \/ pc' \in HostBugs /\ grace' = grace /\ NoneFreed
  \/ SleepTillAwakening \/ GracePeriod \/ DeclareDeadlock

(* What CanRun depends on; a deadline that is over still counts.           *)
LEMMA CanRunKept ==
  ASSUME UNCHANGED <<active, suspended, blocked, mutexVars, condVars, semVars>>,
         \A t \in Threads : deadline'[t] = "none" <=> deadline[t] = "none",
         NEW t \in Threads
  PROVE  CanRun(t)' <=> CanRun(t)
BY DEF CanRun, mutexVars, condVars, semVars, mutex_is_locked, Signalled,
   NextToWake

(* A timed out waiter whose mutex is locked is left unable to run, and no  *)
(* other waiter can run in its place.                                      *)
LEMMA TimesOutLockedSkips ==
  ASSUME ThreadsTyped, MutexTypeOK, CondTypeOK,
         NEW u \in Threads, NEW c \in Conds, ScanCondTimesOutLocked(u, c)
  PROVE  Skipped(u, FALSE)
<1> USE DEF ScanCondTimesOutLocked
<1>1. Scanning(u) /\ Pass(FALSE) /\ UNCHANGED nthreads
  BY DEF TimesOut, WaitingFor, Looking
<1>2. /\ UNCHANGED <<active, suspended, deadline, table, owner, open, value,
                     cmutex>>
      /\ blocked' = [blocked EXCEPT ![u] = On("mutex", cmutex[c])]
      /\ \A d \in Conds \ {c} : cwaking'[d] = cwaking[d]
  BY DEF TimesOut, cond_time_out, mutexVars, semVars, CondTypeOK
<1>3. mutex_is_locked(cmutex[c])
  OBVIOUS
<1>4. ~CanRun(u)'
  BY <1>2, <1>3 DEF CanRun, On, mutex_is_locked, ThreadsTyped, ThreadTypeOK
<1>5. ASSUME NEW t \in Threads \ {u}, CanRun(t)' PROVE CanRun(t)
  <2>1. blocked'[t] = blocked[t]
    BY <1>2 DEF ThreadsTyped, ThreadTypeOK
  <2>2. CASE blocked[t].on # "cond"
    BY <1>2, <1>5, <2>1, <2>2 DEF CanRun, mutex_is_locked
  <2>3. CASE blocked[t].on = "cond"
    <3>1. blocked[t].obj \in Conds
      BY <2>3 DEF ThreadsTyped, ThreadTypeOK, Blocks, Ready, Asleep
    <3>2. CASE blocked[t].obj = c
      BY <1>2, <1>3, <1>5, <2>1, <2>3, <3>2
         DEF CanRun, Signalled, mutex_is_locked
    <3>3. CASE blocked[t].obj # c
      BY <1>2, <1>5, <2>1, <2>3, <3>1, <3>3
         DEF CanRun, Signalled, NextToWake, mutex_is_locked
    <3> QED BY <3>2, <3>3
  <2> QED BY <2>2, <2>3
<1> QED BY <1>1, <1>4, <1>5 DEF Skipped, NoneFreed

(* Every step of the scheduler is such a move.                             *)
LEMMA SchedulerControl ==
  ASSUME ThreadsTyped, MutexTypeOK, CondTypeOK, Scheduler
  PROVE  SchedulerMoves
<1>1. ASSUME NEW why \in HostBugs, Panic(why) PROVE SchedulerMoves
  BY <1>1, CanRunKept DEF Panic, threadVars, SchedulerMoves, NoneFreed
<1>2. ASSUME NEW u \in Threads, NEW timed \in BOOLEAN, Scanning(u),
             PassOver(timed), timed \/ ~CanRun(u)
      PROVE  SchedulerMoves
  <2>1. NoneFreed /\ (timed \/ ~CanRun(u)')
    BY <1>2, CanRunKept DEF PassOver, threadVars, NoneFreed
  <2> QED
    BY <1>2, <2>1 DEF PassOver, threadVars, SchedulerMoves, Skipped
<1>3. ASSUME NEW u \in Threads, ScanThread(u) PROVE SchedulerMoves
  <2>1. CASE ScanIdle(u)
    <3>1. Scanning(u) /\ PassOver(FALSE)
      BY <2>1 DEF ScanIdle
    <3>2. suspended[u] \in Nat
      BY DEF ThreadsTyped, ThreadTypeOK
    <3>3. ~CanRun(u)
      BY <2>1, <3>2 DEF ScanIdle, CanRun
    <3> QED BY <1>2, <3>1, <3>3
  <2>2. CASE ScanReady(u)
    BY <2>2 DEF ScanReady, Looking, CanRun, SchedulerMoves, Woken
  <2>3. CASE ScanSleeping(u)
    BY <1>2, <2>3 DEF ScanSleeping, Looking, CanRun, SchedulerMoves, Woken
  <2>4. CASE ScanMutex(u)
    <3>1. CASE mutex_is_locked(blocked[u].obj)
      BY <1>1, <1>2, <2>4, <3>1 DEF ScanMutex, Looking, CanRun, HostBugs
    <3>2. CASE ~mutex_is_locked(blocked[u].obj)
      BY <1>1, <2>4, <3>2 DEF ScanMutex, WakeWithMutex, Looking, CanRun,
         HostBugs, SchedulerMoves, Woken
    <3> QED BY <3>1, <3>2
  <2>5. CASE ScanSemaphore(u)
    <3> DEFINE s == blocked[u].obj
    <3>1. Looking(u, "sem")
      BY <2>5 DEF ScanSemaphore
    <3>2. CASE s \in open /\ value[s] = 0 /\ PassOver(FALSE)
      <4>1. ~(value[s] > 0)
        BY <3>2
      <4>2. ~CanRun(u)
        BY <3>1, <3>2, <4>1 DEF Looking, CanRun
      <4> QED BY <1>2, <3>1, <3>2, <4>2 DEF Looking
    <3>3. CASE /\ DecrementForWaiter(u, s) \/ DecrementOfMissing(s)
               /\ Wake(u)
               /\ UNCHANGED <<active, suspended>>
      <4>1. s \in open => value[s] > 0
        BY <3>3 DEF DecrementForWaiter, DecrementOfMissing
      <4> QED BY <3>1, <3>3, <4>1 DEF Looking, CanRun, SchedulerMoves, Woken
    <3> QED BY <2>5, <3>2, <3>3 DEF ScanSemaphore
  <2>6. CASE ScanJoining(u)
    BY <1>2, <2>6 DEF ScanJoining, Looking, CanRun, SchedulerMoves, Woken
  <2> QED BY <1>3, <2>1, <2>2, <2>3, <2>4, <2>5, <2>6 DEF ScanThread
<1>4. ASSUME NEW u \in Threads, NEW c \in Conds, ScanWaiter(u, c)
      PROVE  SchedulerMoves
  <2>1. CASE ScanCondPanics(u, c)
    BY <1>1, <2>1 DEF ScanCondPanics, HostBugs
  <2>2. CASE ScanCondSignalled(u, c)
    BY <2>2 DEF ScanCondSignalled, WaitingFor, WakeWithMutex, Looking, CanRun,
       SchedulerMoves, Woken
  <2>3. CASE ScanCondTimesOut(u, c)
    BY <2>3 DEF ScanCondTimesOut, TimesOut, WaitingFor, WakeWithMutex, Looking,
       CanRun, SchedulerMoves, Woken
  <2>4. CASE ScanCondTimesOutLocked(u, c)
    BY <2>4, TimesOutLockedSkips DEF SchedulerMoves
  <2>5. CASE ScanCondStays(u, c)
    <3>1. deadline[u] \in {"none", "ahead", "over"}
      BY DEF ThreadsTyped, ThreadTypeOK
    <3> QED
      BY <1>2, <2>5, <3>1 DEF ScanCondStays, WaitingFor, Looking, CanRun
  <2> QED BY <1>4, <2>1, <2>2, <2>3, <2>4, <2>5 DEF ScanWaiter
<1> QED BY <1>3, <1>4 DEF Scheduler, SchedulerMoves

-----------------------------------------------------------------------------
(* At the end of a pass that has found nothing, no thread can run.         *)
LEMMA PassFoundNone ==
  ASSUME ThreadsTyped, PassedOver, EndOfPass, ~awakening, NEW t \in Threads
  PROVE  ~CanRun(t)
<1>1. CASE t \in 0..(nthreads - 1)
  <2>1. nthreads \in Nat \ {0}
    BY ThreadCount DEF ThreadsTyped
  <2>2. \E i \in 0..(nthreads - 1) : (current + 1 + i) % nthreads = t
    BY <1>1, <2>1, PassComplete DEF ThreadsTyped, SchedTypeOK
  <2> QED BY <2>2 DEF PassedOver, EndOfPass
<1>2. CASE t \notin 0..(nthreads - 1)
  BY <1>2 DEF CanRun, ThreadsTyped, ThreadTypeOK
<1> QED BY <1>1, <1>2

(* A thread that is woken runs as RunsUnblocked says.                      *)
LEMMA WokenKeeps ==
  ASSUME ThreadsTyped, SchedInv, NEW u \in Threads, Woken(u)
  PROVE  SchedInv'
<1>1. pc' = "guest" /\ current' = u /\ blocked'[u] = Ready /\ grace' = grace
  BY DEF Woken, Wake, ThreadsTyped, ThreadTypeOK
<1>2. RunsUnblocked'
  BY <1>1 DEF Woken, CanRun, RunsUnblocked
<1>3. ~(grace > 0)
  BY DEF Woken, SchedInv, StuckStays
<1> QED
  BY <1>1, <1>2, <1>3 DEF SchedInv, PassedOver, StuckStays, DeadlockIsReal

(* A thread that is passed over joins those found unable to run.           *)
LEMMA SkippedKeeps ==
  ASSUME ThreadsTyped, SchedInv, NEW u \in Threads, NEW timed \in BOOLEAN,
         Skipped(u, timed)
  PROVE  SchedInv'
<1>1. /\ pc = "scan" /\ pc' = "scan" /\ u = (current + 1 + scanned) % nthreads
      /\ UNCHANGED <<current, nthreads, grace>>
      /\ scanned' = scanned + 1 /\ awakening' = (awakening \/ timed)
  BY DEF Skipped, Scanning, Candidate, Pass
<1>2. PassedOver'
  <2> SUFFICES ASSUME ~awakening', NEW i \in 0..(scanned' - 1)
               PROVE  ~CanRun((current + 1 + i) % nthreads)'
    BY <1>1 DEF PassedOver
  <2>1. ~awakening /\ ~timed /\ scanned \in Nat
    BY <1>1, ThreadCount DEF ThreadsTyped, SchedTypeOK
  <2>2. CASE i = scanned
    BY <1>1, <2>1, <2>2 DEF Skipped
  <2>3. CASE i # scanned
    <3>1. i \in 0..(scanned - 1)
      BY <1>1, <2>1, <2>3
    <3>2. (current + 1 + i) % nthreads \in Threads
      <4>1. nthreads \in 1..NumThreads /\ current \in Nat /\ NumThreads \in Nat
        BY EnvironmentAssumption DEF ThreadsTyped, ThreadTypeOK, SchedTypeOK
      <4>2. (current + 1 + i) % nthreads \in 0..(nthreads - 1)
        BY <3>1, <4>1
      <4> QED BY <4>1, <4>2, EnvironmentAssumption
    <3>3. ~CanRun((current + 1 + i) % nthreads)
      BY <1>1, <2>1, <3>1 DEF SchedInv, PassedOver
    <3> QED BY <1>1, <3>2, <3>3 DEF Skipped, NoneFreed
  <2> QED BY <2>2, <2>3
<1>3. RunsUnblocked' /\ DeadlockIsReal'
  BY <1>1 DEF RunsUnblocked, DeadlockIsReal
<1>4. StuckStays'
  BY <1>1 DEF SchedInv, StuckStays, Skipped, NoneFreed
<1> QED BY <1>2, <1>3, <1>4 DEF SchedInv

(* SchedInv is inductive, given the types.                                 *)
LEMMA SchedInvStep ==
  ASSUME TypeOK, SchedInv, [Next]_vars
  PROVE  SchedInv'
<1> USE DEF TypeOK, ThreadsTyped
<1>1. CASE Guest
  <2>1. GuestMoves
    BY <1>1, GuestControl DEF SchedInv
  <2>2. grace' = grace /\ ~(grace > 0)
    BY <2>1 DEF GuestMoves, SchedInv, StuckStays
  <2>3. RunsUnblocked' /\ pc' # "deadlock"
    BY <2>1 DEF GuestMoves, RunsUnblocked, HostBugs
  <2>4. PassedOver'
    BY <2>1 DEF GuestMoves, PassedOver, HostBugs
  <2> QED BY <2>2, <2>3, <2>4 DEF SchedInv, StuckStays, DeadlockIsReal
<1>2. CASE Preempt
  <2>1. /\ pc = "guest" /\ pc' = "scan" /\ scanned' = 0 /\ grace' = grace
    BY <1>2 DEF Preempt, Running, StartPass
  <2> QED
    BY <2>1 DEF SchedInv, RunsUnblocked, PassedOver, StuckStays, DeadlockIsReal
<1>3. CASE Scheduler
  <2>1. SchedulerMoves
    BY <1>3, SchedulerControl
  <2>2. ASSUME pc' \in HostBugs, grace' = grace, NoneFreed PROVE SchedInv'
    BY <2>2 DEF HostBugs, NoneFreed, SchedInv, RunsUnblocked, PassedOver,
       StuckStays, DeadlockIsReal
  <2>3. CASE SleepTillAwakening
    <3>1. /\ pc' = "scan" /\ scanned' = 0 /\ grace' = grace
          /\ \A t \in Threads : CanRun(t)' <=> CanRun(t)
      BY <2>3, CanRunKept DEF SleepTillAwakening, StartPass, threadVars
    <3> QED
      BY <3>1
         DEF SchedInv, RunsUnblocked, PassedOver, StuckStays, DeadlockIsReal
  <2>4. ASSUME GracePeriod \/ DeclareDeadlock PROVE SchedInv'
    <3>1. \A t \in Threads : ~CanRun(t)
      BY <2>4, PassFoundNone DEF GracePeriod, DeclareDeadlock, SchedInv
    <3>2. \A t \in Threads : ~CanRun(t)'
      BY <2>4, <3>1, CanRunKept
         DEF GracePeriod, DeclareDeadlock, Panic, threadVars
    <3>3. (pc' = "scan" /\ scanned' = 0) \/ pc' = "deadlock"
      BY <2>4 DEF GracePeriod, DeclareDeadlock, Panic, EndOfPass
    <3> QED
      BY <3>2, <3>3
         DEF SchedInv, RunsUnblocked, PassedOver, StuckStays, DeadlockIsReal
  <2> QED
    BY <2>1, <2>2, <2>3, <2>4, WokenKeeps, SkippedKeeps DEF SchedulerMoves
<1>4. CASE (\E t \in Threads : Tick(t)) \/ UNCHANGED vars
  <2>1. UNCHANGED <<active, suspended, blocked, nthreads, schedVars>>
    BY <1>4 DEF Tick, vars, threadVars
  <2>2. \A t \in Threads : CanRun(t)' <=> CanRun(t)
    BY <1>4, <2>1, CanRunKept DEF Tick, vars, ThreadTypeOK, threadVars
  <2>3. PassedOver'
    <3>1. UNCHANGED <<active, suspended, blocked, mutexVars, condVars, semVars,
                      current, nthreads>>
      BY <1>4 DEF Tick, vars, threadVars, schedVars
    <3>2. \A t : t \in active => t \in Threads
      BY EnvironmentAssumption DEF ThreadTypeOK
    <3>3. \A t : CanRun(t)' => CanRun(t)
      BY <2>1, <2>2, <3>1, <3>2 DEF CanRun
    <3> QED BY <2>1, <3>3 DEF SchedInv, PassedOver, schedVars
  <2> QED
    BY <2>1, <2>2, <2>3
       DEF SchedInv, RunsUnblocked, StuckStays, DeadlockIsReal, schedVars
<1> QED BY <1>1, <1>2, <1>3, <1>4 DEF Next

(* The scheduler's invariant holds for every number of threads.            *)
THEOREM SchedInvHolds == Spec => []SchedInv
BY SchedInvInit, SchedInvStep, TypeCorrect, PTL DEF Spec

(* The current thread runs guest code only while it is active, not         *)
(* suspended and not blocked.                                              *)
THEOREM RunnersUnblocked == Spec => []RunsUnblocked
BY SchedInvHolds, PTL DEF SchedInv

(* The scheduler panics with a deadlock only when no thread could be run.  *)
THEOREM VerdictRight == Spec => []DeadlockIsReal
BY SchedInvHolds, PTL DEF SchedInv

(* The retries before that panic never change the verdict.                 *)
THEOREM VerdictFinal == Spec => StuckForGood
<1>1. SchedInv /\ SchedInv' /\ TypeOK /\ [Next]_vars
        => [grace > 0 => pc' # "guest"]_vars
  <2> SUFFICES ASSUME SchedInv, SchedInv', TypeOK, Next, grace > 0
               PROVE  pc' # "guest"
    BY DEF SchedInv
  <2>1. pc # "guest" /\ \A t \in Threads : ~CanRun(t)
    BY DEF SchedInv, StuckStays
  <2>2. CASE Guest
    BY <2>1, <2>2, GuestControl DEF GuestMoves, SchedInv, TypeOK, ThreadsTyped
  <2>3. CASE Preempt \/ \E t \in Threads : Tick(t)
    BY <2>1, <2>3 DEF Preempt, Running, Tick, schedVars
  <2>4. CASE Scheduler
    <3>1. SchedulerMoves
      BY <2>4, SchedulerControl DEF TypeOK, ThreadsTyped
    <3>2. ASSUME NEW u \in Threads, Woken(u) PROVE FALSE
      BY <2>1, <3>2 DEF Woken
    <3> QED
      BY <2>1, <3>1, <3>2
         DEF SchedulerMoves, Skipped, Pass, HostBugs, SleepTillAwakening,
             StartPass, GracePeriod, DeclareDeadlock, Panic
  <2> QED BY <2>2, <2>3, <2>4 DEF Next
<1> QED BY <1>1, SchedInvHolds, TypeCorrect, PTL DEF Spec, StuckForGood

-----------------------------------------------------------------------------
(* How the scheduler changes what a thread is blocked on.                  *)
WaiterLeaves(t) ==
  LET c == blocked[t].obj IN
  \/ NextToWake(c, t) /\ cwaking'[c] = Tail(cwaking[c])
  \/ deadline[t] = "over" /\ t \in ctimedout'[c]

(* A pass unblocks its candidate only, and a waiter for a reason.          *)
LEMMA SchedulerUnblocks ==
  ASSUME TypeOK, Scheduler, NEW t \in Threads, blocked[t].on = "cond",
         blocked'[t] # blocked[t]
  PROVE  WaiterLeaves(t)
<1> USE DEF TypeOK
<1>1. ASSUME NEW u \in Threads, Wake(u) PROVE u = t
  BY <1>1 DEF Wake, ThreadTypeOK
<1>2. ASSUME NEW u \in Threads, ScanThread(u) PROVE FALSE
  <2>1. blocked[u].on # "cond" \/ UNCHANGED blocked
    BY <1>2 DEF ScanThread, ScanIdle, ScanReady, ScanSleeping, ScanMutex,
       ScanSemaphore, ScanJoining, Looking, PassOver, Panic, threadVars
  <2>2. UNCHANGED blocked \/ Wake(u)
    BY <1>2 DEF ScanThread, ScanIdle, ScanReady, ScanSleeping, ScanMutex,
       WakeWithMutex, ScanSemaphore, ScanJoining, PassOver, Panic, threadVars
  <2> QED BY <1>1, <2>1, <2>2
<1>3. ASSUME NEW u \in Threads, NEW c \in Conds, ScanWaiter(u, c)
      PROVE  WaiterLeaves(t)
  <2>1. CASE ScanCondSignalled(u, c)
    <3>1. u = t /\ c = blocked[t].obj
      BY <1>1, <2>1 DEF ScanCondSignalled, WakeWithMutex, WaitingFor
    <3> QED
      BY <2>1, <3>1 DEF ScanCondSignalled, Signalled, cond_wake, CondTypeOK,
         WaiterLeaves
  <2>2. CASE ScanCondTimesOut(u, c) \/ ScanCondTimesOutLocked(u, c)
    <3>1. TimesOut(u, c) /\ u = t
      BY <1>1, <2>2 DEF ScanCondTimesOut, ScanCondTimesOutLocked,
         WakeWithMutex, ThreadTypeOK
    <3> QED
      BY <3>1 DEF TimesOut, WaitingFor, cond_time_out, CondTypeOK, WaiterLeaves
  <2>3. CASE ScanCondPanics(u, c) \/ ScanCondStays(u, c)
    BY <2>3 DEF ScanCondPanics, ScanCondStays, PassOver, Panic, threadVars
  <2> QED BY <1>3, <2>1, <2>2, <2>3 DEF ScanWaiter
<1>4. CASE SleepTillAwakening \/ GracePeriod \/ DeclareDeadlock
  BY <1>4 DEF SleepTillAwakening, GracePeriod, DeclareDeadlock, Panic,
     threadVars
<1> QED BY <1>2, <1>3, <1>4 DEF Scheduler

(* A wait for a condition variable ends by a signal in its turn or by its  *)
(* deadline, and no guest call of another thread ends it.                  *)
THEOREM WaitsEnd == Spec => WaitEnds
<1>1. SchedInv /\ TypeOK /\ [Next]_vars
        => [\A t \in Threads :
              blocked[t].on = "cond" /\ blocked'[t] # blocked[t] =>
                WaiterLeaves(t)]_vars
  <2> SUFFICES ASSUME SchedInv, TypeOK, Next, NEW t \in Threads,
                      blocked[t].on = "cond", blocked'[t] # blocked[t]
               PROVE  WaiterLeaves(t)
    OBVIOUS
  <2>1. CASE Guest
    <3>1. GuestMoves
      BY <2>1, GuestControl DEF SchedInv, TypeOK, ThreadsTyped
    <3>2. blocked[current].on = "none"
      BY <3>1 DEF GuestMoves, SchedInv, RunsUnblocked, Ready
    <3> QED BY <3>1, <3>2 DEF GuestMoves
  <2>2. CASE Preempt \/ \E u \in Threads : Tick(u)
    BY <2>2 DEF Preempt, Tick, threadVars
  <2>3. CASE Scheduler
    BY <2>3, SchedulerUnblocks
  <2> QED BY <2>1, <2>2, <2>3 DEF Next
<1>2. WaitEnds <=>
        [][\A t \in Threads :
              blocked[t].on = "cond" /\ blocked'[t] # blocked[t] =>
                WaiterLeaves(t)]_vars
  BY DEF WaitEnds, WaiterLeaves
<1> QED BY <1>1, <1>2, SchedInvHolds, TypeCorrect, PTL DEF Spec
=============================================================================
