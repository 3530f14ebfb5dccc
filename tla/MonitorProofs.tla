----------------------------- MODULE MonitorProofs -----------------------------
(***************************************************************************)
(* Theorems about programs that keep the rules of POSIX for their mutexes  *)
(* and condition variables: the host does not panic, and what the program  *)
(* sees of them is what PosixMonitor allows.                               *)
(***************************************************************************)
EXTENDS QueueProofs, MonitorRefinement

-----------------------------------------------------------------------------
(* Host panics.                                                            *)

(* A program that never destroys a mutex or a condition variable and uses  *)
(* one mutex with each condition variable.                                 *)
KeepsObjects == Calls \cap {"cond_destroy", "mutex_destroy"} = {}
OneMutexEach == \A c \in Conds : \A m, n \in WaitMutex[c] : m = n

(* Every condition variable can be found in the host's table, and that of  *)
(* a wait in progress has been.                                            *)
CondsFound ==
  /\ \A c \in Conds : cstate[c] # "gone"
  /\ \A t \in Threads : inWait[t] # NoCond => cstate[inWait[t]] = "live"

(* The mutex of a condition variable that threads wait for is recorded, is *)
(* one they wait with, and is in the host's table.                         *)
WaitsBound ==
  \A t \in Threads, c \in Conds : blocked[t] = On("cond", c) =>
    /\ cstate[c] = "live"
    /\ cmutex[c] \in WaitMutex[c]
    /\ cmutex[c] \in table

HostInv == CondsFound /\ WaitsBound /\ BlockedMutexExists /\ NoHostBug

(* Whatever a step does to the queues or to the blocks, it is one of those *)
(* that QueueProofs distinguishes.                                         *)
LEMMA NextQueueStep ==
  ASSUME TypeOK, RunsUnblocked, [Next /\ InitsIdle]_vars
  PROVE  NoQueueStep \/ \E t \in Threads, c \in Conds : QueueStep(t, c)
<1>1. CASE Preempt \/ (\E t \in Threads : Tick(t)) \/ UNCHANGED vars
  BY <1>1 DEF Preempt, Tick, vars, condVars, threadVars, NoQueueStep
<1> QED
  BY <1>1, GuestQueueStep, SchedulerQueueStep DEF Next, TypeOK, ThreadsTyped

(* No mutex leaves the host's table unless it is destroyed.                *)
LEMMA TableGrows ==
  ASSUME KeepsObjects, TypeOK, RunsUnblocked, [Next]_vars
  PROVE  table \subseteq table'
<1>1. CASE NoMutexWaitStep
  BY <1>1 DEF NoMutexWaitStep
<1>2. ASSUME NEW t \in Threads, NEW m \in Mutexes, MutexWaitStep(t, m)
      PROVE  table \subseteq table'
  BY <1>2 DEF KeepsObjects, MutexWaitStep, init_mutex, Register,
     LockContended, relock_unblocked_mutex, mutexVars
<1> QED BY <1>1, <1>2, NextMutexWaitStep

(* A condition variable, once used, stays in the host's table.             *)
LEMMA CondsFoundStep ==
  ASSUME KeepsObjects, TypeOK, TypeOK', CondsFound,
         NoQueueStep \/ \E t \in Threads, c \in Conds : QueueStep(t, c)
  PROVE  CondsFound'
<1> USE DEF TypeOK, ThreadTypeOK, CondTypeOK
<1>1. CASE NoQueueStep
  <2>1. \A c \in Conds : cstate'[c] # cstate[c] => cstate'[c] = "live"
    BY <1>1 DEF NoQueueStep, KeepsObjects
  <2>2. \A t \in Threads : inWait'[t] # inWait[t] => inWait'[t] = NoCond
    BY <1>1 DEF NoQueueStep
  <2> QED BY <2>1, <2>2 DEF CondsFound
<1>2. ASSUME NEW t \in Threads, NEW c \in Conds, QueueStep(t, c)
      PROVE  CondsFound'
  <2>1. \A d \in Conds : cstate'[d] = cstate[d] \/ cstate'[d] = "live"
    BY <1>2 DEF QueueStep, cond_init, Waits, cond_enqueue, cond_signal,
       cond_broadcast, cond_wake, cond_time_out
  <2>2. CASE UNCHANGED inWait
    BY <2>1, <2>2 DEF CondsFound
  <2>3. CASE \E m \in Mutexes : Waits(t, c, m)
    <3>1. cstate'[c] = "live" /\ inWait' = [inWait EXCEPT ![t] = c]
      BY <2>3 DEF Waits, cond_enqueue
    <3> QED BY <2>1, <3>1 DEF CondsFound
  <2> QED BY <1>2, <2>2, <2>3 DEF QueueStep
<1> QED BY <1>1, <1>2

(* The mutex of those that wait stays recorded, and in the table.          *)
LEMMA WaitsBoundStep ==
  ASSUME KeepsObjects, OneMutexEach, TypeOK, QueuesExact, LocksRegistered,
         WaitsBound, table \subseteq table',
         NoQueueStep \/ \E t \in Threads, c \in Conds : QueueStep(t, c)
  PROVE  WaitsBound'
<1> USE DEF TypeOK, ThreadTypeOK, CondTypeOK
<1> SUFFICES ASSUME NEW u \in Threads, NEW d \in Conds,
                    blocked'[u] = On("cond", d)
             PROVE  /\ cstate'[d] = "live" /\ cmutex'[d] \in WaitMutex[d]
                    /\ cmutex'[d] \in table'
  BY DEF WaitsBound
<1>1. ASSUME blocked[u] = On("cond", d), cmutex'[d] = cmutex[d],
             cstate'[d] # cstate[d] => cstate'[d] = "live"
      PROVE  /\ cstate'[d] = "live" /\ cmutex'[d] \in WaitMutex[d]
             /\ cmutex'[d] \in table'
  BY <1>1 DEF WaitsBound
<1>2. CASE NoQueueStep
  <2>1. blocked'[u].on = "cond"
    BY DEF On
  <2>2. blocked[u] = On("cond", d)
    BY <1>2, <2>1 DEF NoQueueStep
  <2> QED BY <1>1, <1>2, <2>2 DEF NoQueueStep, KeepsObjects
<1>3. ASSUME NEW t \in Threads, NEW c \in Conds, QueueStep(t, c)
      PROVE  /\ cstate'[d] = "live" /\ cmutex'[d] \in WaitMutex[d]
             /\ cmutex'[d] \in table'
  <2>1. CASE CanDestroyCond(c) /\ cond_init(c) /\ UNCHANGED <<blocked, inWait>>
    <3>1. d # c
      <4>1. \A v \in Threads : ~InQueue(cwaiting[c], v) /\ ~InQueue(cwaking[c], v)
        BY <2>1 DEF CanDestroyCond, InQueue
      <4> QED BY <2>1, <4>1, QueuesExactSplit DEF Queued, OnQueue
    <3> QED BY <1>1, <2>1, <3>1 DEF cond_init
  <2>2. ASSUME NEW m \in Mutexes, Waits(t, c, m)
        PROVE  /\ cstate'[d] = "live" /\ cmutex'[d] \in WaitMutex[d]
               /\ cmutex'[d] \in table'
    <3>1. /\ cstate'[c] = "live" /\ cmutex'[c] = m
          /\ d # c => cstate'[d] = cstate[d] /\ cmutex'[d] = cmutex[d]
      BY <2>2 DEF Waits, cond_enqueue
    <3>2. m \in WaitMutex[c] /\ m \in table
      BY <2>2 DEF Waits, UnlockFails, LocksRegistered, MutexTypeOK
    <3>3. u # t => blocked[u] = On("cond", d)
      BY <2>2 DEF Waits, Blocking
    <3>4. u = t => d = c
      BY <2>2 DEF Waits, Blocking, On
    <3> QED BY <1>1, <3>1, <3>2, <3>3, <3>4
  <2>3. CASE (cond_signal(c) \/ cond_broadcast(c)) /\ UNCHANGED <<blocked, inWait>>
    BY <1>1, <2>3 DEF cond_signal, cond_broadcast
  <2>4. CASE cond_wake(c) /\ Blocking(t, Ready)
    BY <1>1, <2>4 DEF cond_wake, Blocking, Ready, On
  <2>5. CASE cond_time_out(c, t) /\ \E b : b.on # "cond" /\ Blocking(t, b)
    BY <1>1, <2>5 DEF cond_time_out, Blocking, On
  <2> QED BY <1>3, <2>1, <2>2, <2>3, <2>4, <2>5 DEF QueueStep
<1> QED BY <1>2, <1>3

(* The mutex of a thread blocked on it stays in the table.                 *)
LEMMA BlockedMutexStep ==
  ASSUME KeepsObjects, TypeOK, RunsUnblocked, LocksRegistered,
         BlockedMutexExists, table \subseteq table', [Next]_vars
  PROVE  BlockedMutexExists'
<1> USE DEF TypeOK, ThreadTypeOK, BlockedMutexExists
<1>1. CASE NoMutexWaitStep
  BY <1>1 DEF NoMutexWaitStep
<1>2. ASSUME NEW t \in Threads, NEW m \in Mutexes, MutexWaitStep(t, m)
      PROVE  BlockedMutexExists'
  <2>1. CASE UNCHANGED blocked
    BY <2>1
  <2>2. CASE Blocking(t, Ready)
    BY <2>2 DEF Blocking, Ready
  <2>3. CASE (LockContended(t, m) \/ mutex_is_locked(m)) /\ Blocking(t, On("mutex", m))
    <3>1. m \in table
      BY <2>3 DEF LockContended, LocksRegistered, mutex_is_locked
    <3> QED BY <2>3, <3>1 DEF Blocking, On
  <2> QED BY <1>2, <2>1, <2>2, <2>3 DEF MutexWaitStep
<1> QED BY <1>1, <1>2, NextMutexWaitStep

(* Where a host panic can come from, as the state before it shows.         *)
PanicCause ==
  \/ \E c \in Conds : cstate[c] = "gone"
  \/ \E c \in Conds : \E m \in WaitMutex[c] : ~MutexAgrees(c, m)
  \/ "cond_destroy" \in Calls
  \/ \E t \in Threads : inWait[t] # NoCond /\ cstate[inWait[t]] # "live"
  \/ ~BlockedMutexExists
  \/ \E t \in Threads, c \in Conds :
       /\ blocked[t] = On("cond", c)
       /\ cstate[c] # "live" \/ cmutex[c] = Nobody \/ cmutex[c] \notin table

(* A guest call makes the host panic only for such a cause.                *)
LEMMA GuestPanics ==
  ASSUME Guest, pc' \in HostBugs
  PROVE  PanicCause
<1>1. PICK t \in Threads :
        \/ \E m \in Mutexes : MutexCalls(t, m)
        \/ \E c \in Conds, m \in Mutexes : WaitCalls(t, c, m)
        \/ \E c \in Conds : CondCalls(t, c)
        \/ \E s \in Sems : SemCalls(t, s)
        \/ ThreadCalls(t)
        \/ \E u \in Threads : ThreadPairCalls(t, u)
  BY DEF Guest
<1>2. ~(pc' \in {"guest", "scan"})
  BY DEF HostBugs
<1>3. ASSUME NEW m \in Mutexes, MutexCalls(t, m) PROVE FALSE
  BY <1>2, <1>3 DEF MutexCalls, pthread_mutex_init, pthread_mutex_lock,
     pthread_mutex_lock_blocks, pthread_mutex_trylock, pthread_mutex_unlock,
     pthread_mutex_destroy, Call, Running, schedVars, Yield, StartPass
<1>4. ASSUME NEW c \in Conds, NEW m \in Mutexes, WaitCalls(t, c, m)
      PROVE  PanicCause
  <2>1. WaitPanics(t, c, m)
    BY <1>2, <1>4 DEF WaitCalls, pthread_cond_wait, pthread_cond_timedwait,
       CondWait, WaitRefused, Call, Running, schedVars, Yield, StartPass
  <2> QED BY <2>1 DEF WaitPanics, HasHostObject, PanicCause
<1>5. ASSUME NEW c \in Conds, CondCalls(t, c) PROVE PanicCause
  <2>1. SignalPanics(t, c) \/ CondDestroyPanics(t, c)
    BY <1>2, <1>5 DEF CondCalls, pthread_cond_init, pthread_cond_signal,
       pthread_cond_broadcast, pthread_cond_destroy, Call, Running, schedVars
  <2> QED
    BY <2>1 DEF SignalPanics, CondDestroyPanics, HasHostObject, Call, PanicCause
<1>6. ASSUME NEW s \in Sems, SemCalls(t, s) PROVE FALSE
  BY <1>2, <1>6 DEF SemCalls, sem_init, sem_destroy, sem_post, sem_wait,
     sem_wait_blocks, Call, Running, schedVars, Yield, StartPass
<1>7. ASSUME ThreadCalls(t) PROVE PanicCause
  <2>1. ResumePanics(t)
    BY <1>2, <1>7 DEF ThreadCalls, Resume, sleep, pthread_create,
       pthread_create_suspended_np, NewThread, FinishThread, Call, Running,
       schedVars, Yield, StartPass
  <2> QED BY <2>1 DEF ResumePanics, PanicCause
<1>8. ASSUME NEW u \in Threads, ThreadPairCalls(t, u) PROVE FALSE
  BY <1>2, <1>8 DEF ThreadPairCalls, pthread_join, pthread_detach,
     suspend_thread, resume_thread, Call, Running, schedVars, Yield, StartPass
<1> QED BY <1>1, <1>3, <1>4, <1>5, <1>6, <1>7, <1>8

(* So does a step of the scheduler.                                        *)
LEMMA SchedulerPanics ==
  ASSUME TypeOK, Scheduler, pc' \in HostBugs
  PROVE  PanicCause
<1>1. ~(pc' \in {"guest", "scan", "deadlock"})
  BY DEF HostBugs
<1>2. ASSUME NEW u \in Threads, ScanThread(u) PROVE PanicCause
  <2>1. Looking(u, "mutex") /\ blocked[u].obj \notin table
    BY <1>1, <1>2 DEF ScanThread, ScanIdle, ScanReady, ScanSleeping, ScanMutex,
       ScanSemaphore, ScanJoining, WakeWithMutex, Wake, PassOver, Pass,
       Looking, Scanning
  <2> QED BY <2>1 DEF Looking, BlockedMutexExists, PanicCause
<1>3. ASSUME NEW u \in Threads, NEW c \in Conds, ScanWaiter(u, c)
      PROVE  PanicCause
  <2>1. ScanCondPanics(u, c)
    BY <1>1, <1>3 DEF ScanWaiter, ScanCondSignalled, ScanCondTimesOut,
       ScanCondTimesOutLocked, ScanCondStays, TimesOut, WaitingFor, Looking,
       Scanning, WakeWithMutex, Wake, PassOver, Pass
  <2>2. blocked[u] = On("cond", c)
    BY <2>1, BlockedOn DEF ScanCondPanics, WaitingFor, Looking, TypeOK,
       ThreadsTyped
  <2> QED BY <2>1, <2>2 DEF ScanCondPanics, PanicCause
<1>4. CASE SleepTillAwakening \/ GracePeriod \/ DeclareDeadlock
  BY <1>1, <1>4 DEF SleepTillAwakening, GracePeriod, DeclareDeadlock, Panic,
     StartPass, EndOfPass
<1> QED BY <1>2, <1>3, <1>4 DEF Scheduler

(* And so does every step of the system.                                   *)
LEMMA NextPanics ==
  ASSUME TypeOK, NoHostBug, [Next]_vars, pc' \in HostBugs
  PROVE  PanicCause
<1>1. ASSUME Preempt \/ (\E t \in Threads : Tick(t)) \/ UNCHANGED vars
      PROVE  FALSE
  BY <1>1 DEF Preempt, StartPass, Tick, vars, schedVars, HostBugs, NoHostBug
<1> QED BY <1>1, GuestPanics, SchedulerPanics DEF Next

(* Of these causes the invariant leaves none.                              *)
LEMMA NoPanicCause ==
  ASSUME KeepsObjects, OneMutexEach, TypeOK, QueuesExact, HostInv
  PROVE  ~PanicCause
<1>1. ASSUME NEW c \in Conds, NEW m \in WaitMutex[c] PROVE MutexAgrees(c, m)
  <2>1. ASSUME NEW q \in Seq(Threads), q # << >>,
               \A t \in Threads : InQueue(q, t) => OnQueue(c, t)
        PROVE  cmutex[c] = m
    <3>1. 1 \in 1..Len(q) /\ q[1] \in Threads
      BY <2>1, EmptySeq, ElementOfSeq
    <3>2. OnQueue(c, q[1])
      BY <2>1, <3>1 DEF InQueue
    <3>3. blocked[q[1]] = On("cond", c)
      BY <3>1, <3>2, QueuesExactSplit DEF Queued, TypeOK
    <3>4. cmutex[c] \in WaitMutex[c]
      BY <3>1, <3>3 DEF HostInv, WaitsBound
    <3> QED BY <3>4 DEF OneMutexEach
  <2>2. cwaiting[c] \in Seq(Threads) /\ cwaking[c] \in Seq(Threads)
    BY DEF TypeOK, CondTypeOK
  <2> QED BY <2>1, <2>2 DEF MutexAgrees, OnQueue
<1>2. ASSUME NEW t \in Threads, NEW c \in Conds, blocked[t] = On("cond", c)
      PROVE  cstate[c] = "live" /\ cmutex[c] # Nobody /\ cmutex[c] \in table
  <2>1. Nobody \notin table
    BY ObjectsAssumption DEF TypeOK, MutexTypeOK
  <2> QED BY <1>2, <2>1 DEF HostInv, WaitsBound
<1> QED BY <1>1, <1>2 DEF PanicCause, HostInv, CondsFound, KeepsObjects

(* Without one a step keeps the invariant.                                 *)
LEMMA HostInvStep ==
  ASSUME KeepsObjects, OneMutexEach, TypeOK, TypeOK', RunsUnblocked,
         QueuesExact, LocksRegistered, HostInv, [Next /\ InitsIdle]_vars
  PROVE  HostInv'
<1>1. table \subseteq table'
  BY TableGrows
<1>2. NoQueueStep \/ \E t \in Threads, c \in Conds : QueueStep(t, c)
  BY NextQueueStep
<1>3. CondsFound'
  BY <1>2, CondsFoundStep DEF HostInv
<1>4. WaitsBound'
  BY <1>1, <1>2, WaitsBoundStep DEF HostInv
<1>5. BlockedMutexExists'
  BY <1>1, BlockedMutexStep DEF HostInv
<1>6. NoHostBug'
  BY NextPanics, NoPanicCause DEF HostInv, NoHostBug
<1> QED BY <1>3, <1>4, <1>5, <1>6 DEF HostInv

(* At the start nobody waits and no object is destroyed.                   *)
LEMMA HostInvInit == Init => HostInv
<1>1. Ready.on # "mutex" /\ \A c : Ready # On("cond", c)
  BY DEF Ready, On
<1> QED
  BY <1>1 DEF Init, CondInit, HostInv, CondsFound, WaitsBound,
     BlockedMutexExists, NoHostBug, HostBugs

(* The invariant holds for every program that keeps its objects, uses one  *)
(* mutex with each condition variable and initialises only idle ones.      *)
THEOREM HostInvHolds ==
  ASSUME KeepsObjects, OneMutexEach
  PROVE  Spec /\ [][InitsIdle]_vars => []HostInv
<1>1. TypeOK /\ TypeOK' /\ RunsUnblocked /\ QueuesExact /\ LocksRegistered
        /\ HostInv /\ [Next]_vars /\ [InitsIdle]_vars => HostInv'
  BY HostInvStep
<1> QED
  BY <1>1, HostInvInit, TypeCorrect, RunnersUnblocked, QueuesHold,
     LocksStayRegistered, PTL DEF Spec

(* For such a program no unwrap and no assertion of the mutexes, condition *)
(* variables and scheduler fails: only a deadlock makes the host panic.    *)
THEOREM HostNeverPanics ==
  ASSUME KeepsObjects, OneMutexEach
  PROVE  Spec /\ [][InitsIdle]_vars => []NoHostBug
BY HostInvHolds, PTL DEF HostInv

-----------------------------------------------------------------------------
(* The refinement of PosixMonitor.                                         *)

(* A thread is blocked on the condition variable whose wait function it is *)
(* in.                                                                     *)
WaitLink == \A t \in Threads : blocked[t].on = "cond" => inWait[t] = blocked[t].obj

(* A thread enters its wait function when it joins the queue, and leaves   *)
(* it only after it has been unblocked.                                    *)
LEMMA WaitLinkStep ==
  ASSUME TypeOK, WaitLink,
         NoQueueStep \/ \E t \in Threads, c \in Conds : QueueStep(t, c)
  PROVE  WaitLink'
<1> USE DEF TypeOK, ThreadTypeOK, WaitLink
<1>1. CASE NoQueueStep
  BY <1>1 DEF NoQueueStep, Ready
<1>2. ASSUME NEW t \in Threads, NEW c \in Conds, QueueStep(t, c)
      PROVE  WaitLink'
  <2>1. CASE UNCHANGED <<blocked, inWait>>
    BY <2>1
  <2>2. CASE \E m \in Mutexes : Waits(t, c, m)
    BY <2>2 DEF Waits, Blocking, On
  <2>3. CASE UNCHANGED inWait /\ \E b : b.on # "cond" /\ Blocking(t, b)
    BY <2>3 DEF Blocking
  <2>4. Ready.on # "cond"
    BY DEF Ready
  <2> QED BY <1>2, <2>1, <2>2, <2>3, <2>4 DEF QueueStep
<1> QED BY <1>1, <1>2

(* What the mapping shows of a thread.                                     *)
LEMMA OutOfWait ==
  ASSUME NEW t \in Threads,
         inWait[t] = NoCond \/ blocked[t].on \notin {"cond", "mutex"}
  PROVE  WaitOf(t) = NoWait
BY DEF WaitOf

(* A thread in a wait function, blocked on a mutex, is late.               *)
LEMMA InWaitLate ==
  ASSUME NEW t \in Threads, NEW m, blocked[t] = On("mutex", m), inWait[t] # NoCond
  PROVE  /\ WaitOf(t) = [cond |-> inWait[t], mutex |-> m,
                         timed |-> deadline[t] # "none", phase |-> "late"]
         /\ WaitOf(t) # NoWait
<1>1. WaitOf(t) = [cond |-> inWait[t], mutex |-> m,
                   timed |-> deadline[t] # "none", phase |-> "late"]
  BY DEF WaitOf, On
<1> QED BY <1>1 DEF NoWait

(* One blocked on a condition variable waits for it or is signalled.       *)
LEMMA InWaitQueued ==
  ASSUME WaitLink, NEW t \in Threads, NEW c \in Conds, blocked[t] = On("cond", c)
  PROVE  /\ WaitOf(t) =
              [cond |-> c, mutex |-> cmutex[c], timed |-> deadline[t] # "none",
               phase |-> IF InQueue(cwaking[c], t) THEN "signalled" ELSE "waiting"]
         /\ WaitOf(t) # NoWait
<1>1. inWait[t] = c /\ c # NoCond /\ blocked[t].on = "cond"
  BY EnvironmentAssumption DEF WaitLink, On
<1>2. WaitOf(t) =
        [cond |-> c, mutex |-> cmutex[c], timed |-> deadline[t] # "none",
         phase |-> IF InQueue(cwaking[c], t) THEN "signalled" ELSE "waiting"]
  BY <1>1 DEF WaitOf
<1> QED BY <1>1, <1>2 DEF NoWait

(* What a thread shows is a matter of its block, its wait function, its    *)
(* deadline, and the mutex and the waking queue of its condition variable. *)
LEMMA SameWait ==
  ASSUME NEW t \in Threads, blocked'[t] = blocked[t], inWait'[t] = inWait[t],
         deadline'[t] = "none" <=> deadline[t] = "none",
         blocked[t].on = "cond" =>
           /\ cmutex'[inWait[t]] = cmutex[inWait[t]]
           /\ InQueue(cwaking'[inWait[t]], t) <=> InQueue(cwaking[inWait[t]], t)
  PROVE  WaitOf(t)' = WaitOf(t)
<1>1. (deadline'[t] # "none") = (deadline[t] # "none")
  OBVIOUS
<1> QED BY <1>1 DEF WaitOf

(* What the locks show of a thread, if every mutex is guarded.             *)
LEMMA OthersNone ==
  ASSUME ~CrossUnlock, LockInv, NEW t \in Threads, NEW m \in Mutexes,
         owner[m] \in {Nobody, t}
  PROVE  Monitor!Others(t, m) = {}
<1>1. Guarded(m)
  BY EnvironmentAssumption DEF Guarded
<1>2. ASSUME NEW u \in Threads, u # t PROVE ~(held[u][m] > 0)
  <2>1. owner[m] # u
    BY <1>2, ObjectsAssumption
  <2>2. ~(phantom[u][m] > 0)
    BY <1>1, <2>1 DEF LockInv, PhantomsOfOwner
  <2>3. phantom[u][m] \in Nat /\ held[u][m] = phantom[u][m]
    BY <1>1, <2>1 DEF LockInv, LockAccounting, MutexTypeOK
  <2> QED BY <2>2, <2>3
<1> QED BY <1>2 DEF Monitor!Others

(* A thread unlocks only what it has been told it holds.                   *)
LEMMA UnlockHeld ==
  ASSUME ~CrossUnlock, LockInv, NEW t \in Threads, NEW m \in Mutexes,
         MayUnlock(t, m), unlock_mutex(t, m), Lose(t, m)
  PROVE  held[t][m] > 0 /\ held' = [held EXCEPT ![t][m] = @ - 1]
<1>1. Guarded(m)
  BY EnvironmentAssumption DEF Guarded
<1>2. /\ phantom[t][m] \in Nat /\ held[t][m] \in Nat /\ depth[m] \in Nat
      /\ held[t][m] = (IF owner[m] = t THEN depth[m] ELSE 0) + phantom[t][m]
  BY <1>1 DEF LockInv, LockAccounting, MutexTypeOK
<1>3. held[t][m] > 0
  <2>1. CASE phantom[t][m] > 0
    BY <1>2, <2>1
  <2>2. CASE UnlockReal(t, m) /\ owner[m] = t
    <3>1. depth[m] # 0
      BY <2>2, ObjectsAssumption DEF LockInv, OwnerCounted
    <3> QED BY <1>2, <2>2, <3>1
  <2>3. CASE UnlockReal(t, m) /\ owner[m] # t
    BY <1>1, <2>3 DEF UnlockReal, UnlockFails, MayUnlock
  <2> QED BY <2>1, <2>2, <2>3 DEF unlock_mutex, UnlockPhantom
<1> QED BY <1>3 DEF Lose

(* A lock adds one to what a thread has been told it holds.                *)
LEMMA GainHas ==
  ASSUME ~CrossUnlock, NEW t \in Threads, NEW m \in Mutexes, Gain(t, m)
  PROVE  held' = [held EXCEPT ![t][m] = @ + 1]
BY EnvironmentAssumption DEF Gain, Guarded

-----------------------------------------------------------------------------
(* Step by step.                                                           *)
MonitorInv == TypeOK /\ LockInv /\ RunsUnblocked /\ QueuesExact /\ WaitLink

(* Nothing that a thread can tell changes.                                 *)
Unseen == UNCHANGED held /\ \A t \in Threads : WaitOf(t)' = WaitOf(t)

(* An unseen step is a stuttering step of PosixMonitor.                    *)
LEMMA UnseenStutters == Unseen => UNCHANGED Monitor!vars
BY DEF Unseen, Monitor!vars

(* The waits of the threads whose block, wait function and condition       *)
(* variable a step leaves alone.                                           *)
LEMMA WaitsKept ==
  ASSUME WaitLink, UNCHANGED <<blocked, inWait, cwaking, cmutex>>,
         \A t \in Threads : deadline'[t] = "none" <=> deadline[t] = "none"
  PROVE  \A t \in Threads : WaitOf(t)' = WaitOf(t)
BY SameWait

(* A thread locks a mutex without waiting, or having waited for it alone.  *)
LEMMA LockSeen ==
  ASSUME ~CrossUnlock, MonitorInv, NEW t \in Threads, NEW m \in Mutexes,
         owner[m] \in {Nobody, t}, Gain(t, m), WaitOf(t) = NoWait,
         \A u \in Threads : WaitOf(u)' = WaitOf(u)
  PROVE  Monitor!Lock(t, m)
<1>1. Monitor!Others(t, m) = {} /\ held' = [held EXCEPT ![t][m] = @ + 1]
  BY OthersNone, GainHas DEF MonitorInv
<1> QED BY <1>1 DEF Monitor!Lock

(* A successful unlock is an Unlock of PosixMonitor.                       *)
LEMMA UnlockSeen ==
  ASSUME ~CrossUnlock, MonitorInv, NEW t \in Threads, NEW m \in Mutexes,
         MayUnlock(t, m), unlock_mutex(t, m), Lose(t, m), WaitOf(t) = NoWait,
         \A u \in Threads : WaitOf(u)' = WaitOf(u)
  PROVE  Monitor!Unlock(t, m)
<1>1. held[t][m] > 0 /\ held' = [held EXCEPT ![t][m] = @ - 1]
  BY UnlockHeld DEF MonitorInv
<1> QED BY <1>1 DEF Monitor!Unlock

(* A wait ends with the lock taken.                                        *)
LEMMA ReturnSeen ==
  ASSUME ~CrossUnlock, MonitorInv, NEW t \in Threads,
         WaitOf(t) # NoWait, WaitOf(t).mutex \in Mutexes,
         WaitOf(t).phase # "waiting" \/ WaitOf(t).timed,
         CanRelock(WaitOf(t).mutex), Gain(t, WaitOf(t).mutex),
         WaitOf(t)' = NoWait,
         \A u \in Threads \ {t} : WaitOf(u)' = WaitOf(u)
  PROVE  Monitor!Return(t)
<1> DEFINE m == WaitOf(t).mutex
<1>1. Monitor!Others(t, m) = {} /\ held' = [held EXCEPT ![t][m] = @ + 1]
  BY OthersNone, GainHas DEF MonitorInv, CanRelock
<1>2. \A u \in Threads : WaitOf(u)' = IF u = t THEN NoWait ELSE WaitOf(u)
  OBVIOUS
<1>3. [u \in Threads |-> WaitOf(u)]' =
        [[u \in Threads |-> WaitOf(u)] EXCEPT ![t] = NoWait]
  BY <1>2
<1> QED BY <1>1, <1>3 DEF Monitor!Return

(* A thread blocked on a condition variable is on one of its queues, and   *)
(* no other thread is.                                                     *)
LEMMA QueuedWaits ==
  ASSUME MonitorInv, NEW t \in Threads, NEW c \in Conds
  PROVE  /\ OnQueue(c, t) <=> blocked[t] = On("cond", c)
         /\ ~(InQueue(cwaiting[c], t) /\ InQueue(cwaking[c], t))
         /\ CanDestroyCond(c) => blocked[t] # On("cond", c)
<1>1. Queued(c)
  BY QueuesExactSplit DEF MonitorInv, TypeOK
<1>2. CanDestroyCond(c) => ~OnQueue(c, t)
  BY DEF CanDestroyCond, OnQueue, InQueue
<1> QED BY <1>1, <1>2 DEF Queued

(* What follows of another thread u than the one a step is about, if the   *)
(* step changes no more of the condition variables than u can tell.        *)
LEMMA OtherKept ==
  ASSUME MonitorInv, NEW u \in Threads, blocked'[u] = blocked[u],
         inWait'[u] = inWait[u], deadline'[u] = deadline[u],
         \A d \in Conds : blocked[u] = On("cond", d) =>
           /\ cmutex'[d] = cmutex[d]
           /\ InQueue(cwaking'[d], u) <=> InQueue(cwaking[d], u)
  PROVE  WaitOf(u)' = WaitOf(u)
<1>1. ASSUME blocked[u].on = "cond"
      PROVE  /\ inWait[u] \in Conds
             /\ blocked[u] = On("cond", inWait[u])
  BY <1>1, BlockedOn DEF MonitorInv, WaitLink, TypeOK, ThreadsTyped
<1> QED BY <1>1, SameWait

(* Guest calls of a thread that neither lock, unlock nor wait.             *)
LEMMA QuietCall ==
  ASSUME MonitorInv, NEW t \in Threads, blocked[t] = Ready,
         UNCHANGED <<held, cwaking, cmutex>>,
         \A u \in Threads \ {t} :
           /\ blocked'[u] = blocked[u] /\ inWait'[u] = inWait[u]
           /\ deadline'[u] = deadline[u],
         blocked'[t].on \notin {"cond", "mutex"} \/ inWait'[t] = NoCond
  PROVE  Unseen
<1>1. WaitOf(t) = NoWait
  BY OutOfWait DEF Ready
<1>2. WaitOf(t)' = NoWait
  BY DEF WaitOf
<1>3. \A u \in Threads \ {t} : WaitOf(u)' = WaitOf(u)
  BY OtherKept
<1> QED BY <1>1, <1>2, <1>3 DEF Unseen

(* A condition variable that nobody waits for is initialised or destroyed. *)
LEMMA QuietCond ==
  ASSUME MonitorInv, NEW c \in Conds, CanDestroyCond(c),
         UNCHANGED <<held, blocked, inWait, deadline>>,
         \A d \in Conds \ {c} : cmutex'[d] = cmutex[d] /\ cwaking'[d] = cwaking[d]
  PROVE  Unseen
<1> SUFFICES ASSUME NEW u \in Threads PROVE WaitOf(u)' = WaitOf(u)
  BY DEF Unseen
<1>1. blocked[u] # On("cond", c)
  BY QueuedWaits
<1> QED BY <1>1, OtherKept

(* pthread_cond_wait and pthread_cond_timedwait.                           *)
LEMMA WaitSeen ==
  ASSUME ~CrossUnlock, MonitorInv, NEW t \in Threads, NEW c \in Conds,
         NEW m \in Mutexes, NEW limit, Running(t), CondWait(t, c, m, limit)
  PROVE  Monitor!Wait(t, c, m, limit # "none")
<1>1. held[t][m] > 0 /\ held' = [held EXCEPT ![t][m] = @ - 1]
  BY UnlockHeld DEF MonitorInv, CondWait
<1>2. /\ blocked[t] = Ready /\ blocked'[t] = On("cond", c) /\ inWait'[t] = c
      /\ deadline'[t] = limit /\ cmutex'[c] = m /\ UNCHANGED cwaking
      /\ \A u \in Threads \ {t} :
           /\ blocked'[u] = blocked[u] /\ inWait'[u] = inWait[u]
           /\ deadline'[u] = deadline[u]
      /\ \A d \in Conds \ {c} : cmutex'[d] = cmutex[d]
  BY DEF MonitorInv, Running, RunsUnblocked, TypeOK, ThreadTypeOK, CondTypeOK,
     CondWait, Yield, cond_enqueue
<1>3. WaitOf(t) = NoWait
  BY <1>2, OutOfWait DEF Ready
<1>4. ~InQueue(cwaking'[c], t)
  BY <1>2, QueuedWaits DEF OnQueue, Ready, On
<1>5. WaitOf(t)' = [cond |-> c, mutex |-> m, timed |-> limit # "none",
                    phase |-> "waiting"]
  BY <1>2, <1>4, EnvironmentAssumption DEF WaitOf, On
<1>6. ASSUME NEW u \in Threads \ {t} PROVE WaitOf(u)' = WaitOf(u)
  <2>1. ASSUME blocked[u] = On("cond", c) PROVE cmutex[c] = m
    <3>1. ~CanDestroyCond(c)
      BY <2>1, QueuedWaits
    <3> QED BY <3>1 DEF CondWait, MutexAgrees, CanDestroyCond
  <2> QED BY <1>2, <2>1, OtherKept
<1>7. \A u \in Threads :
        WaitOf(u)' = IF u = t THEN [cond |-> c, mutex |-> m,
                                    timed |-> limit # "none",
                                    phase |-> "waiting"]
                     ELSE WaitOf(u)
  BY <1>5, <1>6
<1>8. [u \in Threads |-> WaitOf(u)]' =
        [[u \in Threads |-> WaitOf(u)] EXCEPT
           ![t] = [cond |-> c, mutex |-> m, timed |-> limit # "none",
                   phase |-> "waiting"]]
  BY <1>7
<1> QED BY <1>1, <1>3, <1>8 DEF Monitor!Wait

(* Threads move from the queue of the waiting to that of the waking.       *)
LEMMA MarkedSeen ==
  ASSUME MonitorInv, NEW c \in Conds, NEW S \in SUBSET Threads,
         UNCHANGED <<blocked, inWait, deadline, cmutex>>,
         \A d \in Conds \ {c} : cwaking'[d] = cwaking[d],
         \A u \in S : InQueue(cwaiting[c], u),
         \A u \in Threads :
           InQueue(cwaking'[c], u) <=> InQueue(cwaking[c], u) \/ u \in S
  PROVE  /\ [u \in Threads |-> WaitOf(u)]' = Monitor!Signalled(S)
         /\ S \subseteq Monitor!Waiting(c)
<1>1. ASSUME NEW u \in S
      PROVE  /\ WaitOf(u) # NoWait /\ WaitOf(u).cond = c
             /\ WaitOf(u).phase = "waiting"
             /\ WaitOf(u)' = [WaitOf(u) EXCEPT !.phase = "signalled"]
  <2>1. u \in Threads /\ InQueue(cwaiting[c], u)
    OBVIOUS
  <2>2. blocked[u] = On("cond", c) /\ ~InQueue(cwaking[c], u)
    BY <2>1, QueuedWaits DEF OnQueue
  <2>3. /\ WaitOf(u) = [cond |-> c, mutex |-> cmutex[c],
                        timed |-> deadline[u] # "none", phase |-> "waiting"]
        /\ WaitOf(u) # NoWait
    BY <2>1, <2>2, InWaitQueued DEF MonitorInv
  <2>4. inWait[u] = c /\ c # NoCond
    BY <2>1, <2>2, EnvironmentAssumption DEF MonitorInv, WaitLink, On
  <2>5. InQueue(cwaking'[c], u)
    BY <2>1
  <2>6. WaitOf(u)' = [cond |-> c, mutex |-> cmutex[c],
                      timed |-> deadline[u] # "none", phase |-> "signalled"]
    BY <2>2, <2>4, <2>5 DEF WaitOf, On
  <2> QED BY <2>3, <2>6
<1>2. ASSUME NEW u \in Threads \ S PROVE WaitOf(u)' = WaitOf(u)
  BY OtherKept
<1>3. \A u \in Threads :
        WaitOf(u)' = IF u \in S THEN [WaitOf(u) EXCEPT !.phase = "signalled"]
                     ELSE WaitOf(u)
  BY <1>1, <1>2
<1> QED BY <1>1, <1>3 DEF Monitor!Signalled, Monitor!Waiting

(* pthread_cond_signal is a Signal of PosixMonitor for the longest waiting *)
(* thread, or unseen if there is none.                                     *)
LEMMA SignalSeen ==
  ASSUME MonitorInv, NEW c \in Conds, cond_signal(c),
         UNCHANGED <<held, blocked, inWait, deadline>>
  PROVE  Unseen \/ Monitor!Signal(c)
<1>1. CASE cwaiting[c] = << >>
  <2>1. UNCHANGED <<cwaking, cmutex>>
    BY <1>1 DEF cond_signal
  <2> QED BY <2>1, WaitsKept DEF MonitorInv, Unseen
<1>2. CASE cwaiting[c] # << >>
  <2> DEFINE h == Head(cwaiting[c])
  <2>1. cwaiting[c] \in Seq(Threads) /\ cwaking[c] \in Seq(Threads)
    BY DEF MonitorInv, TypeOK, CondTypeOK
  <2>2. h = cwaiting[c][1] /\ 1 \in 1..Len(cwaiting[c]) /\ h \in Threads
    BY <1>2, <2>1, HeadTailProperties, EmptySeq
  <2>3. InQueue(cwaiting[c], h)
    BY <2>2 DEF InQueue
  <2>4. /\ cwaking'[c] = Append(cwaking[c], h) /\ UNCHANGED cmutex
        /\ \A d \in Conds \ {c} : cwaking'[d] = cwaking[d]
    BY <1>2 DEF cond_signal, MonitorInv, TypeOK, CondTypeOK
  <2>5. \A u \in Threads :
          InQueue(cwaking'[c], u) <=> InQueue(cwaking[c], u) \/ u \in {h}
    BY <2>1, <2>2, <2>4, OnAppended
  <2> HIDE DEF h
  <2>6. /\ [u \in Threads |-> WaitOf(u)]' = Monitor!Signalled({h})
        /\ {h} \subseteq Monitor!Waiting(c)
    BY <2>2, <2>3, <2>4, <2>5, MarkedSeen
  <2> QED BY <2>6 DEF Monitor!Signal
<1> QED BY <1>1, <1>2

(* pthread_cond_broadcast is a Broadcast of PosixMonitor.                  *)
LEMMA BroadcastSeen ==
  ASSUME MonitorInv, NEW c \in Conds, cond_broadcast(c),
         UNCHANGED <<held, blocked, inWait, deadline>>
  PROVE  Monitor!Broadcast(c)
<1> DEFINE S == {u \in Threads : InQueue(cwaiting[c], u)}
<1>1. cwaiting[c] \in Seq(Threads) /\ cwaking[c] \in Seq(Threads)
  BY DEF MonitorInv, TypeOK, CondTypeOK
<1>2. /\ cwaking'[c] = cwaking[c] \o cwaiting[c] /\ UNCHANGED cmutex
      /\ \A d \in Conds \ {c} : cwaking'[d] = cwaking[d]
  BY DEF cond_broadcast, MonitorInv, TypeOK, CondTypeOK
<1>3. \A u \in Threads :
        InQueue(cwaking'[c], u) <=> InQueue(cwaking[c], u) \/ u \in S
  BY <1>1, <1>2, OnBoth
<1>4. /\ [u \in Threads |-> WaitOf(u)]' = Monitor!Signalled(S)
      /\ S \subseteq Monitor!Waiting(c)
  BY <1>2, <1>3, MarkedSeen
<1>5. Monitor!Waiting(c) \subseteq S
  <2> SUFFICES ASSUME NEW u \in Threads, WaitOf(u) # NoWait,
                      WaitOf(u).cond = c, WaitOf(u).phase = "waiting"
               PROVE  InQueue(cwaiting[c], u)
    BY DEF Monitor!Waiting
  <2>1. inWait[u] = c /\ blocked[u].on = "cond" /\ ~InQueue(cwaking[c], u)
    BY DEF WaitOf
  <2>2. blocked[u] = On("cond", c)
    BY <2>1, BlockedOn DEF MonitorInv, WaitLink, TypeOK, ThreadsTyped
  <2> QED BY <2>1, <2>2, QueuedWaits DEF OnQueue
<1> HIDE DEF S
<1>6. Monitor!Waiting(c) = S
  BY <1>4, <1>5
<1> QED BY <1>4, <1>6 DEF Monitor!Broadcast

(* The scheduler wakes a thread that is in a wait, with its mutex.         *)
LEMMA WakeSeen ==
  ASSUME ~CrossUnlock, MonitorInv, NEW u \in Threads, NEW c \in Conds,
         blocked[u] = On("cond", c), CanRelock(cmutex[c]), Gain(u, cmutex[c]),
         Blocking(u, Ready), UNCHANGED <<inWait, deadline, cmutex>>,
         InQueue(cwaking[c], u) \/ deadline[u] # "none",
         \A v \in Threads \ {u}, d \in Conds :
           InQueue(cwaking'[d], v) <=> InQueue(cwaking[d], v)
  PROVE  Monitor!Return(u)
<1>1. /\ WaitOf(u) = [cond |-> c, mutex |-> cmutex[c],
                      timed |-> deadline[u] # "none",
                      phase |-> IF InQueue(cwaking[c], u) THEN "signalled"
                                ELSE "waiting"]
      /\ WaitOf(u) # NoWait
  BY InWaitQueued DEF MonitorInv
<1>2. cmutex[c] \in Mutexes
  BY DEF CanRelock, MonitorInv, TypeOK, MutexTypeOK
<1>3. /\ blocked'[u] = Ready
      /\ \A v \in Threads \ {u} : blocked'[v] = blocked[v]
  BY DEF Blocking, MonitorInv, TypeOK, ThreadTypeOK
<1>4. WaitOf(u)' = NoWait
  BY <1>3 DEF WaitOf, Ready
<1>5. \A v \in Threads \ {u} : WaitOf(v)' = WaitOf(v)
  BY <1>3, OtherKept
<1>6. WaitOf(u).mutex = cmutex[c]
  BY <1>1
<1>7. InQueue(cwaking[c], u) => WaitOf(u).phase = "signalled"
  BY <1>1
<1>8. deadline[u] # "none" => WaitOf(u).timed = TRUE
  <2>1. WaitOf(u).timed = (deadline[u] # "none")
    BY <1>1
  <2> QED BY <2>1
<1> QED BY <1>1, <1>2, <1>4, <1>5, <1>6, <1>7, <1>8, ReturnSeen

(* The scheduler wakes a thread blocked on a mutex, in a wait or not.      *)
LEMMA WakeOnMutexSeen ==
  ASSUME ~CrossUnlock, MonitorInv, NEW u \in Threads, NEW m \in Mutexes,
         blocked[u] = On("mutex", m), CanRelock(m), Gain(u, m),
         Blocking(u, Ready), UNCHANGED <<inWait, deadline, cmutex, cwaking>>
  PROVE  Monitor!Lock(u, m) \/ Monitor!Return(u)
<1>1. /\ blocked'[u] = Ready
      /\ \A v \in Threads \ {u} : blocked'[v] = blocked[v]
  BY DEF Blocking, MonitorInv, TypeOK, ThreadTypeOK
<1>2. WaitOf(u)' = NoWait
  BY <1>1 DEF WaitOf, Ready
<1>3. \A v \in Threads \ {u} : WaitOf(v)' = WaitOf(v)
  BY <1>1, OtherKept
<1>4. CASE inWait[u] = NoCond
  <2>1. WaitOf(u) = NoWait
    BY <1>4, OutOfWait
  <2> QED BY <1>2, <1>3, <2>1, LockSeen DEF CanRelock
<1>5. CASE inWait[u] # NoCond
  <2>1. /\ WaitOf(u) = [cond |-> inWait[u], mutex |-> m,
                        timed |-> deadline[u] # "none", phase |-> "late"]
        /\ WaitOf(u) # NoWait
    BY <1>5, InWaitLate
  <2>2. WaitOf(u).mutex = m /\ WaitOf(u).phase # "waiting"
    BY <2>1
  <2> QED BY <1>2, <1>3, <2>1, <2>2, ReturnSeen
<1> QED BY <1>4, <1>5

(* A wait whose deadline is over goes on as a wait for its mutex.          *)
LEMMA TimeOutSeen ==
  ASSUME MonitorInv, NEW u \in Threads, NEW c \in Conds,
         blocked[u] = On("cond", c), deadline[u] = "over",
         Blocking(u, On("mutex", cmutex[c])),
         UNCHANGED <<held, inWait, deadline, cmutex>>,
         \A v \in Threads \ {u}, d \in Conds :
           InQueue(cwaking'[d], v) <=> InQueue(cwaking[d], v)
  PROVE  Monitor!TimeOut(u)
<1>1. PICK phase :
        WaitOf(u) = [cond |-> c, mutex |-> cmutex[c],
                     timed |-> deadline[u] # "none", phase |-> phase]
  BY InWaitQueued DEF MonitorInv
<1>2. inWait[u] = c /\ c # NoCond
  BY EnvironmentAssumption DEF MonitorInv, WaitLink, On
<1>3. /\ blocked'[u] = On("mutex", cmutex[c])
      /\ \A v \in Threads \ {u} : blocked'[v] = blocked[v]
  BY DEF Blocking, MonitorInv, TypeOK, ThreadTypeOK
<1>4. WaitOf(u)' = [cond |-> c, mutex |-> cmutex[c],
                    timed |-> deadline[u] # "none", phase |-> "late"]
  BY <1>2, <1>3 DEF WaitOf, On
<1>5. WaitOf(u)' = [WaitOf(u) EXCEPT !.phase = "late"]
  BY <1>1, <1>4
<1>6. \A v \in Threads \ {u} : WaitOf(v)' = WaitOf(v)
  BY <1>3, OtherKept
<1>7. \A v \in Threads :
        WaitOf(v)' = IF v = u THEN [WaitOf(u) EXCEPT !.phase = "late"]
                     ELSE WaitOf(v)
  BY <1>5, <1>6
<1>8. [v \in Threads |-> WaitOf(v)]' =
        [[v \in Threads |-> WaitOf(v)] EXCEPT ![u].phase = "late"]
  BY <1>7
<1>9. WaitOf(u).timed = TRUE
  <2>1. WaitOf(u).timed = (deadline[u] # "none")
    BY <1>1
  <2> QED BY <2>1
<1>10. WaitOf(u) # NoWait
  BY InWaitQueued DEF MonitorInv
<1> QED BY <1>8, <1>9, <1>10 DEF Monitor!TimeOut

-----------------------------------------------------------------------------
(* Every step of the system is a step of PosixMonitor, or unseen.          *)
Seen == Unseen \/ Monitor!Next

(* The guest calls: each is one step of PosixMonitor or unseen.            *)
LEMMA GuestSeen ==
  ASSUME ~CrossUnlock, MonitorInv, Guest, InitsIdle
  PROVE  Seen
<1> USE DEF Seen
<1>1. PICK t \in Threads :
        \/ \E m \in Mutexes : MutexCalls(t, m)
        \/ \E c \in Conds, m \in Mutexes : WaitCalls(t, c, m)
        \/ \E c \in Conds : CondCalls(t, c)
        \/ \E s \in Sems : SemCalls(t, s)
        \/ ThreadCalls(t)
        \/ \E u \in Threads : ThreadPairCalls(t, u)
  BY DEF Guest
<1>2. ASSUME Running(t)
      PROVE  /\ blocked[t] = Ready /\ inWait[t] = NoCond /\ WaitOf(t) = NoWait
  BY <1>2, OutOfWait DEF Running, MonitorInv, RunsUnblocked
<1>3. ASSUME UNCHANGED <<condVars, blocked, inWait, deadline>>
      PROVE  \A u \in Threads : WaitOf(u)' = WaitOf(u)
  BY <1>3, WaitsKept DEF condVars, MonitorInv
<1>4. ASSUME UNCHANGED <<condVars, blocked, inWait, deadline, held>>
      PROVE  Unseen
  BY <1>3, <1>4 DEF Unseen
(* The caller yields, in no wait for a condition variable.                 *)
<1>5. ASSUME NEW b, Running(t), Yield(t, b), b.on # "cond",
             UNCHANGED <<condVars, inWait, held>>,
             \A u \in Threads \ {t} : deadline'[u] = deadline[u]
      PROVE  Unseen
  <2>1. /\ blocked'[t] = b
        /\ \A u \in Threads \ {t} : blocked'[u] = blocked[u]
    BY <1>5 DEF Yield, MonitorInv, TypeOK, ThreadTypeOK
  <2> QED BY <1>2, <1>5, <2>1, QuietCall DEF condVars
<1>6. ASSUME NEW m \in Mutexes, MutexCalls(t, m) PROVE Seen
  <2>1. CASE pthread_mutex_init(t, m) \/ pthread_mutex_destroy(t, m)
    BY <1>4, <2>1 DEF pthread_mutex_init, pthread_mutex_destroy, threadVars
  <2>2. CASE pthread_mutex_lock(t, m) \/ pthread_mutex_trylock(t, m)
    <3>1. /\ Running(t) /\ Gain(t, m) /\ owner[m] \in {Nobody, t}
          /\ UNCHANGED <<condVars, blocked, inWait, deadline>>
      BY <2>2 DEF pthread_mutex_lock, pthread_mutex_trylock, Call, LockFree,
         LockRecursive, LockPhantom, threadVars
    <3>2. Monitor!Lock(t, m)
      BY <1>2, <1>3, <3>1, LockSeen
    <3> QED BY <3>2 DEF Monitor!Next
  <2>3. CASE pthread_mutex_lock_blocks(t, m)
    BY <1>5, <2>3 DEF pthread_mutex_lock_blocks, Call, On
  <2>4. CASE pthread_mutex_unlock(t, m)
    <3>1. /\ Running(t) /\ MayUnlock(t, m)
          /\ UNCHANGED <<condVars, blocked, inWait, deadline>>
      BY <2>4 DEF pthread_mutex_unlock, Call, threadVars
    <3>2. CASE UNCHANGED held
      BY <1>4, <3>1, <3>2
    <3>3. CASE unlock_mutex(t, m) /\ Lose(t, m)
      <4>1. Monitor!Unlock(t, m)
        BY <1>2, <1>3, <3>1, <3>3, UnlockSeen
      <4> QED BY <4>1 DEF Monitor!Next
    <3> QED BY <2>4, <3>2, <3>3 DEF pthread_mutex_unlock
  <2> QED BY <1>6, <2>1, <2>2, <2>3, <2>4 DEF MutexCalls
<1>7. ASSUME NEW c \in Conds, NEW m \in Mutexes, WaitCalls(t, c, m)
      PROVE  Seen
  <2>1. ASSUME NEW limit, Running(t), CondWait(t, c, m, limit) PROVE Seen
    <3>1. Monitor!Wait(t, c, m, limit # "none") /\ (limit # "none") \in BOOLEAN
      BY <2>1, WaitSeen
    <3> QED BY <3>1 DEF Monitor!Next
  <2>2. CASE pthread_cond_wait(t, c, m) \/ pthread_cond_timedwait(t, c, m)
    BY <2>1, <2>2 DEF pthread_cond_wait, pthread_cond_timedwait, Call
  <2>3. CASE WaitRefused(t, c, m)
    BY <1>2, <2>3, QuietCall DEF WaitRefused, threadVars
  <2>4. CASE WaitPanics(t, c, m)
    BY <1>4, <2>4 DEF WaitPanics, Panic, threadVars
  <2> QED BY <1>7, <2>2, <2>3, <2>4 DEF WaitCalls
<1>8. ASSUME NEW c \in Conds, CondCalls(t, c) PROVE Seen
  <2>1. CASE pthread_cond_init(t, c)
    <3>1. CanDestroyCond(c)
      BY <2>1 DEF InitsIdle
    <3> QED
      BY <2>1, <3>1, QuietCond DEF pthread_cond_init, cond_init, threadVars,
         MonitorInv, TypeOK, CondTypeOK
  <2>2. CASE pthread_cond_signal(t, c)
    <3>1. Unseen \/ Monitor!Signal(c)
      BY <2>2, SignalSeen DEF pthread_cond_signal, threadVars
    <3> QED BY <3>1 DEF Monitor!Next
  <2>3. CASE pthread_cond_broadcast(t, c)
    <3>1. Monitor!Broadcast(c)
      BY <2>3, BroadcastSeen DEF pthread_cond_broadcast, threadVars
    <3> QED BY <3>1 DEF Monitor!Next
  <2>4. CASE SignalPanics(t, c) \/ CondDestroyPanics(t, c)
    BY <1>4, <2>4 DEF SignalPanics, CondDestroyPanics, Panic, threadVars
  <2>5. CASE pthread_cond_destroy(t, c)
    BY <2>5, QuietCond DEF pthread_cond_destroy, cond_destroy, threadVars,
       MonitorInv, TypeOK, CondTypeOK
  <2> QED BY <1>8, <2>1, <2>2, <2>3, <2>4, <2>5 DEF CondCalls
<1>9. ASSUME NEW s \in Sems, SemCalls(t, s) PROVE Seen
  <2>1. CASE sem_wait_blocks(t, s)
    BY <1>5, <2>1 DEF sem_wait_blocks, Call, On
  <2>2. CASE ~sem_wait_blocks(t, s)
    BY <1>4, <1>9, <2>2 DEF SemCalls, sem_init, sem_destroy, sem_post,
       sem_wait, threadVars
  <2> QED BY <2>1, <2>2
<1>10. ASSUME ThreadCalls(t) PROVE Seen
  <2>1. CASE sleep(t)
    BY <1>5, <2>1 DEF sleep, Call, Asleep, MonitorInv, TypeOK, ThreadTypeOK
  <2>2. CASE Resume(t)
    <3>1. blocked[t] = Ready
      BY <2>2 DEF Resume, MonitorInv, RunsUnblocked
    <3>2. /\ UNCHANGED <<held, blocked, cwaking, cmutex>> /\ inWait'[t] = NoCond
          /\ \A u \in Threads \ {t} :
               inWait'[u] = inWait[u] /\ deadline'[u] = deadline[u]
      BY <2>2 DEF Resume, MonitorInv, TypeOK, ThreadTypeOK
    <3> QED BY <3>1, <3>2, QuietCall
  <2>3. CASE ~sleep(t) /\ ~Resume(t)
    BY <1>4, <1>10, <2>3 DEF ThreadCalls, ResumePanics, Panic, pthread_create,
       pthread_create_suspended_np, NewThread, FinishThread, threadVars
  <2> QED BY <2>1, <2>2, <2>3
<1>11. ASSUME NEW u \in Threads, ThreadPairCalls(t, u) PROVE Seen
  <2>1. CASE pthread_join(t, u)
    BY <1>5, <2>1 DEF pthread_join, Call, On
  <2>2. CASE ~pthread_join(t, u)
    BY <1>4, <1>11, <2>2 DEF ThreadPairCalls, pthread_detach, suspend_thread,
       resume_thread
  <2> QED BY <2>1, <2>2
<1> QED BY <1>1, <1>6, <1>7, <1>8, <1>9, <1>10, <1>11

(* The steps of the scheduler: a thread that is woken with a mutex locks   *)
(* it or returns from its wait, a timeout is seen, the rest is not.        *)
LEMMA SchedulerSeen ==
  ASSUME ~CrossUnlock, MonitorInv, Scheduler
  PROVE  Seen
<1> USE DEF Seen
<1>1. ASSUME UNCHANGED <<condVars, blocked, inWait, held>>,
             \A t \in Threads : deadline'[t] = "none" <=> deadline[t] = "none"
      PROVE  Unseen
  BY <1>1, WaitsKept DEF condVars, MonitorInv, Unseen
<1>2. ASSUME NEW u \in Threads, ScanThread(u) PROVE Seen
  <2>1. CASE ScanMutex(u)
    <3> DEFINE m == blocked[u].obj
    <3>1. blocked[u] = On("mutex", m) /\ m \in Mutexes
      BY <2>1, BlockedOn DEF ScanMutex, Looking, MonitorInv, TypeOK, ThreadsTyped
    <3>2. CASE /\ WakeWithMutex(u, m)
               /\ UNCHANGED <<condVars, deadline, inWait>>
      <4>1. Monitor!Lock(u, m) \/ Monitor!Return(u)
        BY <3>1, <3>2, WakeOnMutexSeen DEF WakeWithMutex, Wake, Blocking,
           condVars
      <4> QED BY <3>1, <4>1 DEF Monitor!Next
    <3>3. CASE Panic("mutex missing") \/ PassOver(FALSE)
      BY <1>1, <3>3 DEF Panic, PassOver, threadVars
    <3> QED BY <2>1, <3>2, <3>3 DEF ScanMutex
  <2>2. CASE ScanReady(u) \/ ScanSleeping(u) \/ ScanSemaphore(u) \/ ScanJoining(u)
    <3>1. CASE Wake(u)
      <4>1. blocked[u].on \notin {"cond", "mutex"}
        BY <2>2 DEF ScanReady, ScanSleeping, ScanSemaphore, ScanJoining, Looking
      <4>2. /\ UNCHANGED <<condVars, inWait, held>>
            /\ \A v \in Threads \ {u} :
                 blocked'[v] = blocked[v] /\ deadline'[v] = deadline[v]
        BY <2>2, <3>1 DEF ScanReady, ScanSleeping, ScanSemaphore, ScanJoining,
           Wake, PassOver, threadVars, MonitorInv, TypeOK, ThreadTypeOK
      <4>3. blocked'[u] = Ready
        BY <3>1 DEF Wake, MonitorInv, TypeOK, ThreadTypeOK
      <4>4. WaitOf(u) = NoWait /\ WaitOf(u)' = NoWait
        BY <4>1, <4>3 DEF WaitOf, Ready
      <4>5. \A v \in Threads \ {u} : WaitOf(v)' = WaitOf(v)
        BY <4>2, OtherKept DEF condVars
      <4> QED BY <4>2, <4>4, <4>5 DEF Unseen
    <3>2. CASE ~Wake(u)
      BY <1>1, <2>2, <3>2 DEF ScanReady, ScanSleeping, ScanSemaphore,
         ScanJoining, PassOver, threadVars
    <3> QED BY <3>1, <3>2
  <2>3. CASE ScanIdle(u)
    BY <1>1, <2>3 DEF ScanIdle, PassOver, threadVars
  <2> QED BY <1>2, <2>1, <2>2, <2>3 DEF ScanThread
<1>3. ASSUME NEW u \in Threads, NEW c \in Conds, ScanWaiter(u, c) PROVE Seen
  <2>1. ASSUME WaitingFor(u, c)
        PROVE  /\ blocked[u] = On("cond", c)
               /\ cwaiting[c] \in Seq(Threads) /\ cwaking[c] \in Seq(Threads)
    BY <2>1, BlockedOn DEF WaitingFor, Looking, MonitorInv, TypeOK,
       ThreadsTyped, CondTypeOK
  <2>2. CASE ScanCondSignalled(u, c)
    <3>1. /\ blocked[u] = On("cond", c) /\ cwaking[c] \in Seq(Threads)
          /\ cwaking[c] # << >> /\ u = Head(cwaking[c])
      BY <2>1, <2>2 DEF ScanCondSignalled, Signalled, NextToWake
    <3>2. InQueue(cwaking[c], u)
      <4>1. Head(cwaking[c]) = cwaking[c][1] /\ 1 \in 1..Len(cwaking[c])
        BY <3>1, EmptySeq
      <4> QED BY <3>1, <4>1 DEF InQueue
    <3>3. ASSUME NEW v \in Threads \ {u}, NEW d \in Conds
          PROVE  InQueue(cwaking'[d], v) <=> InQueue(cwaking[d], v)
      <4>1. Once(cwaking[c])
        BY QueuesExactSplit DEF Queued, MonitorInv, TypeOK
      <4>2. cwaking'[d] = IF d = c THEN Tail(cwaking[d]) ELSE cwaking[d]
        BY <2>2 DEF ScanCondSignalled, cond_wake, MonitorInv, TypeOK, CondTypeOK
      <4> QED BY <3>1, <4>1, <4>2, OnTail
    <3>4. Monitor!Return(u)
      BY <2>2, <3>1, <3>2, <3>3, WakeSeen DEF ScanCondSignalled, cond_wake,
         WakeWithMutex, Wake, Blocking
    <3> QED BY <3>4 DEF Monitor!Next
  <2>3. ASSUME TimesOut(u, c), NEW v \in Threads \ {u}, NEW d \in Conds
        PROVE  InQueue(cwaking'[d], v) <=> InQueue(cwaking[d], v)
    <3>1. cwaking[c] \in Seq(Threads) /\ Once(cwaking[c])
      BY <2>1, <2>3, QueuesExactSplit DEF TimesOut, Queued, MonitorInv, TypeOK
    <3>2. cwaking'[d] = IF d = c THEN Without(cwaking[d], u) ELSE cwaking[d]
      BY <2>3 DEF TimesOut, cond_time_out, MonitorInv, TypeOK, CondTypeOK
    <3> QED BY <3>1, <3>2, OnWithout
  <2>4. CASE ScanCondTimesOut(u, c)
    <3>1. Monitor!Return(u)
      BY <2>1, <2>3, <2>4, WakeSeen DEF ScanCondTimesOut, TimesOut,
         cond_time_out, WakeWithMutex, Wake, Blocking
    <3> QED BY <3>1 DEF Monitor!Next
  <2>5. CASE ScanCondTimesOutLocked(u, c)
    <3>1. Monitor!TimeOut(u)
      BY <2>1, <2>3, <2>5, TimeOutSeen DEF ScanCondTimesOutLocked, TimesOut,
         cond_time_out, Blocking
    <3> QED BY <3>1 DEF Monitor!Next
  <2>6. CASE ScanCondPanics(u, c) \/ ScanCondStays(u, c)
    BY <1>1, <2>6 DEF ScanCondPanics, ScanCondStays, PassOver, Panic, threadVars
  <2> QED BY <1>3, <2>2, <2>4, <2>5, <2>6 DEF ScanWaiter
<1>4. CASE SleepTillAwakening \/ GracePeriod \/ DeclareDeadlock
  BY <1>1, <1>4 DEF SleepTillAwakening, GracePeriod, DeclareDeadlock, Panic,
     threadVars
<1> QED BY <1>2, <1>3, <1>4 DEF Scheduler

(* Every step of the system maps to a step or a stutter.                   *)
LEMMA NextSeen ==
  ASSUME ~CrossUnlock, MonitorInv, [Next /\ InitsIdle]_vars
  PROVE  [Monitor!Next]_(Monitor!vars)
<1>1. CASE Preempt \/ (\E t \in Threads : Tick(t)) \/ UNCHANGED vars
  <2>1. /\ UNCHANGED <<blocked, inWait, cwaking, cmutex, held>>
        /\ \A t \in Threads : deadline'[t] = "none" <=> deadline[t] = "none"
    BY <1>1 DEF Preempt, Tick, vars, threadVars, condVars, MonitorInv, TypeOK,
       ThreadTypeOK
  <2>2. Unseen
    BY <2>1, WaitsKept DEF Unseen, MonitorInv
  <2> QED BY <2>2, UnseenStutters
<1>2. CASE Next /\ InitsIdle /\ Guest
  BY <1>2, GuestSeen, UnseenStutters DEF Seen
<1>3. CASE Scheduler
  BY <1>3, SchedulerSeen, UnseenStutters DEF Seen
<1> QED BY <1>1, <1>2, <1>3 DEF Next

(* The initial states map to initial states.                               *)
LEMMA InitSeen == Init => Monitor!Init
<1> SUFFICES ASSUME Init PROVE Monitor!Init
  OBVIOUS
<1>1. \A t \in Threads : WaitOf(t) = NoWait
  BY DEF Init, WaitOf
<1> QED BY <1>1 DEF Init, Monitor!Init

(* A thread stays linked to the condition variable it waits for.           *)
LEMMA WaitsLinked == Spec /\ [][InitsIdle]_vars => []WaitLink
<1>1. Init => WaitLink
  BY DEF Init, Ready, WaitLink
<1>2. TypeOK /\ RunsUnblocked /\ WaitLink /\ [Next]_vars /\ [InitsIdle]_vars
        => WaitLink'
  BY NextQueueStep, WaitLinkStep
<1> QED BY <1>1, <1>2, TypeCorrect, RunnersUnblocked, PTL DEF Spec

(* The scheduler with its mutexes and condition variables implements       *)
(* PosixMonitor, for every number of threads and objects, in every program *)
(* that unlocks NORMAL mutexes only if it has locked them and initialises  *)
(* a condition variable only while no thread waits for it.                 *)
THEOREM MonitorImplemented ==
  ASSUME ~CrossUnlock
  PROVE  Spec /\ [][InitsIdle]_vars => ImplementsMonitor
<1>1. TypeOK /\ LockInv /\ RunsUnblocked /\ QueuesExact /\ WaitLink
        /\ [Next]_vars /\ [InitsIdle]_vars => [Monitor!Next]_(Monitor!vars)
  BY NextSeen DEF MonitorInv
<1> QED
  BY <1>1, InitSeen, TypeCorrect, LockInvHolds, RunnersUnblocked, QueuesHold,
     WaitsLinked, PTL DEF Spec, ImplementsMonitor, Monitor!Spec
=============================================================================
