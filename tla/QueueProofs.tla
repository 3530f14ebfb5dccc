----------------------------- MODULE QueueProofs -----------------------------
(***************************************************************************)
(* Theorems about what Environment keeps of the threads that wait: the     *)
(* queues of the condition variables, the sets of the semaphores and the   *)
(* waiting counts of the mutexes, for every number of threads and objects. *)
(***************************************************************************)
EXTENDS SchedulerProofs, FiniteSetTheorems

-----------------------------------------------------------------------------
(* Lemmas about queues: which threads are on a queue after an operation,   *)
(* and that no thread is on it twice.                                      *)
Once(q) == \A i, j \in 1..Len(q) : q[i] = q[j] => i = j

(* VecDeque::push_back. *)
LEMMA OnAppended ==
  ASSUME NEW q \in Seq(Threads), NEW e \in Threads
  PROVE  /\ \A t : InQueue(Append(q, e), t) <=> InQueue(q, t) \/ t = e
         /\ Once(q) /\ ~InQueue(q, e) => Once(Append(q, e))
<1>1. /\ Len(q) \in Nat /\ Len(Append(q, e)) = Len(q) + 1
      /\ \A i \in 1..Len(q) : Append(q, e)[i] = q[i]
      /\ Append(q, e)[Len(q) + 1] = e
  BY AppendProperties, LenProperties
<1>2. 1..(Len(q) + 1) = 1..Len(q) \cup {Len(q) + 1}
  BY <1>1
<1> QED BY <1>1, <1>2 DEF InQueue, Once

(* VecDeque::pop_front. *)
LEMMA OnTail ==
  ASSUME NEW q \in Seq(Threads), q # << >>, Once(q)
  PROVE  /\ \A t : InQueue(Tail(q), t) <=> InQueue(q, t) /\ t # Head(q)
         /\ Once(Tail(q))
<1>1. /\ Len(q) \in Nat \ {0} /\ Len(Tail(q)) = Len(q) - 1 /\ Head(q) = q[1]
      /\ \A i \in 1..Len(Tail(q)) : Tail(q)[i] = q[i + 1]
  BY HeadTailProperties, EmptySeq
<1>2. ASSUME NEW t, InQueue(Tail(q), t) PROVE InQueue(q, t) /\ t # Head(q)
  <2>1. PICK i \in 1..Len(Tail(q)) : Tail(q)[i] = t
    BY <1>2 DEF InQueue
  <2>2. i + 1 \in 1..Len(q) /\ 1 \in 1..Len(q) /\ q[i + 1] = t /\ i + 1 # 1
    BY <1>1, <2>1
  <2> QED BY <1>1, <2>2 DEF InQueue, Once
<1>3. ASSUME NEW t, InQueue(q, t), t # Head(q) PROVE InQueue(Tail(q), t)
  <2>1. PICK i \in 1..Len(q) : q[i] = t
    BY <1>3 DEF InQueue
  <2>2. i - 1 \in 1..Len(Tail(q)) /\ Tail(q)[i - 1] = t
    BY <1>1, <1>3, <2>1
  <2> QED BY <2>2 DEF InQueue
<1>4. Once(Tail(q))
  BY <1>1 DEF Once
<1> QED BY <1>2, <1>3, <1>4

(* VecDeque::extend. *)
LEMMA OnBoth ==
  ASSUME NEW p \in Seq(Threads), NEW q \in Seq(Threads)
  PROVE  /\ \A t : InQueue(p \o q, t) <=> InQueue(p, t) \/ InQueue(q, t)
         /\ Once(p \o q) <=> /\ Once(p) /\ Once(q)
                             /\ \A t : ~(InQueue(p, t) /\ InQueue(q, t))
<1> DEFINE pq == p \o q
<1>1. /\ Len(p) \in Nat /\ Len(q) \in Nat /\ Len(pq) = Len(p) + Len(q)
      /\ \A i \in 1..Len(p) : i \in 1..Len(pq) /\ pq[i] = p[i]
      /\ \A i \in 1..Len(q) : Len(p) + i \in 1..Len(pq) /\ pq[Len(p) + i] = q[i]
  BY ConcatProperties, LenProperties
<1>2. \A k \in 1..Len(pq) :
        \/ k \in 1..Len(p)
        \/ k - Len(p) \in 1..Len(q) /\ k = Len(p) + (k - Len(p))
  BY <1>1
<1> HIDE DEF pq
<1>3. ASSUME NEW t PROVE InQueue(pq, t) <=> InQueue(p, t) \/ InQueue(q, t)
  <2>1. ASSUME InQueue(pq, t) PROVE InQueue(p, t) \/ InQueue(q, t)
    <3>1. PICK k \in 1..Len(pq) : pq[k] = t
      BY <2>1 DEF InQueue
    <3> QED BY <1>1, <1>2, <3>1 DEF InQueue
  <2>2. ASSUME InQueue(p, t) PROVE InQueue(pq, t)
    BY <1>1, <2>2 DEF InQueue
  <2>3. ASSUME InQueue(q, t) PROVE InQueue(pq, t)
    <3>1. PICK i \in 1..Len(q) : q[i] = t
      BY <2>3 DEF InQueue
    <3>2. Len(p) + i \in 1..Len(pq) /\ pq[Len(p) + i] = t
      BY <1>1, <3>1
    <3> QED BY <3>2 DEF InQueue
  <2> QED BY <2>1, <2>2, <2>3
<1>4. ASSUME Once(pq)
      PROVE  /\ Once(p) /\ Once(q)
             /\ \A t : ~(InQueue(p, t) /\ InQueue(q, t))
  <2>1. Once(p)
    BY <1>1, <1>4 DEF Once
  <2>2. Once(q)
    <3> SUFFICES ASSUME NEW i \in 1..Len(q), NEW j \in 1..Len(q), q[i] = q[j]
                 PROVE  i = j
      BY DEF Once
    <3>1. Len(p) + i = Len(p) + j
      BY <1>1, <1>4 DEF Once
    <3> QED BY <1>1, <3>1
  <2>3. ASSUME NEW t, InQueue(p, t), InQueue(q, t) PROVE FALSE
    <3>1. PICK i \in 1..Len(p), j \in 1..Len(q) : p[i] = t /\ q[j] = t
      BY <2>3 DEF InQueue
    <3>2. i = Len(p) + j
      BY <1>1, <1>4, <3>1 DEF Once
    <3> QED BY <1>1, <3>1, <3>2
  <2> QED BY <2>1, <2>2, <2>3
<1>5. ASSUME Once(p), Once(q), \A t : ~(InQueue(p, t) /\ InQueue(q, t))
      PROVE  Once(pq)
  <2> SUFFICES ASSUME NEW k \in 1..Len(pq), NEW l \in 1..Len(pq), pq[k] = pq[l]
               PROVE  k = l
    BY DEF Once
  <2>1. CASE k \in 1..Len(p) /\ l \in 1..Len(p)
    BY <1>1, <1>5, <2>1 DEF Once
  <2>2. CASE k - Len(p) \in 1..Len(q) /\ l - Len(p) \in 1..Len(q)
    <3>1. q[k - Len(p)] = q[l - Len(p)]
      BY <1>1, <1>2, <2>2
    <3>2. k - Len(p) = l - Len(p)
      BY <1>5, <2>2, <3>1 DEF Once
    <3> QED BY <1>1, <2>2, <3>2
  <2>3. CASE k \in 1..Len(p) /\ l - Len(p) \in 1..Len(q)
    <3>1. p[k] = q[l - Len(p)]
      BY <1>1, <1>2, <2>3
    <3> QED BY <1>5, <2>3, <3>1 DEF InQueue
  <2>4. CASE l \in 1..Len(p) /\ k - Len(p) \in 1..Len(q)
    <3>1. p[l] = q[k - Len(p)]
      BY <1>1, <1>2, <2>4
    <3> QED BY <1>5, <2>4, <3>1 DEF InQueue
  <2> QED BY <1>2, <2>1, <2>2, <2>3, <2>4
<1> QED BY <1>3, <1>4, <1>5 DEF pq

(* VecDeque::retain(|x| x != t). *)
LEMMA OnWithout ==
  ASSUME NEW q \in Seq(Threads), NEW t, Once(q)
  PROVE  /\ \A u : InQueue(Without(q, t), u) <=> InQueue(q, u) /\ u # t
         /\ Once(Without(q, t))
<1>1. CASE ~InQueue(q, t)
  BY <1>1 DEF Without
<1>2. CASE InQueue(q, t)
  <2>1. PICK k \in 1..Len(q) : Without(q, t) = SX!RemoveAt(q, k) /\ q[k] = t
    BY <1>2 DEF Without, InQueue
  <2> DEFINE a == SubSeq(q, 1, k - 1)
             b == SubSeq(q, k + 1, Len(q))
  <2>2. Len(q) \in Nat /\ k \in Nat
    BY LenProperties
  <2>3. /\ a \in Seq(Threads) /\ Len(a) = k - 1
        /\ \A i \in 1..(k - 1) : a[i] = q[i]
    BY <2>2, SubSeqProperties
  <2>4. /\ b \in Seq(Threads) /\ Len(b) = Len(q) - k
        /\ \A i \in 1..(Len(q) - k) : b[i] = q[k + i]
    BY <2>2, SubSeqProperties
  <2>5. Without(q, t) = a \o b
    BY <2>1 DEF SX!RemoveAt
  <2> HIDE DEF a, b
  <2>6. Once(a) /\ Once(b)
    <3>1. Once(a)
      BY <2>2, <2>3 DEF Once
    <3>2. ASSUME NEW i \in 1..Len(b), NEW j \in 1..Len(b), b[i] = b[j]
          PROVE  i = j
      <4>1. /\ k + i \in 1..Len(q) /\ k + j \in 1..Len(q)
            /\ q[k + i] = q[k + j]
        BY <2>2, <2>4, <3>2
      <4>2. k + i = k + j
        BY <4>1 DEF Once
      <4> QED BY <2>2, <4>2
    <3> QED BY <3>1, <3>2 DEF Once
  <2>7. ASSUME NEW u
        PROVE  /\ ~(InQueue(a, u) /\ InQueue(b, u))
               /\ InQueue(a, u) \/ InQueue(b, u) => InQueue(q, u) /\ u # t
    <3>1. ASSUME InQueue(a, u) PROVE \E i \in 1..(k - 1) : q[i] = u
      BY <2>3, <3>1 DEF InQueue
    <3>2. ASSUME InQueue(b, u) PROVE \E i \in (k + 1)..Len(q) : q[i] = u
      <4>1. PICK i \in 1..(Len(q) - k) : b[i] = u
        BY <2>4, <3>2 DEF InQueue
      <4>2. k + i \in (k + 1)..Len(q) /\ q[k + i] = u
        BY <2>2, <2>4, <4>1
      <4> QED BY <4>2
    <3> QED BY <2>1, <2>2, <3>1, <3>2 DEF InQueue, Once
  <2>8. ASSUME NEW u, InQueue(q, u), u # t PROVE InQueue(a, u) \/ InQueue(b, u)
    <3>1. PICK i \in 1..Len(q) : q[i] = u
      BY <2>8 DEF InQueue
    <3>2. CASE i < k
      BY <2>2, <2>3, <3>1, <3>2 DEF InQueue
    <3>3. CASE i > k
      <4>1. i - k \in 1..Len(b) /\ b[i - k] = u
        BY <2>2, <2>4, <3>1, <3>3
      <4> QED BY <4>1 DEF InQueue
    <3> QED BY <2>1, <2>2, <2>8, <3>1, <3>2, <3>3
  <2> QED BY <2>3, <2>4, <2>5, <2>6, <2>7, <2>8, OnBoth
<1> QED BY <1>1, <1>2

-----------------------------------------------------------------------------
(* The condition variables.                                                *)
OnQueue(c, t) == InQueue(cwaiting[c], t) \/ InQueue(cwaking[c], t)

(* What QueuesExact says, queue by queue.                                  *)
Queued(c) ==
  /\ Once(cwaiting[c]) /\ Once(cwaking[c])
  /\ \A t \in Threads : ~(InQueue(cwaiting[c], t) /\ InQueue(cwaking[c], t))
  /\ \A t \in Threads : OnQueue(c, t) <=> blocked[t] = On("cond", c)

(* QueuesExact, which is about the two queues joined, says Queued of every *)
(* condition variable.                                                     *)
LEMMA QueuesExactSplit ==
  CondTypeOK => (QueuesExact <=> \A c \in Conds : Queued(c))
<1> SUFFICES ASSUME CondTypeOK, NEW c \in Conds
             PROVE  /\ Once(cwaiting[c] \o cwaking[c])
                    /\ \A t \in Threads :
                         InQueue(cwaiting[c] \o cwaking[c], t)
                           <=> blocked[t] = On("cond", c)
                    <=> Queued(c)
  BY DEF QueuesExact, Once
<1>1. cwaiting[c] \in Seq(Threads) /\ cwaking[c] \in Seq(Threads)
  BY DEF CondTypeOK
<1>2. \A t : InQueue(cwaiting[c], t) => t \in Threads
  BY <1>1, ElementOfSeq DEF InQueue
<1> QED BY <1>1, <1>2, OnBoth DEF Queued, OnQueue

(* A program that initialises a condition variable only while no thread    *)
(* waits for it: to initialise one in use is undefined in POSIX.           *)
InitsIdle ==
  \A t \in Threads, c \in Conds : pthread_cond_init(t, c) => CanDestroyCond(c)

(* What a step does to the queues and to the threads blocked on them: it   *)
(* moves thread t onto, along or off the queues of c, or does neither; and *)
(* which threads are in a wait function.                                   *)
Blocking(t, b) == blocked' = [blocked EXCEPT ![t] = b]

Waits(t, c, m) ==
  /\ Calls \cap {"cond_wait", "cond_timedwait"} # {}
  /\ m \in WaitMutex[c] /\ ~UnlockFails(t, m) /\ MutexAgrees(c, m)
  /\ cond_enqueue(t, c, m)
  /\ inWait[t] = NoCond /\ inWait' = [inWait EXCEPT ![t] = c]
  /\ blocked[t] = Ready /\ Blocking(t, On("cond", c))

QueueStep(t, c) ==
  \/ CanDestroyCond(c) /\ cond_init(c) /\ UNCHANGED <<blocked, inWait>>
  \/ \E m \in Mutexes : Waits(t, c, m)
  \/ (cond_signal(c) \/ cond_broadcast(c)) /\ UNCHANGED <<blocked, inWait>>
  \/ /\ blocked[t] = On("cond", c)
     /\ NextToWake(c, t) /\ cond_wake(c)
     /\ Blocking(t, Ready) /\ UNCHANGED inWait
  \/ /\ blocked[t] = On("cond", c)
     /\ cond_time_out(c, t)
     /\ \E b : b.on # "cond" /\ Blocking(t, b)
     /\ UNCHANGED inWait

NoQueueStep ==
  /\ UNCHANGED <<cwaiting, cwaking>>
  /\ \/ "cond_destroy" \in Calls
     \/ /\ UNCHANGED cmutex
        /\ \A c \in Conds : cstate'[c] # cstate[c] => cstate'[c] = "live"
  /\ \A t \in Threads : inWait'[t] # inWait[t] => inWait'[t] = NoCond /\ blocked[t] = Ready
  /\ \A t \in Threads :
       blocked'[t] # blocked[t] => blocked[t].on # "cond" /\ blocked'[t].on # "cond"

(* Guest calls: the caller is not blocked before, so it is on no queue.    *)
LEMMA GuestQueueStep ==
  ASSUME ThreadsTyped, RunsUnblocked, Guest, InitsIdle
  PROVE  NoQueueStep \/ \E t \in Threads, c \in Conds : QueueStep(t, c)
<1>1. PICK t \in Threads :
        \/ \E m \in Mutexes : MutexCalls(t, m)
        \/ \E c \in Conds, m \in Mutexes : WaitCalls(t, c, m)
        \/ \E c \in Conds : CondCalls(t, c)
        \/ \E s \in Sems : SemCalls(t, s)
        \/ ThreadCalls(t)
        \/ \E u \in Threads : ThreadPairCalls(t, u)
  BY DEF Guest
<1>2. ASSUME UNCHANGED <<condVars, blocked, inWait>> PROVE NoQueueStep
  BY <1>2 DEF NoQueueStep, condVars
<1>3. ASSUME Running(t) PROVE blocked[t] = Ready
  BY <1>3 DEF Running, RunsUnblocked
<1>4. ASSUME NEW b, b.on # "cond", Running(t), Yield(t, b),
             UNCHANGED <<condVars, inWait>>
      PROVE  NoQueueStep
  BY <1>3, <1>4 DEF Yield, condVars, NoQueueStep, ThreadsTyped, ThreadTypeOK,
     Ready
<1>5. ASSUME NEW m \in Mutexes, MutexCalls(t, m) PROVE NoQueueStep
  <2>1. CASE pthread_mutex_lock_blocks(t, m)
    BY <1>4, <2>1 DEF pthread_mutex_lock_blocks, Call, On
  <2>2. CASE ~pthread_mutex_lock_blocks(t, m)
    BY <1>2, <1>5, <2>2 DEF MutexCalls, pthread_mutex_init, threadVars,
       pthread_mutex_lock, pthread_mutex_trylock,
       pthread_mutex_unlock, pthread_mutex_destroy
  <2> QED BY <2>1, <2>2
<1>6. ASSUME NEW c \in Conds, NEW m \in Mutexes, WaitCalls(t, c, m)
      PROVE  NoQueueStep \/ QueueStep(t, c)
  <2>1. CASE pthread_cond_wait(t, c, m) \/ pthread_cond_timedwait(t, c, m)
    BY <1>3, <2>1 DEF pthread_cond_wait, pthread_cond_timedwait, CondWait,
       Call, Running, Yield, QueueStep, Waits, Blocking
  <2>2. CASE WaitRefused(t, c, m)
    BY <2>2 DEF WaitRefused, threadVars, NoQueueStep
  <2>3. CASE WaitPanics(t, c, m)
    BY <1>2, <2>3 DEF WaitPanics, Panic, threadVars
  <2> QED BY <1>6, <2>1, <2>2, <2>3 DEF WaitCalls
<1>7. ASSUME NEW c \in Conds, CondCalls(t, c)
      PROVE  NoQueueStep \/ QueueStep(t, c)
  <2>1. CASE pthread_cond_init(t, c)
    BY <2>1 DEF InitsIdle, pthread_cond_init, threadVars, QueueStep
  <2>2. CASE pthread_cond_signal(t, c) \/ pthread_cond_broadcast(t, c)
    BY <2>2 DEF pthread_cond_signal, pthread_cond_broadcast, threadVars,
       QueueStep
  <2>3. CASE SignalPanics(t, c) \/ CondDestroyPanics(t, c)
    BY <1>2, <2>3 DEF SignalPanics, CondDestroyPanics, Panic, threadVars
  <2>4. CASE pthread_cond_destroy(t, c)
    BY <2>4 DEF pthread_cond_destroy, Call, cond_destroy, threadVars,
       NoQueueStep
  <2> QED BY <1>7, <2>1, <2>2, <2>3, <2>4 DEF CondCalls
<1>8. ASSUME NEW s \in Sems, SemCalls(t, s) PROVE NoQueueStep
  <2>1. CASE sem_wait_blocks(t, s)
    BY <1>4, <2>1 DEF sem_wait_blocks, Call, On
  <2>2. CASE ~sem_wait_blocks(t, s)
    BY <1>2, <1>8, <2>2 DEF SemCalls, sem_init, sem_destroy, sem_post,
       sem_wait, threadVars
  <2> QED BY <2>1, <2>2
<1>9. ASSUME ThreadCalls(t) PROVE NoQueueStep
  <2>1. CASE sleep(t)
    BY <1>4, <2>1 DEF sleep, Call, Asleep
  <2>2. CASE Resume(t)
    BY <2>2 DEF Resume, RunsUnblocked, NoQueueStep, ThreadsTyped, ThreadTypeOK
  <2>3. CASE ~sleep(t) /\ ~Resume(t)
    BY <1>2, <1>9, <2>3 DEF ThreadCalls, ResumePanics, Panic,
       pthread_create, pthread_create_suspended_np, NewThread, FinishThread,
       threadVars
  <2> QED BY <2>1, <2>2, <2>3
<1>10. ASSUME NEW u \in Threads, ThreadPairCalls(t, u) PROVE NoQueueStep
  <2>1. CASE pthread_join(t, u)
    BY <1>4, <2>1 DEF pthread_join, Call, On
  <2>2. CASE ~pthread_join(t, u)
    BY <1>2, <1>10, <2>2 DEF ThreadPairCalls, pthread_detach, suspend_thread,
       resume_thread
  <2> QED BY <2>1, <2>2
<1> QED BY <1>1, <1>5, <1>6, <1>7, <1>8, <1>9, <1>10

(* The scheduler takes its candidate off the queues when it unblocks it.   *)
LEMMA SchedulerQueueStep ==
  ASSUME ThreadsTyped, Scheduler
  PROVE  NoQueueStep \/ \E t \in Threads, c \in Conds : QueueStep(t, c)
<1>1. ASSUME UNCHANGED <<condVars, blocked, inWait>> PROVE NoQueueStep
  BY <1>1 DEF NoQueueStep, condVars
<1>2. ASSUME NEW u \in Threads, ScanThread(u) PROVE NoQueueStep
  <2>1. UNCHANGED blocked \/ (blocked[u].on # "cond" /\ Wake(u))
    BY <1>2 DEF ScanThread, ScanIdle, ScanReady, ScanSleeping, ScanMutex,
       WakeWithMutex, ScanSemaphore, ScanJoining, Looking, PassOver, Panic,
       threadVars
  <2>2. UNCHANGED <<condVars, inWait>>
    BY <1>2 DEF ScanThread, ScanIdle, ScanReady, ScanSleeping, ScanMutex,
       ScanSemaphore, ScanJoining, PassOver, Panic, threadVars
  <2> QED
    BY <2>1, <2>2 DEF Wake, Ready, NoQueueStep, ThreadsTyped, ThreadTypeOK,
       condVars
<1>3. ASSUME NEW u \in Threads, NEW c \in Conds, ScanWaiter(u, c)
      PROVE  NoQueueStep \/ QueueStep(u, c)
  <2>1. ASSUME WaitingFor(u, c) PROVE blocked[u] = On("cond", c)
    <3>1. blocked[u] \in Blocks /\ blocked[u].on = "cond"
      BY <2>1 DEF WaitingFor, Looking, ThreadsTyped, ThreadTypeOK
    <3> QED BY <2>1, <3>1 DEF WaitingFor, Blocks, Ready, Asleep, On
  <2>2. CASE ScanCondSignalled(u, c)
    BY <2>1, <2>2 DEF ScanCondSignalled, Signalled, WakeWithMutex, Wake,
       QueueStep, Blocking
  <2>3. CASE ScanCondTimesOut(u, c)
    BY <2>1, <2>3 DEF ScanCondTimesOut, TimesOut, WakeWithMutex, Wake, Ready,
       QueueStep, Blocking
  <2>4. CASE ScanCondTimesOutLocked(u, c)
    BY <2>1, <2>4 DEF ScanCondTimesOutLocked, TimesOut, On, QueueStep, Blocking
  <2>5. CASE ScanCondPanics(u, c) \/ ScanCondStays(u, c)
    BY <1>1, <2>5 DEF ScanCondPanics, ScanCondStays, PassOver, Panic,
       threadVars
  <2> QED BY <1>3, <2>2, <2>3, <2>4, <2>5 DEF ScanWaiter
<1>4. ASSUME SleepTillAwakening \/ GracePeriod \/ DeclareDeadlock
      PROVE  NoQueueStep
  BY <1>1, <1>4 DEF SleepTillAwakening, GracePeriod, DeclareDeadlock, Panic,
     threadVars
<1> QED BY <1>2, <1>3, <1>4 DEF Scheduler

(* Each of these keeps the queues and the blocks in agreement.             *)
LEMMA QueueStepExact ==
  ASSUME ThreadsTyped, CondTypeOK, NEW t \in Threads, NEW c \in Conds,
         QueueStep(t, c), NEW d \in Conds, Queued(d)
  PROVE  Queued(d)'
<1> DEFINE p == cwaiting[d]
           q == cwaking[d]
<1>1. /\ p \in Seq(Threads) /\ q \in Seq(Threads)
      /\ Once(p) /\ Once(q)
      /\ \A u \in Threads : ~(InQueue(p, u) /\ InQueue(q, u))
      /\ \A u \in Threads :
           InQueue(p, u) \/ InQueue(q, u) <=> blocked[u] = On("cond", d)
  BY DEF CondTypeOK, Queued, OnQueue
<1> SUFFICES /\ Once(p') /\ Once(q')
             /\ \A u \in Threads : ~(InQueue(p', u) /\ InQueue(q', u))
             /\ \A u \in Threads :
                  InQueue(p', u) \/ InQueue(q', u) <=> blocked'[u] = On("cond", d)
  BY DEF Queued, OnQueue
<1>2. \A e \in Conds : On("cond", e) = On("cond", d) => e = d
  BY DEF On
<1>3. blocked \in [Threads -> Blocks]
  BY DEF ThreadsTyped, ThreadTypeOK
<1>4. \A u : ~InQueue(<< >>, u)
  BY DEF InQueue
<1>5. Once(<< >>)
  BY DEF Once
<1>6. CASE CanDestroyCond(c) /\ cond_init(c) /\ UNCHANGED blocked
  <2>1. CASE d = c
    <3>1. p = << >> /\ q = << >> /\ p' = << >> /\ q' = << >>
      BY <1>6, <2>1 DEF CanDestroyCond, cond_init, CondTypeOK
    <3> HIDE DEF p, q
    <3> QED BY <1>1, <1>6, <3>1
  <2>2. CASE d # c
    <3>1. p' = p /\ q' = q
      BY <1>6, <2>2 DEF cond_init, CondTypeOK
    <3> HIDE DEF p, q
    <3> QED BY <1>1, <1>6, <3>1
  <2> QED BY <2>1, <2>2
<1>7. CASE \E m \in Mutexes : Waits(t, c, m)
  <2> USE DEF Waits
  <2>1. ~InQueue(p, t) /\ ~InQueue(q, t)
    BY <1>1, <1>7 DEF Ready, On
  <2>2. \A u \in Threads :
          blocked'[u] = IF u = t THEN On("cond", c) ELSE blocked[u]
    BY <1>3, <1>7 DEF Blocking
  <2>3. q' = q /\ p' = IF d = c THEN Append(p, t) ELSE p
    BY <1>7 DEF cond_enqueue, CondTypeOK
  <2> HIDE DEF p, q
  <2>4. CASE d = c
    <3>1. Once(p')
      BY <1>1, <2>1, <2>3, <2>4, OnAppended
    <3>2. \A u \in Threads : InQueue(p', u) <=> InQueue(p, u) \/ u = t
      BY <1>1, <2>3, <2>4, OnAppended
    <3> QED BY <1>1, <2>1, <2>2, <2>3, <2>4, <3>1, <3>2
  <2>5. CASE d # c
    BY <1>1, <1>2, <1>7, <2>1, <2>2, <2>3, <2>5
  <2> QED BY <2>4, <2>5
<1>8. CASE cond_signal(c) /\ UNCHANGED blocked
  <2>1. CASE d = c /\ p # << >>
    <3>1. p' = Tail(p) /\ q' = Append(q, Head(p))
      BY <1>8, <2>1 DEF cond_signal, CondTypeOK
    <3> HIDE DEF p, q
    <3>2. Head(p) \in Threads /\ InQueue(p, Head(p))
      <4>1. Head(p) = p[1] /\ 1 \in 1..Len(p) /\ Head(p) \in Threads
        BY <1>1, <2>1, HeadTailProperties, EmptySeq
      <4> QED BY <4>1 DEF InQueue
    <3>3. /\ Once(p') /\ Once(q')
          /\ \A u \in Threads : InQueue(p', u) <=> InQueue(p, u) /\ u # Head(p)
          /\ \A u \in Threads : InQueue(q', u) <=> InQueue(q, u) \/ u = Head(p)
      BY <1>1, <2>1, <3>1, <3>2, OnTail, OnAppended
    <3> QED BY <1>1, <1>8, <3>2, <3>3
  <2>2. CASE ~(d = c /\ p # << >>)
    <3>1. p' = p /\ q' = q
      BY <1>8, <2>2 DEF cond_signal, CondTypeOK
    <3> HIDE DEF p, q
    <3> QED BY <1>1, <1>8, <3>1
  <2> QED BY <2>1, <2>2
<1>9. CASE cond_broadcast(c) /\ UNCHANGED blocked
  <2>1. CASE d = c
    <3>1. p' = << >> /\ q' = q \o p
      BY <1>9, <2>1 DEF cond_broadcast, CondTypeOK
    <3> HIDE DEF p, q
    <3>2. Once(q') /\ \A u \in Threads : InQueue(q', u) <=> InQueue(q, u) \/ InQueue(p, u)
      <4>1. \A u : InQueue(p, u) => u \in Threads
        BY <1>1, ElementOfSeq DEF InQueue
      <4> QED BY <1>1, <3>1, <4>1, OnBoth
    <3> QED BY <1>1, <1>4, <1>5, <1>9, <3>1, <3>2
  <2>2. CASE d # c
    <3>1. p' = p /\ q' = q
      BY <1>9, <2>2 DEF cond_broadcast, CondTypeOK
    <3> HIDE DEF p, q
    <3> QED BY <1>1, <1>9, <3>1
  <2> QED BY <2>1, <2>2
<1>10. CASE /\ blocked[t] = On("cond", c)
            /\ NextToWake(c, t) /\ cond_wake(c)
            /\ Blocking(t, Ready)
  <2>1. \A u \in Threads : blocked'[u] = IF u = t THEN Ready ELSE blocked[u]
    BY <1>3, <1>10 DEF Blocking
  <2>2. Ready # On("cond", d)
    BY DEF Ready, On
  <2>3. CASE d = c
    <3>1. p' = p /\ q # << >> /\ Head(q) = t /\ q' = Tail(q)
      BY <1>10, <2>3 DEF NextToWake, cond_wake, CondTypeOK
    <3> HIDE DEF p, q
    <3>2. /\ Once(q')
          /\ \A u \in Threads : InQueue(q', u) <=> InQueue(q, u) /\ u # t
      BY <1>1, <3>1, OnTail
    <3>3. InQueue(q, t)
      <4>1. Head(q) = q[1] /\ 1 \in 1..Len(q)
        BY <1>1, <3>1, EmptySeq
      <4> QED BY <3>1, <4>1 DEF InQueue
    <3> QED BY <1>1, <2>1, <2>2, <3>1, <3>2, <3>3
  <2>4. CASE d # c
    <3>1. p' = p /\ q' = q
      BY <1>10, <2>4 DEF cond_wake, CondTypeOK
    <3> HIDE DEF p, q
    <3> QED BY <1>1, <1>2, <1>10, <2>1, <2>2, <2>4, <3>1
  <2> QED BY <2>3, <2>4
<1>11. CASE /\ blocked[t] = On("cond", c)
            /\ cond_time_out(c, t)
            /\ \E b : b.on # "cond" /\ Blocking(t, b)
  <2>1. PICK b : b.on # "cond" /\ Blocking(t, b)
    BY <1>11
  <2>2. \A u \in Threads : blocked'[u] = IF u = t THEN b ELSE blocked[u]
    BY <1>3, <2>1 DEF Blocking
  <2>3. b # On("cond", d)
    BY <2>1 DEF On
  <2>4. CASE d = c
    <3>1. p' = Without(p, t) /\ q' = Without(q, t)
      BY <1>11, <2>4 DEF cond_time_out, CondTypeOK
    <3> HIDE DEF p, q
    <3>2. /\ Once(p') /\ Once(q')
          /\ \A u : InQueue(p', u) <=> InQueue(p, u) /\ u # t
          /\ \A u : InQueue(q', u) <=> InQueue(q, u) /\ u # t
      BY <1>1, <3>1, OnWithout
    <3> QED BY <1>1, <2>2, <2>3, <3>2
  <2>5. CASE d # c
    <3>1. p' = p /\ q' = q
      BY <1>11, <2>5 DEF cond_time_out, CondTypeOK
    <3> HIDE DEF p, q
    <3> QED BY <1>1, <1>2, <1>11, <2>2, <2>3, <2>5, <3>1
  <2> QED BY <2>4, <2>5
<1> QED BY <1>6, <1>7, <1>8, <1>9, <1>10, <1>11 DEF QueueStep

(* QueuesExact is inductive, given that the current thread is not blocked. *)
LEMMA QueuesStep ==
  ASSUME TypeOK, RunsUnblocked, QueuesExact, [Next /\ InitsIdle]_vars, CondTypeOK'
  PROVE  QueuesExact'
<1>1. \A d \in Conds : Queued(d)
  BY QueuesExactSplit DEF TypeOK
<1> SUFFICES ASSUME NEW d \in Conds PROVE Queued(d)'
  <2>1. (CondTypeOK => (QueuesExact <=> \A c \in Conds : Queued(c)))'
    BY QueuesExactSplit, PTL
  <2> QED BY <2>1
<1>2. CASE NoQueueStep
  <2>1. \A t \in Threads :
          blocked'[t] = On("cond", d) <=> blocked[t] = On("cond", d)
    BY <1>2 DEF NoQueueStep, On
  <2> QED BY <1>1, <1>2, <2>1 DEF NoQueueStep, Queued, OnQueue
<1>3. CASE \E t \in Threads, c \in Conds : QueueStep(t, c)
  BY <1>1, <1>3, QueueStepExact DEF TypeOK, ThreadsTyped
<1>4. CASE Preempt \/ (\E t \in Threads : Tick(t)) \/ UNCHANGED vars
  <2>1. NoQueueStep
    BY <1>4 DEF Preempt, Tick, vars, condVars, threadVars, NoQueueStep
  <2> QED BY <1>2, <2>1
<1> QED
  BY <1>2, <1>3, <1>4, GuestQueueStep, SchedulerQueueStep
     DEF Next, TypeOK, ThreadsTyped

(* At the start the queues are empty and nobody is blocked.                *)
LEMMA QueuesInit == Init => QueuesExact
<1>1. \A t \in Threads, c \in Conds : ~InQueue(<< >> \o << >>, t) /\ Ready # On("cond", c)
  <2>1. << >> \o << >> = << >>
    BY ConcatEmptySeq, EmptySeq
  <2> QED BY <2>1 DEF InQueue, Ready, On
<1>2. << >> \o << >> = << >> /\ Len(<< >>) = 0
  BY ConcatEmptySeq, EmptySeq
<1> QED BY <1>1, <1>2 DEF Init, CondInit, QueuesExact

(* A thread is on the queues of a condition variable exactly while it is   *)
(* blocked on it, and once, in every program that does not initialise a    *)
(* condition variable that threads wait for.                               *)
THEOREM QueuesHold == Spec /\ [][InitsIdle]_vars => []QueuesExact
<1>1. TypeOK /\ TypeOK' /\ SchedInv /\ QueuesExact
        /\ [Next]_vars /\ [InitsIdle]_vars => QueuesExact'
  BY QueuesStep DEF TypeOK, SchedInv
<1> QED BY <1>1, QueuesInit, TypeCorrect, SchedInvHolds, PTL DEF Spec

-----------------------------------------------------------------------------
(* The semaphores.                                                         *)

(* A program that destroys a semaphore only while no thread waits for it:  *)
(* to destroy one in use is undefined in POSIX.                            *)
DestroysIdle ==
  \A t \in Threads, s \in Sems :
    sem_destroy(t, s) => \A u \in Threads : blocked[u] # On("sem", s)

(* No thread waits for a semaphore that is not open: such a thread would   *)
(* be told of a success that nothing pays for.                             *)
ClosedUnwaited ==
  \A s \in Sems \ open, t \in Threads : blocked[t] # On("sem", s)

SemInv == SemWaitersExact /\ SemConservation /\ ClosedUnwaited

(* What a step does to the semaphores and to the threads blocked on them.  *)
SemWaitStep(t, s) ==
  \/ (\E v \in 0..MaxValue : init_semaphore(s, v)) /\ UNCHANGED blocked
  \/ /\ destroy_semaphore(s) /\ UNCHANGED blocked
     /\ \A u \in Threads : blocked[u] # On("sem", s)
  \/ (sem_increment(s) \/ DecrementNow(s)) /\ UNCHANGED blocked
  \/ /\ blocked[t] = Ready
     /\ DecrementLater(t, s)
     /\ Blocking(t, On("sem", s))
  \/ /\ blocked[t] = On("sem", s)
     /\ DecrementForWaiter(t, s) \/ DecrementOfMissing(s)
     /\ Blocking(t, Ready)

NoSemWaitStep ==
  /\ UNCHANGED semVars
  /\ \A t \in Threads :
       blocked'[t] # blocked[t] => blocked[t].on # "sem" /\ blocked'[t].on # "sem"

(* Guest calls.                                                            *)
LEMMA GuestSemWaitStep ==
  ASSUME ThreadsTyped, RunsUnblocked, Guest, DestroysIdle
  PROVE  NoSemWaitStep \/ \E t \in Threads, s \in Sems : SemWaitStep(t, s)
<1>1. PICK t \in Threads :
        \/ \E m \in Mutexes : MutexCalls(t, m)
        \/ \E c \in Conds, m \in Mutexes : WaitCalls(t, c, m)
        \/ \E c \in Conds : CondCalls(t, c)
        \/ \E s \in Sems : SemCalls(t, s)
        \/ ThreadCalls(t)
        \/ \E u \in Threads : ThreadPairCalls(t, u)
  BY DEF Guest
<1>2. ASSUME UNCHANGED <<semVars, blocked>> PROVE NoSemWaitStep
  BY <1>2 DEF NoSemWaitStep
<1>3. ASSUME Running(t) PROVE blocked[t] = Ready
  BY <1>3 DEF Running, RunsUnblocked
<1>4. ASSUME NEW b, b.on # "sem", Running(t), Yield(t, b), UNCHANGED semVars
      PROVE  NoSemWaitStep
  BY <1>3, <1>4 DEF Yield, NoSemWaitStep, ThreadsTyped, ThreadTypeOK, Ready
<1>5. ASSUME NEW m \in Mutexes, MutexCalls(t, m) PROVE NoSemWaitStep
  <2>1. CASE pthread_mutex_lock_blocks(t, m)
    BY <1>4, <2>1 DEF pthread_mutex_lock_blocks, Call, On
  <2>2. CASE ~pthread_mutex_lock_blocks(t, m)
    BY <1>2, <1>5, <2>2 DEF MutexCalls, pthread_mutex_init, threadVars,
       pthread_mutex_lock, pthread_mutex_trylock, pthread_mutex_unlock,
       pthread_mutex_destroy
  <2> QED BY <2>1, <2>2
<1>6. ASSUME NEW c \in Conds, NEW m \in Mutexes, WaitCalls(t, c, m)
      PROVE  NoSemWaitStep
  <2>1. CASE pthread_cond_wait(t, c, m) \/ pthread_cond_timedwait(t, c, m)
    BY <1>3, <2>1 DEF pthread_cond_wait, pthread_cond_timedwait, CondWait,
       Call, Yield, NoSemWaitStep, On, Ready, ThreadsTyped, ThreadTypeOK
  <2>2. CASE WaitRefused(t, c, m) \/ WaitPanics(t, c, m)
    BY <1>2, <2>2 DEF WaitRefused, WaitPanics, Panic, threadVars
  <2> QED BY <1>6, <2>1, <2>2 DEF WaitCalls
<1>7. ASSUME NEW c \in Conds, CondCalls(t, c) PROVE NoSemWaitStep
  BY <1>2, <1>7 DEF CondCalls, pthread_cond_init, pthread_cond_signal,
     pthread_cond_broadcast, SignalPanics, pthread_cond_destroy,
     CondDestroyPanics, Panic, threadVars
<1>8. ASSUME NEW s \in Sems, SemCalls(t, s) PROVE SemWaitStep(t, s)
  <2>1. CASE sem_destroy(t, s)
    BY <2>1 DEF DestroysIdle, sem_destroy, threadVars, SemWaitStep
  <2>2. CASE sem_wait_blocks(t, s)
    BY <1>3, <2>2 DEF sem_wait_blocks, Call, Yield, SemWaitStep, Blocking
  <2>3. CASE sem_init(t, s) \/ sem_post(t, s) \/ sem_wait(t, s)
    BY <2>3 DEF sem_init, sem_post, sem_wait, threadVars, SemWaitStep
  <2> QED BY <1>8, <2>1, <2>2, <2>3 DEF SemCalls
<1>9. ASSUME ThreadCalls(t) PROVE NoSemWaitStep
  <2>1. CASE sleep(t)
    BY <1>4, <2>1 DEF sleep, Call, Asleep
  <2>2. CASE ~sleep(t)
    BY <1>2, <1>9, <2>2 DEF ThreadCalls, Resume, ResumePanics, Panic,
       pthread_create, pthread_create_suspended_np, NewThread, FinishThread,
       threadVars
  <2> QED BY <2>1, <2>2
<1>10. ASSUME NEW u \in Threads, ThreadPairCalls(t, u) PROVE NoSemWaitStep
  <2>1. CASE pthread_join(t, u)
    BY <1>4, <2>1 DEF pthread_join, Call, On
  <2>2. CASE ~pthread_join(t, u)
    BY <1>2, <1>10, <2>2 DEF ThreadPairCalls, pthread_detach, suspend_thread,
       resume_thread
  <2> QED BY <2>1, <2>2
<1> QED BY <1>1, <1>5, <1>6, <1>7, <1>8, <1>9, <1>10

(* The object of a thread's block, by its kind.                            *)
LEMMA BlockedOn ==
  ASSUME ThreadsTyped, NEW t \in Threads
  PROVE  /\ \A kind \in {"mutex", "cond", "sem", "join"} :
              blocked[t].on = kind <=> blocked[t] = On(kind, blocked[t].obj)
         /\ blocked[t].on = "mutex" => blocked[t].obj \in Mutexes
         /\ blocked[t].on = "cond" => blocked[t].obj \in Conds
         /\ blocked[t].on = "sem" => blocked[t].obj \in Sems
         /\ blocked[t].on = "join" => blocked[t].obj \in Threads
<1>1. blocked[t] \in Blocks
  BY DEF ThreadsTyped, ThreadTypeOK
<1> QED BY <1>1 DEF Blocks, Ready, Asleep, On

(* The scheduler unblocks its candidate only with a decrement.             *)
LEMMA SchedulerSemWaitStep ==
  ASSUME ThreadsTyped, Scheduler
  PROVE  NoSemWaitStep \/ \E t \in Threads, s \in Sems : SemWaitStep(t, s)
<1>1. ASSUME UNCHANGED <<semVars, blocked>> PROVE NoSemWaitStep
  BY <1>1 DEF NoSemWaitStep
<1>2. ASSUME NEW u \in Threads, ScanThread(u)
      PROVE  NoSemWaitStep \/ \E s \in Sems : SemWaitStep(u, s)
  <2>1. CASE ScanSemaphore(u)
    <3>1. blocked[u].obj \in Sems /\ blocked[u] = On("sem", blocked[u].obj)
      BY <2>1, BlockedOn DEF ScanSemaphore, Looking
    <3>2. CASE PassOver(FALSE)
      BY <1>1, <3>2 DEF PassOver, threadVars
    <3>3. CASE ~PassOver(FALSE)
      BY <2>1, <3>1, <3>3 DEF ScanSemaphore, Wake, SemWaitStep, Blocking
    <3> QED BY <3>2, <3>3
  <2>2. CASE ~ScanSemaphore(u)
    <3>1. UNCHANGED blocked \/ (blocked[u].on # "sem" /\ Wake(u))
      BY <1>2, <2>2 DEF ScanThread, ScanIdle, ScanReady, ScanSleeping,
         ScanMutex, WakeWithMutex, ScanJoining, Looking, PassOver, Panic,
         threadVars
    <3>2. UNCHANGED semVars
      BY <1>2, <2>2 DEF ScanThread, ScanIdle, ScanReady, ScanSleeping,
         ScanMutex, ScanJoining, PassOver, Panic
    <3> QED
      BY <3>1, <3>2 DEF Wake, Ready, NoSemWaitStep, ThreadsTyped, ThreadTypeOK
  <2> QED BY <2>1, <2>2
<1>3. ASSUME NEW u \in Threads, NEW c \in Conds, ScanWaiter(u, c)
      PROVE  NoSemWaitStep
  <2>1. UNCHANGED semVars
    BY <1>3 DEF ScanWaiter, ScanCondPanics, ScanCondSignalled,
       ScanCondTimesOut, ScanCondTimesOutLocked, ScanCondStays, PassOver, Panic
  <2>2. \/ UNCHANGED blocked
        \/ /\ blocked[u].on = "cond"
           /\ \E b : b.on # "sem" /\ blocked' = [blocked EXCEPT ![u] = b]
    BY <1>3 DEF ScanWaiter, ScanCondPanics, ScanCondSignalled,
       ScanCondTimesOut, ScanCondTimesOutLocked, ScanCondStays, PassOver,
       Panic, TimesOut, WaitingFor, Looking, WakeWithMutex, Wake, threadVars,
       Ready, On
  <2> QED BY <2>1, <2>2 DEF NoSemWaitStep, ThreadsTyped, ThreadTypeOK
<1>4. ASSUME SleepTillAwakening \/ GracePeriod \/ DeclareDeadlock
      PROVE  NoSemWaitStep
  BY <1>1, <1>4 DEF SleepTillAwakening, GracePeriod, DeclareDeadlock, Panic,
     threadVars
<1> QED BY <1>2, <1>3, <1>4 DEF Scheduler

(* Each of these keeps the waiting sets and the credit exact.              *)
LEMMA SemWaitStepInv ==
  ASSUME ThreadsTyped, SemTypeOK, SemInv, NEW t \in Threads, NEW s \in Sems,
         SemWaitStep(t, s)
  PROVE  SemInv'
<1> USE SemAssumption
    DEF SemInv, SemWaitersExact, SemConservation, ClosedUnwaited, SemTypeOK
<1>1. blocked \in [Threads -> Blocks]
  BY DEF ThreadsTyped, ThreadTypeOK
<1>2. \A r \in Sems : On("sem", r) = On("sem", s) <=> r = s
  BY DEF On
<1>3. \A r \in Sems : Ready # On("sem", r)
  BY DEF Ready, On
<1>4. CASE (\E v \in 0..MaxValue : init_semaphore(s, v)) /\ UNCHANGED blocked
  BY <1>4 DEF init_semaphore
<1>5. CASE /\ destroy_semaphore(s) /\ UNCHANGED blocked
           /\ \A u \in Threads : blocked[u] # On("sem", s)
  BY <1>5 DEF destroy_semaphore
<1>6. CASE (sem_increment(s) \/ DecrementNow(s)) /\ UNCHANGED blocked
  BY <1>6 DEF sem_increment, DecrementNow
<1>7. CASE /\ blocked[t] = Ready
           /\ DecrementLater(t, s)
           /\ Blocking(t, On("sem", s))
  <2>1. \A u \in Threads :
          blocked'[u] = IF u = t THEN On("sem", s) ELSE blocked[u]
    BY <1>1, <1>7 DEF Blocking
  <2>2. SemConservation' /\ ClosedUnwaited'
    BY <1>2, <1>7, <2>1 DEF DecrementLater
  <2>3. ASSUME NEW r \in open'
        PROVE  semWaiting'[r] = {u \in Threads : blocked'[u] = On("sem", r)}
    <3>1. CASE r = s
      BY <1>3, <1>7, <2>1, <3>1 DEF DecrementLater
    <3>2. CASE r # s
      BY <1>2, <1>3, <1>7, <2>1, <2>3, <3>2 DEF DecrementLater
    <3> QED BY <3>1, <3>2
  <2> QED BY <2>2, <2>3
<1>8. CASE /\ blocked[t] = On("sem", s)
           /\ DecrementForWaiter(t, s) \/ DecrementOfMissing(s)
           /\ Blocking(t, Ready)
  <2>1. \A u \in Threads : blocked'[u] = IF u = t THEN Ready ELSE blocked[u]
    BY <1>1, <1>8 DEF Blocking
  <2>2. DecrementForWaiter(t, s)
    BY <1>8 DEF DecrementOfMissing
  <2>3. SemConservation' /\ ClosedUnwaited'
    BY <1>3, <2>1, <2>2 DEF DecrementForWaiter
  <2>4. ASSUME NEW r \in open'
        PROVE  semWaiting'[r] = {u \in Threads : blocked'[u] = On("sem", r)}
    <3>1. CASE r = s
      BY <1>3, <1>8, <2>1, <2>2, <3>1 DEF DecrementForWaiter
    <3>2. CASE r # s
      BY <1>2, <1>3, <1>8, <2>1, <2>2, <2>4, <3>2 DEF DecrementForWaiter
    <3> QED BY <3>1, <3>2
  <2> QED BY <2>3, <2>4
<1> QED BY <1>4, <1>5, <1>6, <1>7, <1>8 DEF SemWaitStep

(* SemInv is inductive, given that the current thread is not blocked.      *)
LEMMA SemInvStep ==
  ASSUME TypeOK, RunsUnblocked, SemInv, [Next /\ DestroysIdle]_vars
  PROVE  SemInv'
<1>1. CASE NoSemWaitStep
  <2>1. \A t \in Threads, s \in Sems :
          blocked'[t] = On("sem", s) <=> blocked[t] = On("sem", s)
    BY <1>1 DEF NoSemWaitStep, On
  <2>2. UNCHANGED <<open, value, semWaiting, credit>>
    BY <1>1 DEF NoSemWaitStep, semVars
  <2>3. ASSUME NEW s \in open'
        PROVE  semWaiting'[s] = {t \in Threads : blocked'[t] = On("sem", s)}
    BY <2>1, <2>2 DEF SemInv, SemWaitersExact, TypeOK, SemTypeOK
  <2> QED
    BY <2>1, <2>2, <2>3
       DEF SemInv, SemWaitersExact, SemConservation, ClosedUnwaited
<1>2. CASE \E t \in Threads, s \in Sems : SemWaitStep(t, s)
  BY <1>2, SemWaitStepInv DEF TypeOK, ThreadsTyped
<1>3. CASE Preempt \/ (\E t \in Threads : Tick(t)) \/ UNCHANGED vars
  <2>1. NoSemWaitStep
    BY <1>3 DEF Preempt, Tick, vars, threadVars, NoSemWaitStep
  <2> QED BY <1>1, <2>1
<1> QED
  BY <1>1, <1>2, <1>3, GuestSemWaitStep, SchedulerSemWaitStep
     DEF Next, TypeOK, ThreadsTyped

(* At the start nobody waits and every semaphore is at 0.                  *)
LEMMA SemInvInit == Init => SemInv
<1>1. \A s : Ready # On("sem", s)
  BY DEF Ready, On
<1> QED
  BY <1>1, SemAssumption DEF Init, SemInit, SemInv, SemWaitersExact,
     SemConservation, ClosedUnwaited

(* The semaphores' invariant holds for every program that does not destroy *)
(* a semaphore that threads wait for.                                      *)
THEOREM SemaphoresHold == Spec /\ [][DestroysIdle]_vars => []SemInv
<1>1. TypeOK /\ SchedInv /\ SemInv /\ [Next]_vars /\ [DestroysIdle]_vars
        => SemInv'
  BY SemInvStep DEF SchedInv
<1> QED BY <1>1, SemInvInit, TypeCorrect, SchedInvHolds, PTL DEF Spec

(* An open semaphore records as waiting exactly the threads blocked on it. *)
THEOREM SemaphoreWaiters == Spec /\ [][DestroysIdle]_vars => []SemWaitersExact
BY SemaphoresHold, PTL DEF SemInv

(* Waits that succeed never outnumber what sem_init and sem_post put in.   *)
THEOREM SemaphoreCredit == Spec /\ [][DestroysIdle]_vars => []SemConservation
BY SemaphoresHold, PTL DEF SemInv

-----------------------------------------------------------------------------
(* The waiting counts of the mutexes.                                      *)
Waiters(m) == {t \in Threads : blocked[t] = On("mutex", m)}

(* A locked mutex, and one with phantom locks, is in the host table.       *)
LocksRegistered ==
  \A m \in Mutexes :
    owner[m] # Nobody \/ (\E t \in Threads : phantom[t][m] > 0) => m \in table

(* The mutex operations register what they lock and keep what is locked.   *)
LEMMA RegisteredStep ==
  ASSUME MutexTypeOK, LocksRegistered, [Next]_vars
  PROVE  LocksRegistered'
<1> USE DEF LocksRegistered, MutexTypeOK
<1>1. CASE NoLockStep
  BY <1>1 DEF NoLockStep, mutexVars
<1>2. ASSUME NEW t \in Threads, NEW m \in Mutexes, LockStep(t, m)
      PROVE  LocksRegistered'
  <2>1. CASE init_mutex(m)
    BY <2>1 DEF init_mutex, Register
  <2>2. CASE LockFree(t, m) \/ LockRecursive(t, m) \/ LockContended(t, m)
    BY <2>2 DEF LockFree, LockRecursive, LockContended, Register
  <2>3. CASE LockPhantom(t, m)
    BY <2>3, ObjectsAssumption DEF LockPhantom
  <2>4. CASE CanRelock(m) /\ relock_unblocked_mutex(t, m)
    BY <2>4 DEF CanRelock, relock_unblocked_mutex
  <2>5. CASE unlock_mutex(t, m)
    BY <2>5 DEF unlock_mutex, UnlockPhantom, UnlockReal
  <2>6. CASE Register(m) /\ UNCHANGED <<owner, phantom>>
    BY <2>6 DEF Register
  <2>7. CASE destroy_mutex(m)
    BY <2>7 DEF destroy_mutex, DestroyFails
  <2> QED
    BY <1>2, <2>1, <2>2, <2>3, <2>4, <2>5, <2>6, <2>7 DEF LockStep
<1> QED BY <1>1, <1>2, NextLockStep

(* A mutex that is locked, or has phantom locks, is in the host table.     *)
THEOREM LocksStayRegistered == Spec => []LocksRegistered
<1>1. Init => LocksRegistered
  BY DEF Init, MutexInit, LocksRegistered
<1>2. LockInv /\ LocksRegistered /\ [Next]_vars => LocksRegistered'
  BY RegisteredStep DEF LockInv
<1> QED BY <1>1, <1>2, LockInvHolds, PTL DEF Spec

(* What a step does to the waiting counts, the host table and the threads  *)
(* blocked on mutexes.                                                     *)
MutexWaitStep(t, m) ==
  \/ init_mutex(m) /\ Unreferenced(m) /\ UNCHANGED blocked
  \/ LockContended(t, m) /\ blocked[t] = Ready /\ Blocking(t, On("mutex", m))
  \/ /\ CanRelock(m) /\ relock_unblocked_mutex(t, m)
     /\ blocked[t] = On("mutex", m) \/ blocked[t].on = "cond"
     /\ Blocking(t, Ready)
  \/ /\ mutex_is_locked(m) /\ UNCHANGED mutexVars
     /\ blocked[t].on = "cond" /\ Blocking(t, On("mutex", m))
  \/ "mutex_destroy" \in Calls /\ destroy_mutex(m) /\ UNCHANGED blocked

NoMutexWaitStep ==
  /\ UNCHANGED waiting /\ table \subseteq table'
  /\ \A t \in Threads :
       blocked'[t] # blocked[t] => blocked[t].on # "mutex" /\ blocked'[t].on # "mutex"

(* Guest calls.                                                            *)
LEMMA GuestMutexWaitStep ==
  ASSUME ThreadsTyped, RunsUnblocked, Guest
  PROVE  \/ NoMutexWaitStep
         \/ \E t \in Threads, m \in Mutexes : MutexWaitStep(t, m)
<1>1. PICK t \in Threads :
        \/ \E m \in Mutexes : MutexCalls(t, m)
        \/ \E c \in Conds, m \in Mutexes : WaitCalls(t, c, m)
        \/ \E c \in Conds : CondCalls(t, c)
        \/ \E s \in Sems : SemCalls(t, s)
        \/ ThreadCalls(t)
        \/ \E u \in Threads : ThreadPairCalls(t, u)
  BY DEF Guest
<1>2. ASSUME UNCHANGED <<waiting, blocked>>, table \subseteq table'
      PROVE  NoMutexWaitStep
  BY <1>2 DEF NoMutexWaitStep
<1>3. ASSUME Running(t) PROVE blocked[t] = Ready
  BY <1>3 DEF Running, RunsUnblocked
<1>4. ASSUME NEW b, b.on # "mutex", Running(t), Yield(t, b),
             UNCHANGED <<waiting, table>>
      PROVE  NoMutexWaitStep
  BY <1>3, <1>4 DEF Yield, NoMutexWaitStep, ThreadsTyped, ThreadTypeOK, Ready
<1>5. ASSUME NEW m \in Mutexes, MutexCalls(t, m)
      PROVE  NoMutexWaitStep \/ MutexWaitStep(t, m)
  <2>1. CASE pthread_mutex_init(t, m)
    BY <2>1 DEF pthread_mutex_init, threadVars, MutexWaitStep
  <2>2. CASE pthread_mutex_lock(t, m) \/ pthread_mutex_trylock(t, m)
    BY <1>2, <2>2 DEF pthread_mutex_lock, pthread_mutex_trylock, LockFree,
       LockRecursive, LockPhantom, Register, threadVars
  <2>3. CASE pthread_mutex_lock_blocks(t, m)
    BY <1>3, <2>3 DEF pthread_mutex_lock_blocks, Call, Yield, MutexWaitStep,
       Blocking
  <2>4. CASE pthread_mutex_unlock(t, m)
    BY <1>2, <2>4 DEF pthread_mutex_unlock, unlock_mutex, UnlockPhantom,
       UnlockReal, Register, threadVars
  <2>5. CASE pthread_mutex_destroy(t, m)
    BY <2>5 DEF pthread_mutex_destroy, Call, threadVars, MutexWaitStep
  <2> QED BY <1>5, <2>1, <2>2, <2>3, <2>4, <2>5 DEF MutexCalls
<1>6. ASSUME NEW c \in Conds, NEW m \in Mutexes, WaitCalls(t, c, m)
      PROVE  NoMutexWaitStep
  <2>1. CASE pthread_cond_wait(t, c, m) \/ pthread_cond_timedwait(t, c, m)
    <3>1. Running(t) /\ unlock_mutex(t, m) /\ Blocking(t, On("cond", c))
      BY <2>1 DEF pthread_cond_wait, pthread_cond_timedwait, CondWait, Call,
         Yield, Blocking
    <3>2. UNCHANGED <<waiting, table>>
      BY <3>1 DEF unlock_mutex, UnlockPhantom, UnlockReal
    <3> QED
      BY <1>3, <3>1, <3>2 DEF NoMutexWaitStep, Blocking, On, Ready,
         ThreadsTyped, ThreadTypeOK
  <2>2. CASE WaitRefused(t, c, m) \/ WaitPanics(t, c, m)
    BY <1>2, <2>2 DEF WaitRefused, WaitPanics, Panic, Register, threadVars,
       mutexVars
  <2> QED BY <1>6, <2>1, <2>2 DEF WaitCalls
<1>7. ASSUME NEW c \in Conds, CondCalls(t, c) PROVE NoMutexWaitStep
  BY <1>2, <1>7 DEF CondCalls, pthread_cond_init, pthread_cond_signal,
     pthread_cond_broadcast, SignalPanics, pthread_cond_destroy,
     CondDestroyPanics, Panic, threadVars, mutexVars
<1>8. ASSUME NEW s \in Sems, SemCalls(t, s) PROVE NoMutexWaitStep
  <2>1. CASE sem_wait_blocks(t, s)
    BY <1>4, <2>1 DEF sem_wait_blocks, Call, On, mutexVars
  <2>2. CASE ~sem_wait_blocks(t, s)
    BY <1>2, <1>8, <2>2 DEF SemCalls, sem_init, sem_destroy, sem_post,
       sem_wait, threadVars, mutexVars
  <2> QED BY <2>1, <2>2
<1>9. ASSUME ThreadCalls(t) PROVE NoMutexWaitStep
  <2>1. CASE sleep(t)
    BY <1>4, <2>1 DEF sleep, Call, Asleep, mutexVars
  <2>2. CASE ~sleep(t)
    BY <1>2, <1>9, <2>2 DEF ThreadCalls, Resume, ResumePanics, Panic,
       pthread_create, pthread_create_suspended_np, NewThread, FinishThread,
       threadVars, mutexVars
  <2> QED BY <2>1, <2>2
<1>10. ASSUME NEW u \in Threads, ThreadPairCalls(t, u) PROVE NoMutexWaitStep
  <2>1. CASE pthread_join(t, u)
    BY <1>4, <2>1 DEF pthread_join, Call, On, mutexVars
  <2>2. CASE ~pthread_join(t, u)
    BY <1>2, <1>10, <2>2 DEF ThreadPairCalls, pthread_detach, suspend_thread,
       resume_thread, mutexVars
  <2> QED BY <2>1, <2>2
<1> QED BY <1>1, <1>5, <1>6, <1>7, <1>8, <1>9, <1>10

(* The scheduler unblocks its candidate only with the mutex locked for it, *)
(* and may move a waiter from a condition variable to its mutex.           *)
LEMMA SchedulerMutexWaitStep ==
  ASSUME ThreadsTyped, MutexTypeOK, CondTypeOK, Scheduler
  PROVE  \/ NoMutexWaitStep
         \/ \E t \in Threads, m \in Mutexes : MutexWaitStep(t, m)
<1>1. ASSUME UNCHANGED <<mutexVars, blocked>> PROVE NoMutexWaitStep
  BY <1>1 DEF NoMutexWaitStep, mutexVars
<1>2. ASSUME NEW u \in Threads, NEW m, WakeWithMutex(u, m),
             blocked[u] = On("mutex", m) \/ blocked[u].on = "cond"
      PROVE  m \in Mutexes /\ MutexWaitStep(u, m)
  BY <1>2 DEF WakeWithMutex, CanRelock, Wake, MutexTypeOK, MutexWaitStep,
     Blocking
<1>3. ASSUME NEW u \in Threads, ScanThread(u)
      PROVE  NoMutexWaitStep \/ \E m \in Mutexes : MutexWaitStep(u, m)
  <2>1. CASE ScanMutex(u)
    <3>1. blocked[u] = On("mutex", blocked[u].obj)
      BY <2>1, BlockedOn DEF ScanMutex, Looking
    <3>2. CASE WakeWithMutex(u, blocked[u].obj)
      BY <1>2, <3>1, <3>2
    <3>3. CASE ~WakeWithMutex(u, blocked[u].obj)
      BY <1>1, <2>1, <3>3 DEF ScanMutex, PassOver, Panic, threadVars
    <3> QED BY <3>2, <3>3
  <2>2. CASE ~ScanMutex(u)
    <3>1. UNCHANGED blocked \/ (blocked[u].on # "mutex" /\ Wake(u))
      BY <1>3, <2>2 DEF ScanThread, ScanIdle, ScanReady, ScanSleeping,
         ScanSemaphore, ScanJoining, Looking, PassOver, threadVars
    <3>2. UNCHANGED mutexVars
      BY <1>3, <2>2 DEF ScanThread, ScanIdle, ScanReady, ScanSleeping,
         ScanSemaphore, ScanJoining, PassOver
    <3> QED
      BY <3>1, <3>2 DEF Wake, Ready, NoMutexWaitStep, ThreadsTyped,
         ThreadTypeOK, mutexVars
  <2> QED BY <2>1, <2>2
<1>4. ASSUME NEW u \in Threads, NEW c \in Conds, ScanWaiter(u, c)
      PROVE  NoMutexWaitStep \/ \E m \in Mutexes : MutexWaitStep(u, m)
  <2>1. CASE ScanCondSignalled(u, c) \/ ScanCondTimesOut(u, c)
    BY <1>2, <2>1 DEF ScanCondSignalled, ScanCondTimesOut, TimesOut,
       WaitingFor, Looking
  <2>2. CASE ScanCondTimesOutLocked(u, c)
    <3>1. cmutex[c] \in Mutexes
      BY <2>2 DEF ScanCondTimesOutLocked, TimesOut, CondTypeOK
    <3> QED
      BY <2>2, <3>1 DEF ScanCondTimesOutLocked, TimesOut, WaitingFor, Looking,
         MutexWaitStep, Blocking
  <2>3. CASE ScanCondPanics(u, c) \/ ScanCondStays(u, c)
    BY <1>1, <2>3 DEF ScanCondPanics, ScanCondStays, PassOver, Panic, threadVars
  <2> QED BY <1>4, <2>1, <2>2, <2>3 DEF ScanWaiter
<1>5. ASSUME SleepTillAwakening \/ GracePeriod \/ DeclareDeadlock
      PROVE  NoMutexWaitStep
  BY <1>1, <1>5 DEF SleepTillAwakening, GracePeriod, DeclareDeadlock, Panic,
     threadVars
<1> QED BY <1>3, <1>4, <1>5 DEF Scheduler

(* Every step of the system does one MutexWaitStep, or none.               *)
LEMMA NextMutexWaitStep ==
  ASSUME TypeOK, RunsUnblocked, [Next]_vars
  PROVE  \/ NoMutexWaitStep
         \/ \E t \in Threads, m \in Mutexes : MutexWaitStep(t, m)
<1>1. CASE Preempt \/ (\E t \in Threads : Tick(t)) \/ UNCHANGED vars
  BY <1>1 DEF Preempt, Tick, vars, threadVars, mutexVars, NoMutexWaitStep
<1> QED
  BY <1>1, GuestMutexWaitStep, SchedulerMutexWaitStep
     DEF Next, TypeOK, ThreadsTyped

(* The threads blocked on a mutex are finitely many: a set of them grows   *)
(* by one with a thread that was not blocked, and shrinks by one with one  *)
(* that was.                                                               *)
LEMMA WaitersCounted ==
  ASSUME ThreadsTyped, NEW m \in Mutexes
  PROVE  IsFiniteSet(Waiters(m)) /\ Cardinality(Waiters(m)) \in Nat
<1>1. IsFiniteSet(Threads)
  BY FS_Interval, EnvironmentAssumption
<1>2. Waiters(m) \subseteq Threads
  BY DEF Waiters
<1> QED BY <1>1, <1>2, FS_Subset, FS_CardinalityType

(* So the count of those blocked on a mutex follows a change of one block. *)
LEMMA WaitersChange ==
  ASSUME ThreadsTyped, NEW m \in Mutexes, NEW t \in Threads, NEW b,
         Blocking(t, b)
  PROVE  /\ blocked[t] = On("mutex", m) /\ b = On("mutex", m)
              => Waiters(m)' = Waiters(m)
         /\ blocked[t] # On("mutex", m) /\ b # On("mutex", m)
              => Waiters(m)' = Waiters(m)
         /\ blocked[t] # On("mutex", m) /\ b = On("mutex", m)
              => Cardinality(Waiters(m)') = Cardinality(Waiters(m)) + 1
         /\ blocked[t] = On("mutex", m) /\ b # On("mutex", m)
              => /\ Cardinality(Waiters(m)') = Cardinality(Waiters(m)) - 1
                 /\ Cardinality(Waiters(m)) > 0
<1>1. \A u \in Threads : blocked'[u] = IF u = t THEN b ELSE blocked[u]
  BY DEF Blocking, ThreadsTyped, ThreadTypeOK
<1>2. IsFiniteSet(Waiters(m)) /\ Cardinality(Waiters(m)) \in Nat
  BY WaitersCounted
<1>3. CASE blocked[t] # On("mutex", m) /\ b = On("mutex", m)
  <2>1. Waiters(m)' = Waiters(m) \cup {t} /\ t \notin Waiters(m)
    BY <1>1, <1>3 DEF Waiters
  <2> QED BY <1>2, <1>3, <2>1, FS_AddElement
<1>4. CASE blocked[t] = On("mutex", m) /\ b # On("mutex", m)
  <2>1. Waiters(m)' = Waiters(m) \ {t} /\ t \in Waiters(m)
    BY <1>1, <1>4 DEF Waiters
  <2>2. Cardinality(Waiters(m)) # 0
    BY <1>2, <2>1, FS_EmptySet
  <2>3. Cardinality(Waiters(m)') = Cardinality(Waiters(m)) - 1
    BY <1>2, <2>1, FS_RemoveElement
  <2>4. Cardinality(Waiters(m)) > 0
    BY <1>2, <2>2
  <2> QED BY <1>4, <2>3, <2>4
<1>5. CASE blocked[t] = On("mutex", m) <=> b = On("mutex", m)
  BY <1>1, <1>5 DEF Waiters
<1> QED BY <1>3, <1>4, <1>5

(* Programs of any kind: a count is never above the number of the waiting, *)
(* so that a destroy refused because of it is refused rightly.             *)
WaitingBounded ==
  \A m \in Mutexes : waiting[m] <= Cardinality(Waiters(m))

(* A step on a mutex keeps every count bounded by the blocked threads.     *)
LEMMA MutexWaitStepBounded ==
  ASSUME TypeOK, WaitingBounded, NEW t \in Threads, NEW m \in Mutexes,
         MutexWaitStep(t, m), NEW n \in Mutexes
  PROVE  waiting'[n] <= Cardinality(Waiters(n)')
<1> DEFINE W == Cardinality(Waiters(n))
<1>1. W \in Nat /\ waiting[n] \in Nat /\ waiting[n] <= W /\ waiting \in [Mutexes -> Nat]
  BY WaitersCounted DEF TypeOK, ThreadsTyped, MutexTypeOK, WaitingBounded
<1>2. \A k \in Mutexes : On("mutex", k) = On("mutex", n) <=> k = n
  BY DEF On
<1>3. Ready # On("mutex", n) /\ Ready.on # "cond"
  BY DEF Ready, On
<1>4. ASSUME UNCHANGED blocked PROVE W' = W
  BY <1>4 DEF Waiters
<1>5. ASSUME NEW b, Blocking(t, b)
      PROVE  /\ (blocked[t] = On("mutex", n)) = (b = On("mutex", n)) => W' = W
             /\ blocked[t] # On("mutex", n) /\ b = On("mutex", n) => W' = W + 1
             /\ blocked[t] = On("mutex", n) /\ b # On("mutex", n)
                  => W' = W - 1 /\ W > 0
  BY <1>5, WaitersChange DEF TypeOK, ThreadsTyped
<1> HIDE DEF W
<1> SUFFICES waiting'[n] <= W'
  BY DEF W
<1>6. CASE init_mutex(m) /\ Unreferenced(m) /\ UNCHANGED blocked
  <2>1. waiting'[n] = IF n = m THEN 0 ELSE waiting[n]
    BY <1>1, <1>6 DEF init_mutex
  <2> QED BY <1>1, <1>4, <1>6, <2>1
<1>7. CASE LockContended(t, m) /\ blocked[t] = Ready /\ Blocking(t, On("mutex", m))
  <2>1. waiting'[n] = IF n = m THEN waiting[n] + 1 ELSE waiting[n]
    BY <1>1, <1>7 DEF LockContended
  <2>2. W' = IF n = m THEN W + 1 ELSE W
    BY <1>2, <1>3, <1>5, <1>7
  <2> QED BY <1>1, <2>1, <2>2
<1>8. CASE /\ CanRelock(m) /\ relock_unblocked_mutex(t, m)
           /\ blocked[t] = On("mutex", m) \/ blocked[t].on = "cond"
           /\ Blocking(t, Ready)
  <2>1. waiting'[n] = IF n = m /\ waiting[n] > 0 THEN waiting[n] - 1 ELSE waiting[n]
    BY <1>1, <1>8 DEF relock_unblocked_mutex
  <2>2. CASE blocked[t] = On("mutex", m)
    <3>1. n = m => W' = W - 1 /\ W > 0
      BY <1>3, <1>5, <1>8, <2>2
    <3>2. n # m => W' = W
      BY <1>2, <1>3, <1>5, <1>8, <2>2
    <3> QED BY <1>1, <2>1, <3>1, <3>2
  <2>3. CASE blocked[t].on = "cond"
    <3>1. W' = W
      BY <1>3, <1>5, <1>8, <2>3 DEF On
    <3> QED BY <1>1, <2>1, <3>1
  <2> QED BY <1>8, <2>2, <2>3
<1>9. CASE /\ UNCHANGED mutexVars
           /\ blocked[t].on = "cond" /\ Blocking(t, On("mutex", m))
  <2>1. blocked[t] # On("mutex", n)
    BY <1>9 DEF On
  <2>2. W' = W \/ W' = W + 1
    BY <1>5, <1>9, <2>1
  <2> QED BY <1>1, <1>9, <2>2 DEF mutexVars
<1>10. CASE destroy_mutex(m) /\ UNCHANGED blocked
  BY <1>1, <1>4, <1>10 DEF destroy_mutex
<1> QED BY <1>6, <1>7, <1>8, <1>9, <1>10 DEF MutexWaitStep

(* The other steps leave the threads blocked on a mutex as they are.       *)
LEMMA WaitersKept ==
  ASSUME NoMutexWaitStep, NEW m \in Mutexes
  PROVE  Waiters(m)' = Waiters(m)
BY DEF NoMutexWaitStep, Waiters, On

(* A mutex that counts a waiting thread has one, in every program: signals *)
(* and timeouts only ever lose counts.                                     *)
THEOREM WaitingNeverOvercounts == Spec => []WaitingBounded
<1>1. Init => WaitingBounded
  <2> SUFFICES ASSUME Init, NEW m \in Mutexes
               PROVE  waiting[m] <= Cardinality(Waiters(m))
    BY DEF WaitingBounded
  <2>1. Waiters(m) = {}
    BY DEF Init, Waiters, Ready, On
  <2> QED BY <2>1, FS_EmptySet DEF Init, MutexInit
<1>2. TypeOK /\ RunsUnblocked /\ WaitingBounded /\ [Next]_vars => WaitingBounded'
  <2> SUFFICES ASSUME TypeOK, RunsUnblocked, WaitingBounded, [Next]_vars,
                      NEW n \in Mutexes
               PROVE  waiting'[n] <= Cardinality(Waiters(n)')
    BY DEF WaitingBounded
  <2>1. CASE NoMutexWaitStep
    BY <2>1, WaitersKept DEF WaitingBounded, NoMutexWaitStep
  <2> QED BY <2>1, MutexWaitStepBounded, NextMutexWaitStep
<1> QED BY <1>1, <1>2, TypeCorrect, RunnersUnblocked, PTL DEF Spec

-----------------------------------------------------------------------------
(* Programs that wait for no condition variable: the counts are exact.     *)
NoWaits == Calls \cap {"cond_wait", "cond_timedwait"} = {}

NobodyWaits == QueuesExact /\ \A t \in Threads : blocked[t].on # "cond"

(* Without a call that waits, no step blocks a thread on a condition       *)
(* variable, and every initialisation finds its queues empty.              *)
LEMMA NobodyWaitsStep ==
  ASSUME NoWaits, TypeOK, RunsUnblocked, NobodyWaits, [Next]_vars, CondTypeOK'
  PROVE  NobodyWaits'
<1>1. ASSUME NEW c \in Conds, NEW q \in Seq(Threads), q # << >>,
             \A t \in Threads : InQueue(q, t) => InQueue(cwaiting[c] \o cwaking[c], t)
      PROVE  FALSE
  <2>1. 1 \in 1..Len(q) /\ q[1] \in Threads
    BY <1>1, EmptySeq, ElementOfSeq
  <2>2. InQueue(q, q[1])
    BY <2>1 DEF InQueue
  <2>3. blocked[q[1]] = On("cond", c)
    BY <1>1, <2>1, <2>2 DEF NobodyWaits, QueuesExact
  <2> QED BY <2>1, <2>3 DEF NobodyWaits, On
<1>2. \A c \in Conds : CanDestroyCond(c)
  BY <1>1, OnBoth DEF CanDestroyCond, TypeOK, CondTypeOK
<1>3. InitsIdle
  BY <1>2 DEF InitsIdle
<1>4. QueuesExact'
  BY <1>3, QueuesStep DEF NobodyWaits
<1>5. CASE NoQueueStep
  BY <1>4, <1>5 DEF NoQueueStep, NobodyWaits
<1>6. ASSUME NEW t \in Threads, NEW c \in Conds, QueueStep(t, c)
      PROVE  NobodyWaits'
  <2>1. UNCHANGED blocked
    BY <1>6 DEF QueueStep, Waits, NoWaits, NobodyWaits, On
  <2> QED BY <1>4, <2>1 DEF NobodyWaits
<1>7. CASE Preempt \/ (\E t \in Threads : Tick(t)) \/ UNCHANGED vars
  BY <1>4, <1>7 DEF Preempt, Tick, vars, threadVars, NobodyWaits
<1> QED
  BY <1>3, <1>5, <1>6, <1>7, GuestQueueStep, SchedulerQueueStep
     DEF Next, TypeOK, ThreadsTyped

(* So no thread is ever blocked on one.                                    *)
LEMMA NobodyEverWaits == ASSUME NoWaits PROVE Spec => []NobodyWaits
<1>1. Init => NobodyWaits
  BY QueuesInit DEF Init, NobodyWaits, Ready
<1>2. TypeOK /\ TypeOK' /\ RunsUnblocked /\ NobodyWaits /\ [Next]_vars
        => NobodyWaits'
  BY NobodyWaitsStep DEF TypeOK
<1> QED BY <1>1, <1>2, TypeCorrect, RunnersUnblocked, PTL DEF Spec

(* A step on a mutex keeps every count exact.                              *)
LEMMA MutexWaitStepExact ==
  ASSUME TypeOK, NobodyWaits, WaitingExact, NEW t \in Threads, NEW m \in Mutexes,
         MutexWaitStep(t, m), NEW n \in Mutexes
  PROVE  waiting'[n] = Cardinality(Waiters(n)')
<1> DEFINE W == Cardinality(Waiters(n))
<1>1. W \in Nat /\ waiting[n] = W /\ waiting \in [Mutexes -> Nat]
  BY WaitersCounted DEF TypeOK, ThreadsTyped, MutexTypeOK, WaitingExact, Waiters
<1>2. \A k \in Mutexes : On("mutex", k) = On("mutex", n) <=> k = n
  BY DEF On
<1>3. Ready # On("mutex", n)
  BY DEF Ready, On
<1>4. ASSUME UNCHANGED blocked PROVE W' = W
  BY <1>4 DEF Waiters
<1>5. ASSUME NEW b, Blocking(t, b)
      PROVE  /\ (blocked[t] = On("mutex", n)) = (b = On("mutex", n)) => W' = W
             /\ blocked[t] # On("mutex", n) /\ b = On("mutex", n) => W' = W + 1
             /\ blocked[t] = On("mutex", n) /\ b # On("mutex", n)
                  => W' = W - 1 /\ W > 0
  BY <1>5, WaitersChange DEF TypeOK, ThreadsTyped
<1>6. blocked[t].on # "cond"
  BY DEF NobodyWaits
<1>7. Unreferenced(n) => W = 0
  <2>1. Unreferenced(n) => Waiters(n) = {}
    BY DEF Unreferenced, Waiters
  <2> QED BY <2>1, FS_EmptySet
<1> HIDE DEF W
<1> SUFFICES waiting'[n] = W'
  BY DEF W
<1>8. CASE init_mutex(m) /\ Unreferenced(m) /\ UNCHANGED blocked
  <2>1. waiting'[n] = IF n = m THEN 0 ELSE waiting[n]
    BY <1>1, <1>8 DEF init_mutex
  <2> QED BY <1>1, <1>4, <1>7, <1>8, <2>1
<1>9. CASE LockContended(t, m) /\ blocked[t] = Ready /\ Blocking(t, On("mutex", m))
  <2>1. waiting'[n] = IF n = m THEN waiting[n] + 1 ELSE waiting[n]
    BY <1>1, <1>9 DEF LockContended
  <2>2. W' = IF n = m THEN W + 1 ELSE W
    BY <1>2, <1>3, <1>5, <1>9
  <2> QED BY <1>1, <2>1, <2>2
<1>10. CASE /\ CanRelock(m) /\ relock_unblocked_mutex(t, m)
            /\ blocked[t] = On("mutex", m) /\ Blocking(t, Ready)
  <2>1. waiting'[n] = IF n = m /\ waiting[n] > 0 THEN waiting[n] - 1 ELSE waiting[n]
    BY <1>1, <1>10 DEF relock_unblocked_mutex
  <2>2. n = m => W' = W - 1 /\ W > 0
    BY <1>3, <1>5, <1>10
  <2>3. n # m => W' = W
    BY <1>2, <1>3, <1>5, <1>10
  <2> QED BY <1>1, <2>1, <2>2, <2>3
<1>11. CASE destroy_mutex(m) /\ UNCHANGED blocked
  BY <1>1, <1>4, <1>11 DEF destroy_mutex
<1> QED BY <1>6, <1>8, <1>9, <1>10, <1>11 DEF MutexWaitStep

(* With exact counts a mutex is destroyed only while nobody waits for it.  *)
LEMMA MutexWaitStepExists ==
  ASSUME TypeOK, NobodyWaits, WaitingExact, LocksRegistered, BlockedMutexExists,
         NEW t \in Threads, NEW m \in Mutexes, MutexWaitStep(t, m)
  PROVE  BlockedMutexExists'
<1>1. blocked \in [Threads -> Blocks] /\ blocked[t].on # "cond"
  BY DEF TypeOK, ThreadTypeOK, NobodyWaits
<1>2. CASE init_mutex(m) /\ UNCHANGED blocked
  BY <1>2 DEF init_mutex, Register, BlockedMutexExists
<1>3. CASE LockContended(t, m) /\ Blocking(t, On("mutex", m))
  <2>1. m \in table
    BY <1>3 DEF LockContended, LocksRegistered
  <2> QED BY <1>1, <1>3, <2>1 DEF LockContended, Blocking, On, BlockedMutexExists
<1>4. CASE relock_unblocked_mutex(t, m) /\ Blocking(t, Ready)
  BY <1>1, <1>4 DEF relock_unblocked_mutex, Blocking, Ready, BlockedMutexExists
<1>5. CASE destroy_mutex(m) /\ UNCHANGED blocked
  <2>1. CASE DestroyFails(m)
    BY <1>5, <2>1 DEF destroy_mutex, BlockedMutexExists
  <2>2. CASE ~DestroyFails(m)
    <3>1. Cardinality(Waiters(m)) = 0
      BY <2>2 DEF DestroyFails, WaitingExact, Waiters
    <3>2. Waiters(m) = {}
      BY <3>1, WaitersCounted, FS_EmptySet DEF TypeOK, ThreadsTyped
    <3>3. \A u \in Threads : blocked[u].on = "mutex" => blocked[u].obj # m
      BY <3>2, BlockedOn DEF Waiters, TypeOK, ThreadsTyped
    <3> QED BY <1>5, <3>3 DEF destroy_mutex, BlockedMutexExists
  <2> QED BY <2>1, <2>2
<1> QED BY <1>1, <1>2, <1>3, <1>4, <1>5 DEF MutexWaitStep

CountsInv == WaitingExact /\ BlockedMutexExists

(* The exact counts and the kept mutexes are an inductive invariant.       *)
LEMMA CountsStep ==
  ASSUME TypeOK, RunsUnblocked, NobodyWaits, LocksRegistered, CountsInv,
         [Next]_vars
  PROVE  CountsInv'
<1>1. CASE NoMutexWaitStep
  <2>1. \A m \in Mutexes : Waiters(m)' = Waiters(m)
    BY <1>1, WaitersKept
  <2>2. WaitingExact'
    BY <1>1, <2>1 DEF NoMutexWaitStep, CountsInv, WaitingExact, Waiters
  <2>3. BlockedMutexExists'
    BY <1>1 DEF NoMutexWaitStep, CountsInv, BlockedMutexExists
  <2> QED BY <2>2, <2>3 DEF CountsInv
<1>2. ASSUME NEW t \in Threads, NEW m \in Mutexes, MutexWaitStep(t, m)
      PROVE  CountsInv'
  <2>1. WaitingExact'
    BY <1>2, MutexWaitStepExact DEF CountsInv, WaitingExact, Waiters
  <2>2. BlockedMutexExists'
    BY <1>2, MutexWaitStepExists DEF CountsInv
  <2> QED BY <2>1, <2>2 DEF CountsInv
<1> QED BY <1>1, <1>2, NextMutexWaitStep

(* They hold in every program without waits.                               *)
LEMMA CountsHold == ASSUME NoWaits PROVE Spec => []CountsInv
<1>1. Init => CountsInv
  <2> SUFFICES ASSUME Init PROVE CountsInv
    OBVIOUS
  <2>1. \A m : {t \in Threads : blocked[t] = On("mutex", m)} = {}
    BY DEF Init, Ready, On
  <2>2. WaitingExact
    BY <2>1, FS_EmptySet DEF Init, MutexInit, WaitingExact
  <2>3. BlockedMutexExists
    BY DEF Init, Ready, BlockedMutexExists
  <2> QED BY <2>2, <2>3 DEF CountsInv
<1>2. TypeOK /\ RunsUnblocked /\ NobodyWaits /\ LocksRegistered /\ CountsInv
        /\ [Next]_vars => CountsInv'
  BY CountsStep
<1> QED
  BY <1>1, <1>2, TypeCorrect, RunnersUnblocked, NobodyEverWaits,
     LocksStayRegistered, PTL DEF Spec

(* The waiting count of a mutex is the number of threads blocked on it, in *)
(* a program that waits for no condition variable, whatever mutexes it     *)
(* initialises, destroys and initialises again.                            *)
THEOREM WaitingCounted == ASSUME NoWaits PROVE Spec => []WaitingExact
BY CountsHold, PTL DEF CountsInv

(* So the host object of a mutex outlives the threads blocked on it, which *)
(* is what the count is kept for.                                          *)
THEOREM WaitedMutexKept == ASSUME NoWaits PROVE Spec => []BlockedMutexExists
BY CountsHold, PTL DEF CountsInv
=============================================================================
