----------------------------- MODULE Environment -----------------------------
(***************************************************************************)
(* The guest threads of src/environment.rs and their scheduler, composed   *)
(* with the mutexes, condition variables and semaphores they block on.     *)
(*                                                                         *)
(* One host thread runs everything. A guest thread runs (pc = "guest"),    *)
(* calling the host as it likes, until a call blocks, its time slice ends  *)
(* or it finishes; then schedule_next_thread (pc = "scan") looks at the    *)
(* threads one by one, in round-robin order from the current one. A host   *)
(* call is one step up to the point where it yields; what is left of it is *)
(* a step of its own once the thread is scheduled again (Resume).          *)
(*                                                                         *)
(* Time is abstract: a deadline is ahead or over, and Tick makes it over.  *)
(***************************************************************************)
EXTENDS GuestMutex, GuestCond, GuestSem, FiniteSets

CONSTANTS NumThreads,   (* how many threads there can ever be              *)
          NoCond,       (* stands for "in no wait"                         *)
          Calls,        (* the host calls the guest program makes          *)
          WaitMutex,    (* the mutexes it uses with each condition variable*)
          CrossUnlock,  (* whether it unlocks NORMAL mutexes it has not    *)
                        (* locked                                          *)
          MaxSuspend    (* bound on suspend counts                         *)

ASSUME EnvironmentAssumption ==
  /\ NumThreads \in Nat \ {0}
  /\ Threads = 0..(NumThreads - 1)
  /\ NoCond \notin Conds
  /\ WaitMutex \in [Conds -> SUBSET Mutexes]
  /\ CrossUnlock \in BOOLEAN
  /\ MaxSuspend \in Nat

VARIABLES nthreads,   (* length of Environment.threads                     *)
          active,     (* the threads with Thread.active                    *)
          blocked,    (* Thread.blocked_by, below any Suspended            *)
          suspended,  (* the count of ThreadBlock::Suspended, 0 if it is   *)
                      (* not the outermost block                           *)
          deadline,   (* of the current sleep or timed wait: "none",       *)
                      (* "ahead" or "over"                                 *)
          inWait,     (* the condition variable whose wait function is on  *)
                      (* the thread's host stack                           *)
          joinedBy,   (* ThreadHostObject.joined_by                        *)
          detached,   (* threads with PTHREAD_CREATE_DETACHED              *)
          current,    (* Environment.current_thread                        *)
          pc,         (* "guest", "scan", or why the host panicked         *)
          scanned,    (* loop variable of schedule_next_thread             *)
          awakening,  (* whether next_awakening is set                     *)
          grace,      (* DEADLOCK_GRACE_COUNT                              *)
          held        (* history: locks less unlocks that each thread was  *)
                      (* told succeeded, per Guarded mutex                 *)

threadVars == <<nthreads, active, blocked, suspended, deadline, inWait,
                joinedBy, detached>>
schedVars == <<current, pc, scanned, awakening, grace>>
vars == <<mutexVars, condVars, semVars, threadVars, schedVars, held>>

-----------------------------------------------------------------------------
Ready == [on |-> "none", obj |-> Nobody]
Asleep == [on |-> "sleep", obj |-> Nobody]
On(kind, x) == [on |-> kind, obj |-> x]

Blocks == {Ready, Asleep}
            \cup [on : {"mutex"}, obj : Mutexes]
            \cup [on : {"cond"}, obj : Conds]
            \cup [on : {"sem"}, obj : Sems]
            \cup [on : {"join"}, obj : Threads]

(* Where the host can panic: the unwraps and assertions of the modelled    *)
(* code, and the scheduler's verdict that the program has deadlocked. The  *)
(* assertions that no behaviour violates (a mutex relocked while locked, a *)
(* thread timed out twice or in an untimed wait) are invariants instead.   *)
HostBugs == {"mutex missing", "cond missing", "cond unbound",
             "cond mutex differs", "cond busy"}
Panics == HostBugs \cup {"deadlock"}

MaxGrace == 3

ThreadTypeOK ==
  /\ nthreads \in 1..NumThreads
  /\ active \in SUBSET (0..(nthreads - 1))
  /\ blocked \in [Threads -> Blocks]
  /\ suspended \in [Threads -> Nat]
  /\ deadline \in [Threads -> {"none", "ahead", "over"}]
  /\ inWait \in [Threads -> Conds \cup {NoCond}]
  /\ joinedBy \in [Threads -> Threads \cup {Nobody}]
  /\ detached \in SUBSET Threads

SchedTypeOK ==
  /\ current \in 0..(nthreads - 1)
  /\ pc \in {"guest", "scan"} \cup Panics
  /\ scanned \in 0..nthreads
  /\ awakening \in BOOLEAN
  /\ grace \in 0..MaxGrace

(* Every variable has the type of the field it models; in particular the   *)
(* waiting counts never go below zero (u32 in the code), and the current   *)
(* thread and every active one are indices of Environment.threads.         *)
TypeOK ==
  /\ MutexTypeOK
  /\ CondTypeOK
  /\ SemTypeOK
  /\ ThreadTypeOK
  /\ SchedTypeOK
  /\ held \in [Threads -> [Mutexes -> Nat]]

Init ==
  /\ MutexInit
  /\ CondInit
  /\ SemInit
  /\ nthreads = 1
  /\ active = {0}
  /\ blocked = [t \in Threads |-> Ready]
  /\ suspended = [t \in Threads |-> 0]
  /\ deadline = [t \in Threads |-> "none"]
  /\ inWait = [t \in Threads |-> NoCond]
  /\ joinedBy = [t \in Threads |-> Nobody]
  /\ detached = {}
  /\ current = 0
  /\ pc = "guest"
  /\ scanned = 0
  /\ awakening = FALSE
  /\ grace = 0
  /\ held = [t \in Threads |-> [m \in Mutexes |-> 0]]

-----------------------------------------------------------------------------
(* Guest thread t runs guest code, and makes this call of the host.        *)
Running(t) == pc = "guest" /\ current = t /\ inWait[t] = NoCond
Call(t, name) == Running(t) /\ name \in Calls

(* schedule_next_thread starts a pass over the threads.                    *)
StartPass ==
  /\ pc' = "scan"
  /\ scanned' = 0
  /\ awakening' = FALSE
  /\ UNCHANGED <<current, grace>>

(* yield_thread: the current thread t is blocked on b.                     *)
Yield(t, b) ==
  /\ blocked' = [blocked EXCEPT ![t] = b]
  /\ StartPass

(* A panic ends the process; what it leaves behind does not matter.        *)
Panic(why) ==
  /\ pc' = why
  /\ UNCHANGED <<mutexVars, condVars, semVars, threadVars, current, scanned,
                 awakening, grace, held>>

(* The time slice of the current thread is used up.                        *)
Preempt ==
  /\ Running(current)
  /\ StartPass
  /\ UNCHANGED <<mutexVars, condVars, semVars, threadVars, held>>

Tick(t) ==
  /\ pc \in {"guest", "scan"}
  /\ deadline[t] = "ahead"
  /\ deadline' = [deadline EXCEPT ![t] = "over"]
  /\ UNCHANGED <<mutexVars, condVars, semVars, nthreads, active, blocked,
                 suspended, inWait, joinedBy, detached, schedVars, held>>

-----------------------------------------------------------------------------
(* Mutex calls.                                                            *)
(* The mutexes whose users keep the rules: those that check them, and the  *)
(* NORMAL ones of a program that only unlocks what it has locked.          *)
Guarded(m) == Kind[m] # "NORMAL" \/ ~CrossUnlock

Gain(t, m) == held' = [held EXCEPT ![t][m] = IF Guarded(m) THEN @ + 1 ELSE 0]
Lose(t, m) == held' = [held EXCEPT ![t][m] = IF @ > 0 THEN @ - 1 ELSE 0]

(* A guest that respects its NORMAL mutexes unlocks what it has locked.    *)
MayUnlock(t, m) == Kind[m] = "NORMAL" /\ Guarded(m) => held[t][m] > 0

(* Nothing refers to m yet, or any more: it can stand for the id that      *)
(* init_mutex counts up, which is always a new one.                        *)
Unreferenced(m) ==
  /\ m \notin table
  /\ \A t \in Threads : blocked[t] # On("mutex", m) /\ held[t][m] = 0
  /\ \A c \in Conds : cmutex[c] # m

pthread_mutex_init(t, m) ==
  /\ Call(t, "mutex_init")
  /\ Unreferenced(m)
  /\ init_mutex(m)
  /\ UNCHANGED <<condVars, semVars, threadVars, schedVars, held>>

pthread_mutex_lock(t, m) ==
  /\ Call(t, "mutex_lock")
  /\ Usable(m)
  /\ LockFree(t, m) \/ LockRecursive(t, m) \/ LockPhantom(t, m)
  /\ Gain(t, m)
  /\ UNCHANGED <<condVars, semVars, threadVars, schedVars>>

pthread_mutex_lock_blocks(t, m) ==
  /\ Call(t, "mutex_lock")
  /\ Usable(m)
  /\ LockContended(t, m)
  /\ Yield(t, On("mutex", m))
  /\ UNCHANGED <<condVars, semVars, nthreads, active, suspended, deadline,
                 inWait, joinedBy, detached, held>>

(* A locked mutex gives EBUSY, unless it is recursive and the caller's.    *)
pthread_mutex_trylock(t, m) ==
  /\ Call(t, "mutex_trylock")
  /\ Usable(m)
  /\ ~mutex_is_locked(m) \/ (Kind[m] = "RECURSIVE" /\ owner[m] = t)
  /\ LockFree(t, m) \/ LockRecursive(t, m)
  /\ Gain(t, m)
  /\ UNCHANGED <<condVars, semVars, threadVars, schedVars>>

pthread_mutex_unlock(t, m) ==
  /\ Call(t, "mutex_unlock")
  /\ Usable(m)
  /\ MayUnlock(t, m)
  /\ IF UnlockFails(t, m)
       THEN /\ Register(m)
            /\ UNCHANGED <<owner, depth, phantom, waiting, held>>
       ELSE unlock_mutex(t, m) /\ Lose(t, m)
  /\ UNCHANGED <<condVars, semVars, threadVars, schedVars>>

pthread_mutex_destroy(t, m) ==
  /\ Call(t, "mutex_destroy")
  /\ Usable(m)
  /\ destroy_mutex(m)
  /\ UNCHANGED <<condVars, semVars, threadVars, schedVars, held>>

-----------------------------------------------------------------------------
(* Condition variable calls.                                               *)
pthread_cond_init(t, c) ==
  /\ Call(t, "cond_init")
  /\ cond_init(c)
  /\ UNCHANGED <<mutexVars, semVars, threadVars, schedVars, held>>

(* pthread_cond_wait and pthread_cond_timedwait, up to the yield.          *)
CondWait(t, c, m, limit) ==
  /\ m \in WaitMutex[c]
  /\ Usable(m)
  /\ MayUnlock(t, m)
  /\ ~UnlockFails(t, m)
  /\ HasHostObject(c)
  /\ MutexAgrees(c, m)
  /\ unlock_mutex(t, m)
  /\ Lose(t, m)
  /\ cond_enqueue(t, c, m)
  /\ inWait' = [inWait EXCEPT ![t] = c]
  /\ deadline' = [deadline EXCEPT ![t] = limit]
  /\ Yield(t, On("cond", c))
  /\ UNCHANGED <<semVars, nthreads, active, suspended, joinedBy, detached>>

pthread_cond_wait(t, c, m) ==
  Call(t, "cond_wait") /\ CondWait(t, c, m, "none")

pthread_cond_timedwait(t, c, m) ==
  Call(t, "cond_timedwait") /\ CondWait(t, c, m, "ahead")

(* The wait functions return the error of a failed unlock. The condition   *)
(* variable has been registered by then, and so has a usable mutex.        *)
WaitRefused(t, c, m) ==
  /\ Running(t) /\ Calls \cap {"cond_wait", "cond_timedwait"} # {}
  /\ m \in WaitMutex[c]
  /\ \/ Usable(m) /\ UnlockFails(t, m) /\ Register(m)
     \/ ~Usable(m) /\ UNCHANGED <<magic, table>>
  /\ cstate' = [cstate EXCEPT ![c] = IF @ = "static" THEN "live" ELSE @]
  /\ UNCHANGED <<owner, depth, phantom, waiting, cwaiting, cwaking, cmutex,
                 ctimedout, semVars, threadVars, schedVars, held>>

WaitPanics(t, c, m) ==
  /\ Running(t) /\ Calls \cap {"cond_wait", "cond_timedwait"} # {}
  /\ m \in WaitMutex[c]
  /\ Usable(m)
  /\ MayUnlock(t, m)
  /\ ~UnlockFails(t, m)
  /\ \/ ~HasHostObject(c) /\ Panic("cond missing")
     \/ HasHostObject(c) /\ ~MutexAgrees(c, m) /\ Panic("cond mutex differs")

pthread_cond_signal(t, c) ==
  /\ Call(t, "cond_signal")
  /\ HasHostObject(c)
  /\ cond_signal(c)
  /\ UNCHANGED <<mutexVars, semVars, threadVars, schedVars, held>>

pthread_cond_broadcast(t, c) ==
  /\ Call(t, "cond_broadcast")
  /\ HasHostObject(c)
  /\ cond_broadcast(c)
  /\ UNCHANGED <<mutexVars, semVars, threadVars, schedVars, held>>

SignalPanics(t, c) ==
  /\ Running(t) /\ Calls \cap {"cond_signal", "cond_broadcast"} # {}
  /\ ~HasHostObject(c)
  /\ Panic("cond missing")

pthread_cond_destroy(t, c) ==
  /\ Call(t, "cond_destroy")
  /\ HasHostObject(c)
  /\ CanDestroyCond(c)
  /\ cond_destroy(c)
  /\ UNCHANGED <<mutexVars, semVars, threadVars, schedVars, held>>

CondDestroyPanics(t, c) ==
  /\ Call(t, "cond_destroy")
  /\ \/ ~HasHostObject(c) /\ Panic("cond missing")
     \/ HasHostObject(c) /\ ~CanDestroyCond(c) /\ Panic("cond busy")

(* The rest of a wait function, once its thread is scheduled again.        *)
Resume(t) ==
  LET c == inWait[t] IN
  /\ pc = "guest" /\ current = t /\ c # NoCond
  /\ cstate[c] = "live"
  /\ ctimedout' = [ctimedout EXCEPT ![c] = @ \ {t}]
  /\ inWait' = [inWait EXCEPT ![t] = NoCond]
  /\ deadline' = [deadline EXCEPT ![t] = "none"]
  /\ UNCHANGED <<mutexVars, cstate, cwaiting, cwaking, cmutex, semVars,
                 nthreads, active, blocked, suspended, joinedBy, detached,
                 schedVars, held>>

ResumePanics(t) ==
  LET c == inWait[t] IN
  /\ pc = "guest" /\ current = t /\ c # NoCond
  /\ cstate[c] # "live"
  /\ Panic("cond missing")

-----------------------------------------------------------------------------
(* Semaphore calls. Those on a semaphore that is not open return EINVAL.   *)
sem_init(t, s) ==
  /\ Call(t, "sem_init")
  /\ \E v \in 0..MaxValue : init_semaphore(s, v)
  /\ UNCHANGED <<mutexVars, condVars, threadVars, schedVars, held>>

sem_destroy(t, s) ==
  /\ Call(t, "sem_destroy")
  /\ destroy_semaphore(s)
  /\ UNCHANGED <<mutexVars, condVars, threadVars, schedVars, held>>

sem_post(t, s) ==
  /\ Call(t, "sem_post")
  /\ sem_increment(s)
  /\ UNCHANGED <<mutexVars, condVars, threadVars, schedVars, held>>

(* Also a sem_trywait that succeeds; one that fails changes nothing.       *)
sem_wait(t, s) ==
  /\ Call(t, "sem_wait")
  /\ DecrementNow(s)
  /\ UNCHANGED <<mutexVars, condVars, threadVars, schedVars, held>>

sem_wait_blocks(t, s) ==
  /\ Call(t, "sem_wait")
  /\ DecrementLater(t, s)
  /\ Yield(t, On("sem", s))
  /\ UNCHANGED <<mutexVars, condVars, nthreads, active, suspended, deadline,
                 inWait, joinedBy, detached, held>>

-----------------------------------------------------------------------------
(* Thread calls.                                                           *)
sleep(t) ==
  /\ Call(t, "sleep")
  /\ deadline' = [deadline EXCEPT ![t] = "ahead"]
  /\ Yield(t, Asleep)
  /\ UNCHANGED <<mutexVars, condVars, semVars, nthreads, active, suspended,
                 inWait, joinedBy, detached, held>>

(* new_thread, and for pthread_create_suspended_np suspend_thread.         *)
NewThread(t, count) ==
  /\ nthreads < NumThreads
  /\ nthreads' = nthreads + 1
  /\ active' = active \cup {nthreads}
  /\ suspended' = [suspended EXCEPT ![nthreads] = count]
  /\ UNCHANGED <<mutexVars, condVars, semVars, blocked, deadline, inWait,
                 joinedBy, detached, schedVars, held>>

pthread_create(t) == Call(t, "create") /\ NewThread(t, 0)

pthread_create_suspended_np(t) == Call(t, "create_suspended") /\ NewThread(t, 1)

(* A thread returns from its start routine, or calls pthread_exit there.   *)
(* The end of the main thread is the end of the app and is left out.       *)
FinishThread(t) ==
  /\ Call(t, "exit")
  /\ t # 0
  /\ active' = active \ {t}
  /\ StartPass
  /\ UNCHANGED <<mutexVars, condVars, semVars, nthreads, blocked, suspended,
                 deadline, inWait, joinedBy, detached, held>>

(* The main thread cannot be joined (ESRCH), nor the caller or a thread    *)
(* that has asked to join the caller (EDEADLK), nor a detached one.        *)
pthread_join(t, u) ==
  /\ Call(t, "join")
  /\ u \in 1..(nthreads - 1)
  /\ u # t
  /\ joinedBy[t] # u
  /\ u \notin detached
  /\ joinedBy' = [joinedBy EXCEPT ![u] = t]
  /\ Yield(t, On("join", u))
  /\ UNCHANGED <<mutexVars, condVars, semVars, nthreads, active, suspended,
                 deadline, inWait, detached, held>>

pthread_detach(t, u) ==
  /\ Call(t, "detach")
  /\ u \in 1..(nthreads - 1)
  /\ u \notin detached
  /\ detached' = detached \cup {u}
  /\ UNCHANGED <<mutexVars, condVars, semVars, nthreads, active, blocked,
                 suspended, deadline, inWait, joinedBy, schedVars, held>>

(* The mach calls of the same names. A thread that suspends itself yields. *)
suspend_thread(t, u) ==
  /\ Call(t, "suspend")
  /\ u \in 0..(nthreads - 1)
  /\ suspended[u] < MaxSuspend
  /\ suspended' = [suspended EXCEPT ![u] = @ + 1]
  /\ IF u = t THEN StartPass ELSE UNCHANGED schedVars
  /\ UNCHANGED <<mutexVars, condVars, semVars, nthreads, active, blocked,
                 deadline, inWait, joinedBy, detached, held>>

resume_thread(t, u) ==
  /\ Call(t, "resume")
  /\ u \in 0..(nthreads - 1)
  /\ suspended[u] > 0
  /\ suspended' = [suspended EXCEPT ![u] = @ - 1]
  /\ UNCHANGED <<mutexVars, condVars, semVars, nthreads, active, blocked,
                 deadline, inWait, joinedBy, detached, schedVars, held>>

-----------------------------------------------------------------------------
(* Mutants: the loop starts with the current thread, or with the first.    *)
MutFromCurrent == (current + scanned) % nthreads
MutFromFirst == scanned % nthreads

(* schedule_next_thread: one step per thread looked at, one action per arm *)
(* of the match.                                                           *)
Candidate == (current + 1 + scanned) % nthreads

Scanning(u) == pc = "scan" /\ scanned < nthreads /\ u = Candidate

(* Mutant: a suspended thread is woken like another.                       *)
MutLookingAtSuspended(u, kind) ==
  Scanning(u) /\ u \in active /\ blocked[u].on = kind

(* The arms of a thread that is neither finished nor suspended.            *)
Looking(u, kind) ==
  /\ Scanning(u)
  /\ u \in active
  /\ suspended[u] = 0
  /\ blocked[u].on = kind

(* The candidate is unblocked and becomes the current thread.              *)
Wake(u) ==
  /\ blocked' = [blocked EXCEPT ![u] = Ready]
  /\ current' = u
  /\ pc' = "guest"
  /\ scanned' = 0
  /\ awakening' = FALSE
  /\ UNCHANGED grace

(* The candidate stays blocked; with a deadline, next_awakening is set.    *)
Pass(timed) ==
  /\ scanned' = scanned + 1
  /\ awakening' = (awakening \/ timed)
  /\ UNCHANGED <<current, pc, grace>>

PassOver(timed) ==
  /\ Pass(timed)
  /\ UNCHANGED <<mutexVars, condVars, semVars, threadVars, held>>

ScanIdle(u) ==
  /\ Scanning(u)
  /\ u \notin active \/ suspended[u] > 0
  /\ PassOver(FALSE)

ScanReady(u) ==
  /\ Looking(u, "none")
  /\ Wake(u)
  /\ UNCHANGED <<mutexVars, condVars, semVars, nthreads, active, suspended,
                 deadline, inWait, joinedBy, detached, held>>

(* Mutant: next_awakening is not set.                                      *)
MutSleepUnannounced(u) ==
  /\ Looking(u, "sleep")
  /\ IF deadline[u] = "over"
       THEN /\ Wake(u)
            /\ deadline' = [deadline EXCEPT ![u] = "none"]
            /\ UNCHANGED <<mutexVars, condVars, semVars, nthreads, active,
                           suspended, inWait, joinedBy, detached, held>>
       ELSE PassOver(FALSE)

ScanSleeping(u) ==
  /\ Looking(u, "sleep")
  /\ IF deadline[u] = "over"
       THEN /\ Wake(u)
            /\ deadline' = [deadline EXCEPT ![u] = "none"]
            /\ UNCHANGED <<mutexVars, condVars, semVars, nthreads, active,
                           suspended, inWait, joinedBy, detached, held>>
       ELSE PassOver(TRUE)

(* The candidate gets its mutex and becomes current; or the mutex is gone. *)
WakeWithMutex(u, m) ==
  /\ CanRelock(m)
  /\ relock_unblocked_mutex(u, m)
  /\ Gain(u, m)
  /\ Wake(u)

ScanMutex(u) ==
  LET m == blocked[u].obj IN
  /\ Looking(u, "mutex")
  /\ \/ /\ ~mutex_is_locked(m)
        /\ WakeWithMutex(u, m)
        /\ UNCHANGED <<condVars, semVars, nthreads, active, suspended,
                       deadline, inWait, joinedBy, detached>>
     \/ m \notin table /\ Panic("mutex missing")
     \/ mutex_is_locked(m) /\ PassOver(FALSE)

(* Mutant: a thread whose semaphore is gone stays blocked.                 *)
MutSemaphoreGone(u) ==
  LET s == blocked[u].obj IN
  /\ Looking(u, "sem")
  /\ \/ /\ DecrementForWaiter(u, s)
        /\ Wake(u)
        /\ UNCHANGED <<mutexVars, condVars, nthreads, active, suspended,
                       deadline, inWait, joinedBy, detached, held>>
     \/ (s \in open => value[s] = 0) /\ PassOver(FALSE)

ScanSemaphore(u) ==
  LET s == blocked[u].obj IN
  /\ Looking(u, "sem")
  /\ \/ /\ DecrementForWaiter(u, s) \/ DecrementOfMissing(s)
        /\ Wake(u)
        /\ UNCHANGED <<mutexVars, condVars, nthreads, active, suspended,
                       deadline, inWait, joinedBy, detached, held>>
     \/ s \in open /\ value[s] = 0 /\ PassOver(FALSE)

(* Mutant: only the last thread that joined another is woken by its end.   *)
MutJoinLast(u) ==
  /\ Looking(u, "join")
  /\ IF blocked[u].obj \notin active /\ joinedBy[blocked[u].obj] = u
       THEN /\ Wake(u)
            /\ UNCHANGED <<mutexVars, condVars, semVars, nthreads, active,
                           suspended, deadline, inWait, joinedBy, detached,
                           held>>
       ELSE PassOver(FALSE)

ScanJoining(u) ==
  /\ Looking(u, "join")
  /\ IF blocked[u].obj \notin active
       THEN /\ Wake(u)
            /\ UNCHANGED <<mutexVars, condVars, semVars, nthreads, active,
                           suspended, deadline, inWait, joinedBy, detached,
                           held>>
       ELSE PassOver(FALSE)

-----------------------------------------------------------------------------
(* The arm of a thread that waits for a condition variable.                *)
WaitingFor(u, c) == Looking(u, "cond") /\ c = blocked[u].obj

Signalled(u, c) == NextToWake(c, u) /\ ~mutex_is_locked(cmutex[c])

ScanCondPanics(u, c) ==
  /\ WaitingFor(u, c)
  /\ \/ cstate[c] # "live" /\ Panic("cond missing")
     \/ cstate[c] = "live" /\ cmutex[c] = Nobody /\ Panic("cond unbound")
     \/ /\ cstate[c] = "live" /\ cmutex[c] \in Mutexes \ table
        /\ Signalled(u, c) \/ deadline[u] = "over"
        /\ Panic("mutex missing")

ScanCondSignalled(u, c) ==
  /\ WaitingFor(u, c)
  /\ cstate[c] = "live" /\ cmutex[c] # Nobody
  /\ Signalled(u, c)
  /\ cond_wake(c)
  /\ WakeWithMutex(u, cmutex[c])
  /\ UNCHANGED <<semVars, nthreads, active, suspended, deadline, inWait,
                 joinedBy, detached>>

(* Past its deadline the candidate leaves the queues, signalled or not.    *)
TimesOut(u, c) ==
  /\ WaitingFor(u, c)
  /\ cstate[c] = "live" /\ cmutex[c] # Nobody
  /\ ~Signalled(u, c)
  /\ deadline[u] = "over"
  /\ cond_time_out(c, u)

(* Mutant: the candidate runs without its mutex.                           *)
MutTimesOutUnlocked(u, c) ==
  /\ TimesOut(u, c)
  /\ Wake(u)
  /\ UNCHANGED <<mutexVars, semVars, nthreads, active, suspended, deadline,
                 inWait, joinedBy, detached, held>>

ScanCondTimesOut(u, c) ==
  /\ TimesOut(u, c)
  /\ WakeWithMutex(u, cmutex[c])
  /\ UNCHANGED <<semVars, nthreads, active, suspended, deadline, inWait,
                 joinedBy, detached>>

(* The mutex is locked: the candidate waits for it, uncounted, from now on.*)
ScanCondTimesOutLocked(u, c) ==
  /\ TimesOut(u, c)
  /\ mutex_is_locked(cmutex[c])
  /\ blocked' = [blocked EXCEPT ![u] = On("mutex", cmutex[c])]
  /\ Pass(FALSE)
  /\ UNCHANGED <<mutexVars, semVars, nthreads, active, suspended, deadline,
                 inWait, joinedBy, detached, held>>

ScanCondStays(u, c) ==
  /\ WaitingFor(u, c)
  /\ cstate[c] = "live" /\ cmutex[c] # Nobody
  /\ ~Signalled(u, c)
  /\ deadline[u] # "over"
  /\ PassOver(deadline[u] = "ahead")

-----------------------------------------------------------------------------
(* The end of a pass that found no thread to run: sleep until the next     *)
(* awakening, or give the program three chances before the panic.          *)
EndOfPass == pc = "scan" /\ scanned = nthreads

SleepTillAwakening ==
  /\ EndOfPass
  /\ awakening
  /\ StartPass
  /\ UNCHANGED <<mutexVars, condVars, semVars, threadVars, held>>

(* Mutant: the retries are not counted.                                    *)
MutGraceUncounted ==
  /\ EndOfPass
  /\ ~awakening
  /\ scanned' = 0
  /\ UNCHANGED <<mutexVars, condVars, semVars, threadVars, current, pc,
                 awakening, grace, held>>

GracePeriod ==
  /\ EndOfPass
  /\ ~awakening
  /\ grace < MaxGrace
  /\ grace' = grace + 1
  /\ scanned' = 0
  /\ UNCHANGED <<mutexVars, condVars, semVars, threadVars, current, pc,
                 awakening, held>>

DeclareDeadlock ==
  /\ EndOfPass
  /\ ~awakening
  /\ grace = MaxGrace
  /\ Panic("deadlock")

-----------------------------------------------------------------------------
MutexCalls(t, m) ==
  \/ pthread_mutex_init(t, m)
  \/ pthread_mutex_lock(t, m)
  \/ pthread_mutex_lock_blocks(t, m)
  \/ pthread_mutex_trylock(t, m)
  \/ pthread_mutex_unlock(t, m)
  \/ pthread_mutex_destroy(t, m)

WaitCalls(t, c, m) ==
  \/ pthread_cond_wait(t, c, m)
  \/ pthread_cond_timedwait(t, c, m)
  \/ WaitRefused(t, c, m)
  \/ WaitPanics(t, c, m)

CondCalls(t, c) ==
  \/ pthread_cond_init(t, c)
  \/ pthread_cond_signal(t, c)
  \/ pthread_cond_broadcast(t, c)
  \/ SignalPanics(t, c)
  \/ pthread_cond_destroy(t, c)
  \/ CondDestroyPanics(t, c)

SemCalls(t, s) ==
  \/ sem_init(t, s)
  \/ sem_destroy(t, s)
  \/ sem_post(t, s)
  \/ sem_wait(t, s)
  \/ sem_wait_blocks(t, s)

ThreadCalls(t) ==
  \/ Resume(t)
  \/ ResumePanics(t)
  \/ sleep(t)
  \/ pthread_create(t)
  \/ pthread_create_suspended_np(t)
  \/ FinishThread(t)

ThreadPairCalls(t, u) ==
  \/ pthread_join(t, u)
  \/ pthread_detach(t, u)
  \/ suspend_thread(t, u)
  \/ resume_thread(t, u)

Guest ==
  \E t \in Threads :
    \/ \E m \in Mutexes : MutexCalls(t, m)
    \/ \E c \in Conds, m \in Mutexes : WaitCalls(t, c, m)
    \/ \E c \in Conds : CondCalls(t, c)
    \/ \E s \in Sems : SemCalls(t, s)
    \/ ThreadCalls(t)
    \/ \E u \in Threads : ThreadPairCalls(t, u)

ScanThread(u) ==
  \/ ScanIdle(u)
  \/ ScanReady(u)
  \/ ScanSleeping(u)
  \/ ScanMutex(u)
  \/ ScanSemaphore(u)
  \/ ScanJoining(u)

ScanWaiter(u, c) ==
  \/ ScanCondPanics(u, c)
  \/ ScanCondSignalled(u, c)
  \/ ScanCondTimesOut(u, c)
  \/ ScanCondTimesOutLocked(u, c)
  \/ ScanCondStays(u, c)

Scheduler ==
  \/ \E u \in Threads : ScanThread(u)
  \/ \E u \in Threads, c \in Conds : ScanWaiter(u, c)
  \/ SleepTillAwakening
  \/ GracePeriod
  \/ DeclareDeadlock

Next == Guest \/ Preempt \/ Scheduler \/ (\E t \in Threads : Tick(t))

Spec == Init /\ [][Next]_vars

-----------------------------------------------------------------------------
(***************************************************************************)
(* Safety.                                                                 *)
(***************************************************************************)

(* What a thread has been told about a mutex agrees with the host's        *)
(* records: its locks less its unlocks are its real lock count and its     *)
(* phantom locks, through every wait, wake-up and timeout.                 *)
LockAccounting ==
  \A t \in Threads, m \in Mutexes :
    Guarded(m) =>
      held[t][m] = (IF owner[m] = t THEN depth[m] ELSE 0) + phantom[t][m]

(* Two threads never both believe that they hold a mutex: not after a      *)
(* signal, a timeout, a phantom lock, a thread's end with it locked, or    *)
(* when its address is initialised again meanwhile, which makes another    *)
(* mutex of the address and must not set the first one free.               *)
MutualExclusion ==
  \A m \in Mutexes : Guarded(m) =>
    \A t, u \in Threads : held[t][m] > 0 /\ held[u][m] > 0 => t = u

(* A thread is on the queues of a condition variable exactly while it is   *)
(* blocked on it, and at most once, so a signal is neither lost nor spent  *)
(* twice (in a program that does not reinitialise one in use).             *)
QueuesExact ==
  \A c \in Conds :
    LET q == cwaiting[c] \o cwaking[c] IN
    /\ \A i, j \in 1..Len(q) : q[i] = q[j] => i = j
    /\ \A t \in Threads :
         InQueue(q, t) <=> blocked[t] = On("cond", c)

(* A thread blocked on a mutex finds it in the table when it is scheduled, *)
(* as the waiting count is there to ensure (lock_mutex).                   *)
BlockedMutexExists ==
  \A t \in Threads : blocked[t].on = "mutex" => blocked[t].obj \in table

(* The waiting count is the number of threads blocked on the mutex.        *)
WaitingExact ==
  \A m \in Mutexes :
    waiting[m] = Cardinality({t \in Threads : blocked[t] = On("mutex", m)})

(* No host panic but the verdict of a deadlock.                            *)
NoHostBug == pc \notin HostBugs

(* The threads an open semaphore records as waiting are those blocked on   *)
(* it, so that sem_getvalue counts them.                                   *)
SemWaitersExact ==
  \A s \in open :
    semWaiting[s] = {t \in Threads : blocked[t] = On("sem", s)}

(* Waits that returned success never outnumber what was put in.            *)
SemConservation ==
  \A s \in Sems : credit[s] >= 0 /\ (s \in open => credit[s] = value[s])

(* What the scheduler would have to find to run thread t.                  *)
CanRun(t) ==
  LET b == blocked[t] IN
  /\ t \in active
  /\ suspended[t] = 0
  /\ \/ b.on = "none"
     \/ b.on = "sleep"
     \/ b.on = "mutex" /\ ~mutex_is_locked(b.obj)
     \/ b.on = "sem" /\ (b.obj \in open => value[b.obj] > 0)
     \/ b.on = "join" /\ b.obj \notin active
     \/ b.on = "cond" /\ (deadline[t] # "none" \/ Signalled(t, b.obj))

(* The panic "No active threads, program has deadlocked!" is never wrong:  *)
(* no thread could be run then, at once or after its deadline.             *)
DeadlockIsReal == pc = "deadlock" => \A t \in Threads : ~CanRun(t)

(* The current thread runs guest code only while it is neither finished,   *)
(* nor suspended, nor blocked: the assertions of yield_thread and          *)
(* switch_thread, whatever suspends, resumes and ends while it is away.    *)
RunsUnblocked ==
  pc = "guest" => /\ current \in active
                  /\ suspended[current] = 0
                  /\ blocked[current] = Ready

(* Two threads never both believe that they hold the mutex at an address.  *)
AddressExclusive ==
  \A m, n \in Mutexes : Guarded(m) /\ Guarded(n) /\ Address[m] = Address[n] =>
    \A t, u \in Threads : held[t][m] > 0 /\ held[u][n] > 0 => t = u

(* A mutex that a thread holds can still be unlocked: "the mutex is not    *)
(* destroyed on an Err return" of destroy_mutex.                           *)
HeldMutexUsable ==
  \A t \in Threads, m \in Mutexes : held[t][m] > 0 => Usable(m)

(* No threads wait for each other's end in a circle: pthread_join keeps    *)
(* the callers of join_with_thread from "deadlocking joins".               *)
NoJoinCircle ==
  \A S \in SUBSET Threads \ {{}} :
    \E t \in S : \A u \in S : blocked[t] # On("join", u)

(***************************************************************************)
(* Action properties.                                                      *)
(***************************************************************************)

(* Once a pass has found nothing to run or to wait for, no thread runs     *)
(* again: the retries before the deadlock panic never change its verdict.  *)
StuckForGood == [][grace > 0 => pc' # "guest"]_vars

(* A thread stops being blocked on a condition variable by a signal, in    *)
(* the order of the signals, or by its deadline being over, in which case  *)
(* it is recorded as timed out, even if it had been signalled; never for   *)
(* another reason (there are no spurious wake-ups).                        *)
WaitEnds ==
  [][\A t \in Threads : blocked[t].on = "cond" /\ blocked'[t] # blocked[t] =>
       LET c == blocked[t].obj IN
       \/ NextToWake(c, t) /\ cwaking'[c] = Tail(cwaking[c])
       \/ deadline[t] = "over" /\ t \in ctimedout'[c]]_vars

(***************************************************************************)
(* Liveness, under the fairness of one host thread that keeps running: a   *)
(* slice ends after a number of ticks, the scheduler's loop and the host   *)
(* functions go on, and time passes.                                       *)
(***************************************************************************)
Fairness ==
  /\ WF_vars(Preempt)
  /\ WF_vars(Scheduler)
  /\ \A t \in Threads : WF_vars(Resume(t)) /\ WF_vars(Tick(t))

FairSpec == Spec /\ Fairness

Halted == pc \in Panics

Runs(t) == current = t /\ pc = "guest"

(* Round robin: a thread that can run, or will when it has slept, is run,  *)
(* unless it is suspended, even if the other threads never block.          *)
ReadyThreadRuns ==
  \A t \in Threads :
    (t \in active /\ blocked[t] \in {Ready, Asleep})
      ~> (Runs(t) \/ suspended[t] > 0 \/ Halted)

(* A timed wait leaves its condition variable once its deadline is over,   *)
(* signalled or not, and whether or not its mutex is free.                 *)
TimedWaitEnds ==
  \A t \in Threads :
    (blocked[t].on = "cond" /\ deadline[t] = "over")
      ~> (blocked[t].on # "cond" \/ suspended[t] > 0 \/ Halted)

(* A program with nothing to run and nothing to wait for is told so.       *)
DeadlockFound ==
  (pc = "scan" /\ \A t \in Threads : ~CanRun(t)) ~> Halted

(* A join ends after the joined thread does.                               *)
JoinEnds ==
  \A t, u \in Threads :
    (blocked[t] = On("join", u) /\ u \notin active)
      ~> (Runs(t) \/ suspended[t] > 0 \/ Halted)
=============================================================================
