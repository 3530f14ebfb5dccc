----------------------------- MODULE GuestMutex -----------------------------
(***************************************************************************)
(* The mutexes of the guest program: the host table MutexState of          *)
(* src/environment/mutex.rs and the guest structure pthread_mutex_t that   *)
(* src/libc/pthread/mutex.rs keeps in guest memory.                        *)
(*                                                                         *)
(* A mutex here is what one pthread_mutex_init makes: a host object with   *)
(* its id, and the guest structure at Address[m] while that names the id.  *)
(* To initialise an address again, in use or not, is to overwrite the      *)
(* structure of one mutex by that of another; the host object of the first *)
(* stays in the table, with its owner and the threads blocked on it.       *)
(*                                                                         *)
(* Each operator describes what one path through the code does to this     *)
(* module's variables; blocking and waking are added by Environment.       *)
(***************************************************************************)
EXTENDS GuestObjects, Naturals

CONSTANTS Address,   (* where the guest has the structure of each mutex    *)
          Kind,      (* the type each mutex is initialised with            *)
          Magic0,    (* "BAD" for a mutex that its address does not name   *)
                     (* at start                                           *)
          MaxDepth   (* bound on lock counts and on phantom locks          *)

MutexKinds == {"NORMAL", "ERRORCHECK", "RECURSIVE"}

(* The first word of the structure, as long as the structure is that of    *)
(* this mutex: MAGIC_MUTEX_STATIC, MAGIC_MUTEX, or anything else.          *)
Magics == {"STATIC", "MUTX", "BAD"}

ASSUME MutexAssumption ==
  /\ DOMAIN Address = Mutexes
  /\ Kind \in [Mutexes -> MutexKinds]
  /\ Magic0 \in [Mutexes -> Magics]
  (* PTHREAD_MUTEX_INITIALIZER registers a PTHREAD_MUTEX_DEFAULT mutex.    *)
  /\ \A m \in Mutexes : Magic0[m] = "STATIC" => Kind[m] = "NORMAL"
  /\ \A m, n \in Mutexes :
       m # n /\ Address[m] = Address[n] => "BAD" \in {Magic0[m], Magic0[n]}
  /\ MaxDepth \in Nat \ {0}

VARIABLES magic,     (* pthread_mutex_t.magic                              *)
          table,     (* keys of MutexState.mutexes                         *)
          owner,     (* thread of Mutex.locked, Nobody for None            *)
          depth,     (* lock count of Mutex.locked                         *)
          phantom,   (* Mutex.phantom_locks                                *)
          waiting    (* Mutex.waiting_count                                *)

mutexVars == <<magic, table, owner, depth, phantom, waiting>>

MutexTypeOK ==
  /\ magic \in [Mutexes -> Magics]
  /\ table \in SUBSET Mutexes
  /\ owner \in [Mutexes -> Threads \cup {Nobody}]
  /\ depth \in [Mutexes -> Nat]
  /\ phantom \in [Threads -> [Mutexes -> Nat]]
  /\ waiting \in [Mutexes -> Nat]

MutexInit ==
  /\ magic = Magic0
  /\ table = {m \in Mutexes : Magic0[m] = "MUTX"}
  /\ owner = [m \in Mutexes |-> Nobody]
  /\ depth = [m \in Mutexes |-> 0]
  /\ phantom = [t \in Threads |-> [m \in Mutexes |-> 0]]
  /\ waiting = [m \in Mutexes |-> 0]

-----------------------------------------------------------------------------
(* check_or_register_mutex succeeds on these; every caller returns EINVAL  *)
(* on the others, changing nothing.                                        *)
Usable(m) == magic[m] \in {"STATIC", "MUTX"}

(* The registration check_or_register_mutex does at the first use.         *)
Register(m) ==
  /\ magic' = [magic EXCEPT ![m] = "MUTX"]
  /\ table' = table \cup {m}

mutex_is_locked(m) == m \in table /\ owner[m] # Nobody

(* pthread_mutex_init: a new, unlocked host object. Its address no longer  *)
(* leads to the one it named before.                                       *)
init_mutex(m) ==
  /\ magic' = [n \in Mutexes |-> IF n = m THEN "MUTX"
                                ELSE IF Address[n] = Address[m] THEN "BAD"
                                ELSE magic[n]]
  /\ table' = table \cup {m}
  /\ owner' = [owner EXCEPT ![m] = Nobody]
  /\ depth' = [depth EXCEPT ![m] = 0]
  /\ phantom' = [t \in Threads |-> [phantom[t] EXCEPT ![m] = 0]]
  /\ waiting' = [waiting EXCEPT ![m] = 0]

-----------------------------------------------------------------------------
(* The paths of lock_mutex. An ERRORCHECK mutex locked by the caller gives *)
(* EDEADLK and has no path here: nothing changes.                          *)
LockFree(t, m) ==
  /\ owner[m] = Nobody
  /\ owner' = [owner EXCEPT ![m] = t]
  /\ depth' = [depth EXCEPT ![m] = 1]
  /\ Register(m)
  /\ UNCHANGED <<phantom, waiting>>

LockRecursive(t, m) ==
  /\ owner[m] = t
  /\ Kind[m] = "RECURSIVE"
  /\ depth[m] < MaxDepth
  /\ depth' = [depth EXCEPT ![m] = @ + 1]
  /\ UNCHANGED <<magic, table, owner, phantom, waiting>>

LockPhantom(t, m) ==
  /\ owner[m] = t
  /\ Kind[m] = "NORMAL"
  /\ phantom[t][m] < MaxDepth
  /\ phantom' = [phantom EXCEPT ![t][m] = @ + 1]
  /\ UNCHANGED <<magic, table, owner, depth, waiting>>

(* The lock is another thread's: the caller joins the waiting count, and   *)
(* then yields.                                                            *)
LockContended(t, m) ==
  /\ owner[m] \notin {t, Nobody}
  /\ waiting' = [waiting EXCEPT ![m] = @ + 1]
  /\ UNCHANGED <<magic, table, owner, depth, phantom>>

(* relock_unblocked_mutex_for_thread, when neither its unwrap nor its      *)
(* assertion fails.                                                        *)
CanRelock(m) == m \in table /\ owner[m] = Nobody

(* Mutant: the waiting count is left alone.                                *)
MutRelockStillCounted(t, m) ==
  /\ owner' = [owner EXCEPT ![m] = t]
  /\ depth' = [depth EXCEPT ![m] = 1]
  /\ UNCHANGED <<magic, table, phantom, waiting>>

(* Mutant: the waiting count is decremented without a look at it.          *)
MutRelockUnderflow(t, m) ==
  /\ owner' = [owner EXCEPT ![m] = t]
  /\ depth' = [depth EXCEPT ![m] = 1]
  /\ waiting' = [waiting EXCEPT ![m] = @ - 1]
  /\ UNCHANGED <<magic, table, phantom>>

relock_unblocked_mutex(t, m) ==
  /\ owner' = [owner EXCEPT ![m] = t]
  /\ depth' = [depth EXCEPT ![m] = 1]
  /\ waiting' = [waiting EXCEPT ![m] = IF @ > 0 THEN @ - 1 ELSE 0]
  /\ UNCHANGED <<magic, table, phantom>>

-----------------------------------------------------------------------------
(* Mutant: every type of mutex may be unlocked by any thread.              *)
MutUnlockByAnyone(t, m) == phantom[t][m] = 0 /\ owner[m] = Nobody

(* unlock_mutex returns EPERM and changes nothing; a static mutex is       *)
(* still registered by its caller.                                         *)
UnlockFails(t, m) ==
  /\ phantom[t][m] = 0
  /\ \/ owner[m] = Nobody
     \/ owner[m] # t /\ Kind[m] # "NORMAL"

(* Mutant: the phantom lock is not used up by its unlock.                  *)
MutPhantomKept(t, m) == phantom[t][m] > 0 /\ UNCHANGED mutexVars

UnlockPhantom(t, m) ==
  /\ phantom[t][m] > 0
  /\ phantom' = [phantom EXCEPT ![t][m] = @ - 1]
  /\ UNCHANGED <<magic, table, owner, depth, waiting>>

(* The last level of the lock sets it free, whoever it belongs to.         *)
UnlockReal(t, m) ==
  /\ phantom[t][m] = 0
  /\ ~UnlockFails(t, m)
  /\ depth' = [depth EXCEPT ![m] = @ - 1]
  /\ owner' = [owner EXCEPT ![m] = IF depth[m] = 1 THEN Nobody ELSE @]
  /\ UNCHANGED <<magic, table, phantom, waiting>>

unlock_mutex(t, m) == UnlockPhantom(t, m) \/ UnlockReal(t, m)

-----------------------------------------------------------------------------
(* Mutant: only a locked mutex is refused.                                 *)
MutDestroyFailsIfLocked(m) == owner[m] # Nobody

(* destroy_mutex refuses (EBUSY) a mutex that is locked or waited for.     *)
DestroyFails(m) == owner[m] # Nobody \/ waiting[m] # 0

(* pthread_mutex_destroy overwrites the structure before it asks the host  *)
(* to destroy the mutex, and does not restore it when that fails.          *)
destroy_mutex(m) ==
  /\ magic' = [magic EXCEPT ![m] = "BAD"]
  /\ IF DestroyFails(m)
       THEN UNCHANGED <<table, phantom>>
       ELSE /\ table' = table \ {m}
            /\ phantom' = [t \in Threads |-> [phantom[t] EXCEPT ![m] = 0]]
  /\ UNCHANGED <<owner, depth, waiting>>
=============================================================================
