------------------------------ MODULE GuestSem ------------------------------
(***************************************************************************)
(* The unnamed POSIX semaphores of src/libc/semaphore.rs with the two      *)
(* operations of Environment they are built from, sem_decrement and        *)
(* sem_increment. Mach semaphores are made of these as well.               *)
(***************************************************************************)
EXTENDS GuestObjects, Integers

CONSTANTS Open0,     (* the semaphores initialised (to 0) at the start     *)
          MaxValue   (* bound on the value of a semaphore                  *)

ASSUME SemAssumption == Open0 \in SUBSET Sems /\ MaxValue \in Nat

VARIABLES open,        (* keys of State.open_semaphores                    *)
          value,       (* SemaphoreHostObject.value                        *)
          semWaiting,  (* SemaphoreHostObject.waiting                      *)
          credit       (* history: what was put in, by sem_init and        *)
                       (* sem_post, less the waits that returned success   *)

semVars == <<open, value, semWaiting, credit>>

SemTypeOK ==
  /\ open \in SUBSET Sems
  /\ value \in [Sems -> Nat]
  /\ semWaiting \in [Sems -> SUBSET Threads]
  /\ credit \in [Sems -> Int]

SemInit ==
  /\ open = Open0
  /\ value = [s \in Sems |-> 0]
  /\ semWaiting = [s \in Sems |-> {}]
  /\ credit = [s \in Sems |-> 0]

(* sem_init does nothing to a semaphore that is already open.              *)
init_semaphore(s, v) ==
  /\ s \notin open
  /\ open' = open \cup {s}
  /\ value' = [value EXCEPT ![s] = v]
  /\ semWaiting' = [semWaiting EXCEPT ![s] = {}]
  /\ credit' = [credit EXCEPT ![s] = v]

(* sem_destroy forgets the host object, waiters or not.                    *)
destroy_semaphore(s) ==
  /\ s \in open
  /\ open' = open \ {s}
  /\ value' = [value EXCEPT ![s] = 0]
  /\ semWaiting' = [semWaiting EXCEPT ![s] = {}]
  /\ credit' = [credit EXCEPT ![s] = 0]

sem_increment(s) ==
  /\ s \in open
  /\ value[s] < MaxValue
  /\ value' = [value EXCEPT ![s] = @ + 1]
  /\ credit' = [credit EXCEPT ![s] = @ + 1]
  /\ UNCHANGED <<open, semWaiting>>

(* A decrement that need not wait: sem_wait and sem_trywait return 0.      *)
DecrementNow(s) ==
  /\ s \in open
  /\ value[s] > 0
  /\ value' = [value EXCEPT ![s] = @ - 1]
  /\ credit' = [credit EXCEPT ![s] = @ - 1]
  /\ UNCHANGED <<open, semWaiting>>

(* A decrement that must: the caller is recorded, and then yields.         *)
DecrementLater(t, s) ==
  /\ s \in open
  /\ value[s] = 0
  /\ semWaiting' = [semWaiting EXCEPT ![s] = @ \cup {t}]
  /\ UNCHANGED <<open, value, credit>>

(* Mutant: the thread stays in the set of the waiting.                     *)
MutWaiterKept(t, s) ==
  /\ s \in open
  /\ value[s] > 0
  /\ value' = [value EXCEPT ![s] = @ - 1]
  /\ credit' = [credit EXCEPT ![s] = @ - 1]
  /\ UNCHANGED <<open, semWaiting>>

(* Mutant: the waiter is woken without a decrement.                        *)
MutWaiterTakesNothing(t, s) ==
  /\ s \in open
  /\ value[s] > 0
  /\ semWaiting' = [semWaiting EXCEPT ![s] = @ \ {t}]
  /\ credit' = [credit EXCEPT ![s] = @ - 1]
  /\ UNCHANGED <<open, value>>

(* The scheduler decrements for a waiting thread, whose sem_wait returns 0.*)
DecrementForWaiter(t, s) ==
  /\ s \in open
  /\ value[s] > 0
  /\ value' = [value EXCEPT ![s] = @ - 1]
  /\ semWaiting' = [semWaiting EXCEPT ![s] = @ \ {t}]
  /\ credit' = [credit EXCEPT ![s] = @ - 1]
  /\ UNCHANGED open

(* The semaphore of a waiting thread is gone: sem_decrement returns true   *)
(* all the same, and sem_wait returns 0.                                   *)
DecrementOfMissing(s) ==
  /\ s \notin open
  /\ credit' = [credit EXCEPT ![s] = @ - 1]
  /\ UNCHANGED <<open, value, semWaiting>>
=============================================================================
