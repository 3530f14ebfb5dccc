---------------------------- MODULE MCEnvironment ----------------------------
(***************************************************************************)
(* Constants for model checking Environment: which objects an instance     *)
(* has, and which calls its guest program makes.                           *)
(***************************************************************************)
EXTENDS MonitorRefinement

CONSTANTS m1, m2, m3, c1, s1   \* model values: mutexes, and one other each

Threads2 == 0..1
Threads3 == 0..2

NoObjects == {}

OneMutex == {m1}
TwoMutexes == {m1, m2}
ThreeMutexes == {m1, m2, m3}

(* Mutexes with an address each, and initialisations of one address.       *)
OwnAddress == [m \in Mutexes |-> m]
OneAddress == [m \in Mutexes |-> m1]

NormalKind == [m \in Mutexes |-> "NORMAL"]
MixedKinds == [m \in Mutexes |-> IF m = m1 THEN "NORMAL" ELSE "RECURSIVE"]
CheckedKinds == [m \in Mutexes |-> IF m = m1 THEN "NORMAL" ELSE "ERRORCHECK"]

StaticMagic == [m \in Mutexes |-> "STATIC"]
RawMagic == [m \in Mutexes |-> "BAD"]

EveryMutex == [c \in Conds |-> Mutexes]

Locking == {"mutex_lock", "mutex_trylock", "mutex_unlock"}
Waiting == {"cond_wait", "cond_timedwait", "cond_signal", "cond_broadcast"}

MutexCallSet == Locking \cup
  {"mutex_init", "mutex_destroy", "create", "create_suspended", "resume", "detach", "exit"}
MonitorCallSet == Locking \cup Waiting \cup {"create"}
ThreadCallSet == {"create", "exit", "join", "suspend", "resume", "sleep",
                  "sem_wait", "sem_post"}
MonitorDestroyCallSet == MonitorCallSet \cup {"mutex_destroy"}
MonitorSuspendCallSet == MonitorCallSet \cup {"suspend", "resume"}
MisuseCallSet == Locking \cup Waiting \cup
  {"create", "mutex_init", "mutex_destroy", "cond_init", "cond_destroy",
   "sem_init", "sem_destroy", "sem_wait", "sem_post"}
=============================================================================
