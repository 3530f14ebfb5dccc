-------------------------- MODULE MonitorRefinement --------------------------
(***************************************************************************)
(* The scheduler with its mutexes and condition variables implements       *)
(* PosixMonitor.                                                           *)
(***************************************************************************)
EXTENDS Environment

NoWait == [cond |-> NoCond]

(* A thread is in a wait while it is blocked on the condition variable, and*)
(* when its deadline is over while it is blocked on the mutex, by then the *)
(* mutex it was moved to. A wait that has its mutex is over, even if its   *)
(* host function has yet to return.                                        *)
WaitOf(t) ==
  LET c == inWait[t]
      w(phase, m) == [cond |-> c, mutex |-> m, timed |-> deadline[t] # "none",
                      phase |-> phase]
  IN  IF c = NoCond \/ blocked[t].on \notin {"cond", "mutex"} THEN NoWait
      ELSE IF blocked[t].on = "mutex" THEN w("late", blocked[t].obj)
      ELSE IF InQueue(cwaking[c], t) THEN w("signalled", cmutex[c])
      ELSE w("waiting", cmutex[c])

Monitor == INSTANCE PosixMonitor WITH
  has <- held,
  wait <- [t \in Threads |-> WaitOf(t)]

(* Whatever the scheduler does, no thread can tell its mutexes and         *)
(* condition variables from those of PosixMonitor: exclusion, no wake-up   *)
(* without a signal or a deadline, no return from a wait without the lock. *)
ImplementsMonitor == Monitor!Spec
=============================================================================
