---------------------------- MODULE PosixMonitor ----------------------------
(***************************************************************************)
(* What mutexes and condition variables promise to a program that keeps    *)
(* the rules, with no queues, waiting counts or scheduler: a lock is one   *)
(* thread's at a time; a wait gives one lock up and ends after a signal or *)
(* a deadline only, with the lock taken again. A late thread may use up a  *)
(* signal, and which of the waiting threads a signal wakes is left open.   *)
(***************************************************************************)
EXTENDS Naturals

CONSTANTS Threads, Mutexes, Conds, NoWait

Waits == [cond : Conds, mutex : Mutexes, timed : BOOLEAN,
          phase : {"waiting", "signalled", "late"}]

VARIABLES has,    (* how often each thread has each mutex                  *)
          wait    (* the wait each thread is in                            *)

vars == <<has, wait>>

Init ==
  /\ has = [t \in Threads |-> [m \in Mutexes |-> 0]]
  /\ wait = [t \in Threads |-> NoWait]

Others(t, m) == {u \in Threads \ {t} : has[u][m] > 0}

Lock(t, m) ==
  /\ wait[t] = NoWait /\ Others(t, m) = {}
  /\ has' = [has EXCEPT ![t][m] = @ + 1]
  /\ UNCHANGED wait

Unlock(t, m) ==
  /\ wait[t] = NoWait /\ has[t][m] > 0
  /\ has' = [has EXCEPT ![t][m] = @ - 1]
  /\ UNCHANGED wait

Wait(t, c, m, timed) ==
  /\ wait[t] = NoWait /\ has[t][m] > 0
  /\ has' = [has EXCEPT ![t][m] = @ - 1]
  /\ wait' = [wait EXCEPT ![t] = [cond |-> c, mutex |-> m, timed |-> timed,
                                  phase |-> "waiting"]]

Waiting(c) ==
  {t \in Threads : wait[t] # NoWait /\ wait[t].cond = c /\ wait[t].phase = "waiting"}

Signalled(S) ==
  [t \in Threads |-> IF t \in S THEN [wait[t] EXCEPT !.phase = "signalled"] ELSE wait[t]]

Signal(c) ==
  /\ \E t \in Waiting(c) : wait' = Signalled({t})
  /\ UNCHANGED has

Broadcast(c) ==
  /\ wait' = Signalled(Waiting(c))
  /\ UNCHANGED has

TimeOut(t) ==
  /\ wait[t] # NoWait /\ wait[t].timed
  /\ wait' = [wait EXCEPT ![t].phase = "late"]
  /\ UNCHANGED has

Return(t) ==
  /\ wait[t] # NoWait
  /\ wait[t].phase # "waiting" \/ wait[t].timed
  /\ Others(t, wait[t].mutex) = {}
  /\ has' = [has EXCEPT ![t][wait[t].mutex] = @ + 1]
  /\ wait' = [wait EXCEPT ![t] = NoWait]

Next ==
  \/ \E t \in Threads, m \in Mutexes : Lock(t, m) \/ Unlock(t, m)
  \/ \E t \in Threads, c \in Conds, m \in Mutexes, timed \in BOOLEAN :
       Wait(t, c, m, timed)
  \/ \E c \in Conds : Signal(c) \/ Broadcast(c)
  \/ \E t \in Threads : TimeOut(t) \/ Return(t)

Spec == Init /\ [][Next]_vars
=============================================================================
