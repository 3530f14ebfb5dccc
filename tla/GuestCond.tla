------------------------------ MODULE GuestCond ------------------------------
(***************************************************************************)
(* The condition variables of src/libc/pthread/cond.rs: the host object    *)
(* CondHostObject of every pthread_cond_t, and whether there is one.       *)
(*                                                                         *)
(* The scheduler (Environment) takes threads off these queues.             *)
(***************************************************************************)
EXTENDS GuestObjects, Naturals, Sequences

SX == INSTANCE SequencesExt

VARIABLES cstate,    (* "static": not used yet, "live": in the table,      *)
                     (* "gone": destroyed, with MAGIC_COND left in memory  *)
          cwaiting,  (* CondHostObject.waiting                             *)
          cwaking,   (* CondHostObject.waking                              *)
          cmutex,    (* CondHostObject.curr_mutex, Nobody for None         *)
          ctimedout  (* CondHostObject.timed_out                           *)

condVars == <<cstate, cwaiting, cwaking, cmutex, ctimedout>>

CondTypeOK ==
  /\ cstate \in [Conds -> {"static", "live", "gone"}]
  /\ cwaiting \in [Conds -> Seq(Threads)]
  /\ cwaking \in [Conds -> Seq(Threads)]
  /\ cmutex \in [Conds -> Mutexes \cup {Nobody}]
  /\ ctimedout \in [Conds -> SUBSET Threads]

CondInit ==
  /\ cstate = [c \in Conds |-> "static"]
  /\ cwaiting = [c \in Conds |-> << >>]
  /\ cwaking = [c \in Conds |-> << >>]
  /\ cmutex = [c \in Conds |-> Nobody]
  /\ ctimedout = [c \in Conds |-> {}]

-----------------------------------------------------------------------------
InQueue(q, t) == \E i \in 1..Len(q) : q[i] = t

(* VecDeque::retain(|x| x != t) on a queue that holds t at most once.      *)
Without(q, t) ==
  IF InQueue(q, t) THEN SX!RemoveAt(q, CHOOSE i \in 1..Len(q) : q[i] = t) ELSE q

(* pthread_cond_init: a fresh host object, in place of any earlier one.    *)
cond_init(c) ==
  /\ cstate' = [cstate EXCEPT ![c] = "live"]
  /\ cwaiting' = [cwaiting EXCEPT ![c] = << >>]
  /\ cwaking' = [cwaking EXCEPT ![c] = << >>]
  /\ cmutex' = [cmutex EXCEPT ![c] = Nobody]
  /\ ctimedout' = [ctimedout EXCEPT ![c] = {}]

(* After check_or_register_cond the magic is MAGIC_COND; the lookup of the *)
(* host object that follows panics if the object was destroyed.            *)
HasHostObject(c) == cstate[c] # "gone"

(* The assertion of both waits about the mutex.                            *)
MutexAgrees(c, m) ==
  \/ cmutex[c] = m
  \/ cwaiting[c] = << >> /\ cwaking[c] = << >>

(* Mutant: the mutex is not recorded.                                      *)
MutEnqueueUnbound(t, c, m) ==
  /\ cstate' = [cstate EXCEPT ![c] = "live"]
  /\ cwaiting' = [cwaiting EXCEPT ![c] = Append(@, t)]
  /\ UNCHANGED <<cwaking, cmutex, ctimedout>>

(* The caller of a wait joins the queue, with its mutex released.          *)
cond_enqueue(t, c, m) ==
  /\ cstate' = [cstate EXCEPT ![c] = "live"]
  /\ cmutex' = [cmutex EXCEPT ![c] = m]
  /\ cwaiting' = [cwaiting EXCEPT ![c] = Append(@, t)]
  /\ UNCHANGED <<cwaking, ctimedout>>

(* Mutant: the thread stays on the queue of those to be signalled.         *)
MutSignalPeeks(c) ==
  /\ cwaiting[c] # << >>
  /\ cwaking' = [cwaking EXCEPT ![c] = Append(@, Head(cwaiting[c]))]
  /\ UNCHANGED <<cstate, cwaiting, cmutex, ctimedout>>

(* pthread_cond_signal: the longest waiting thread may wake up.            *)
cond_signal(c) ==
  /\ cstate' = [cstate EXCEPT ![c] = "live"]
  /\ IF cwaiting[c] = << >>
       THEN UNCHANGED <<cwaiting, cwaking>>
       ELSE /\ cwaking' = [cwaking EXCEPT ![c] = Append(@, Head(cwaiting[c]))]
            /\ cwaiting' = [cwaiting EXCEPT ![c] = Tail(@)]
  /\ UNCHANGED <<cmutex, ctimedout>>

(* pthread_cond_broadcast: every waiting thread may, in its order.         *)
cond_broadcast(c) ==
  /\ cstate' = [cstate EXCEPT ![c] = "live"]
  /\ cwaking' = [cwaking EXCEPT ![c] = @ \o cwaiting[c]]
  /\ cwaiting' = [cwaiting EXCEPT ![c] = << >>]
  /\ UNCHANGED <<cmutex, ctimedout>>

(* pthread_cond_destroy of a condition variable nobody waits for. The      *)
(* magic is left alone.                                                    *)
CanDestroyCond(c) == cwaiting[c] = << >> /\ cwaking[c] = << >>

cond_destroy(c) ==
  /\ cstate' = [cstate EXCEPT ![c] = "gone"]
  /\ cmutex' = [cmutex EXCEPT ![c] = Nobody]
  /\ ctimedout' = [ctimedout EXCEPT ![c] = {}]
  /\ UNCHANGED <<cwaiting, cwaking>>

-----------------------------------------------------------------------------
(* What the scheduler does to the queues.                                  *)
NextToWake(c, t) == cwaking[c] # << >> /\ Head(cwaking[c]) = t

cond_wake(c) ==
  /\ cwaking' = [cwaking EXCEPT ![c] = Tail(@)]
  /\ UNCHANGED <<cstate, cwaiting, cmutex, ctimedout>>

(* Mutant: the timeout is not recorded.                                    *)
MutTimeOutUnrecorded(c, t) ==
  /\ cwaking' = [cwaking EXCEPT ![c] = Without(@, t)]
  /\ cwaiting' = [cwaiting EXCEPT ![c] = Without(@, t)]
  /\ UNCHANGED <<cstate, cmutex, ctimedout>>

cond_time_out(c, t) ==
  /\ ctimedout' = [ctimedout EXCEPT ![c] = @ \cup {t}]
  /\ cwaking' = [cwaking EXCEPT ![c] = Without(@, t)]
  /\ cwaiting' = [cwaiting EXCEPT ![c] = Without(@, t)]
  /\ UNCHANGED <<cstate, cmutex>>
=============================================================================
