---------------------------- MODULE GuestObjects ----------------------------
(***************************************************************************)
(* The names shared by the modules of the guest's threads and of the       *)
(* objects they synchronise with.                                          *)
(***************************************************************************)
CONSTANTS Threads,   (* thread ids: indices of Environment.threads         *)
          Mutexes,   (* addresses of pthread_mutex_t structures            *)
          Conds,     (* addresses of pthread_cond_t structures             *)
          Sems,      (* addresses of sem_t                                 *)
          Nobody     (* stands for None where a thread or mutex may be     *)

ASSUME ObjectsAssumption == Nobody \notin Threads \cup Mutexes
=============================================================================
