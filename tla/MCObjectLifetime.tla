-------------------------- MODULE MCObjectLifetime --------------------------
(***************************************************************************)
(* Constants for model checking ObjectLifetime.                            *)
(***************************************************************************)
EXTENDS ObjectLifetime, TLC

CONSTANTS t1, t2, o1, o2, p1, p2, l1, l2   \* model values

Symmetric == Permutations(Threads) \cup Permutations(Objects)
               \cup Permutations(Pools) \cup Permutations(Slots)
=============================================================================
