---------------------------- MODULE MCAudioQueue ----------------------------
(***************************************************************************)
(* Constants for model checking AudioQueue.                                *)
(***************************************************************************)
EXTENDS AudioQueue, TLC

CONSTANTS main, q1, r1, a1, b1, c1, s1   \* model values

Symmetry == Permutations(Queues) \cup Permutations(Buffers)

(* Callbacks that do not cause others, and callbacks that start a queue or *)
(* run the loop again.                                                     *)
Flat == main :> 1
Nested == main :> 2
=============================================================================
