---------------------------- MODULE MCGuestHeap ----------------------------
(* Instances of GuestHeap: pages of four smallest chunks, and two of them  *)
(* to allocate from.                                                       *)
EXTENDS GuestHeap

(* The null segment is longer than the null page, and a binary is loaded   *)
(* below the stack.                                                        *)
MCSegments == {Chunk(16, 16), Chunk(64, 16)}
=============================================================================
