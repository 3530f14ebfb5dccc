----------------------------- MODULE MCRunLoops -----------------------------
(***************************************************************************)
(* Constants for model checking RunLoops.                                  *)
(***************************************************************************)
EXTENDS RunLoops, TLC

CONSTANTS main, other, x1, y1, target   \* model values

Symmetric == Permutations(Timers)

(* Loops run inside callbacks on the main thread, and on the other thread  *)
(* not at all or only once.                                                *)
MainLoop == (main :> 4) @@ (other :> 0)
TwoLoops == (main :> 4) @@ (other :> 2)
=============================================================================
