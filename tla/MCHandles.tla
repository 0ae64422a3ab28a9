----------------------------- MODULE MCHandles -----------------------------
(* Handles on a small instance.  The objects of each kind are              *)
(* interchangeable among themselves, which only the runs without liveness  *)
(* use.                                                                    *)
EXTENDS Handles, TLC

Symmetry == Permutations(FdObjs) \cup Permutations(MapObjs)
=============================================================================
