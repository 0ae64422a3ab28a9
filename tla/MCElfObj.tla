------------------------------ MODULE MCElfObj ------------------------------
(* ElfObj on a small instance: both objects and files are interchangeable. *)
EXTENDS ElfObj, TLC

Symmetry == Permutations(Objs) \cup Permutations(Files)
=============================================================================
