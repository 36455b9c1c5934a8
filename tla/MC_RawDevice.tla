---------------------------- MODULE MC_RawDevice ----------------------------
(* RawDevice instantiated for TLC.                                         *)
EXTENDS RawDevice, TLC

(* The internal callers' threads are interchangeable.                      *)
Symmetry == Permutations(Threads)
=============================================================================
