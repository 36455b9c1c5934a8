-------------------------- MODULE MC_SecurityLevel --------------------------
(* SecurityLevel instantiated for TLC: the threads, callers and keys are   *)
(* model values in the cfg files, the km_uuids are model values.           *)
EXTENDS SecurityLevel, TLC

(* Binder threads and callers are interchangeable.                         *)
Symmetry == Permutations(Threads) \cup Permutations(Callers)
=============================================================================
