-------------------------- MODULE MC_SecureClock ---------------------------
(* Model-checking instance of SecureClock: three binder threads, so that  *)
(* two can miss the cache while a third holds the lock, and room for three *)
(* connections, so that a second or third successful one would be seen.   *)
EXTENDS SecureClock, TLC

Symmetry == Permutations(Threads)
=============================================================================
