--------------------------- MODULE MC_KeyCreation ---------------------------
(* Model-checking instance of KeyCreation: two binder threads, one alias   *)
(* (so a new key can replace the attestation or wrapping key it was made   *)
(* with), and one OTA from firmware 1 to 2.                                 *)
EXTENDS KeyCreation, TLC

Symmetry == Permutations(Threads)
=============================================================================
