---------------------------- MODULE MC_Registry ----------------------------
(* Model-checking instance of Registry: two binder threads, TEE and        *)
(* STRONGBOX plus one level keymint_service_name does not know (SOFTWARE), *)
(* KeyMint V1, V2 and a future V5, Keymaster 4.1 behind km_compat.         *)
EXTENDS Registry, TLC

MCSecLevels == {"TEE", "STRONGBOX", "SOFTWARE"}
MCKmLevels == {"TEE", "STRONGBOX"}
MCAidlVersions == {1, 2, 5}
MCLegacyVersions == {41}
MCImplVersions == {7}
Symmetry == Permutations(Threads)
=============================================================================
