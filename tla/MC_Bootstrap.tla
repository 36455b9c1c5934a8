---------------------------- MODULE MC_Bootstrap ----------------------------
(* Model-checking instance of Bootstrap: the TEE and StrongBox tiers, one  *)
(* KeyMint version, Keymaster 4.1 behind km_compat.                        *)
EXTENDS Bootstrap, TLC

MCLevels == {"TEE", "STRONGBOX"}
MCAidlVersions == {2}
MCLegacyVersions == {41}
MCImplVersions == {7}
=============================================================================
