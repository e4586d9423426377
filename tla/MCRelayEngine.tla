--------------------------- MODULE MCRelayEngine ---------------------------
(* TLC instance of RelayEngine: nonces are interchangeable.                *)
EXTENDS RelayEngine, TLC

NonceSymmetry == Permutations(Nonces)
=============================================================================
