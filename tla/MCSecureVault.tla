---------------------------- MODULE MCSecureVault ---------------------------
(* TLC instance of SecureVault: the homes are interchangeable. *)
EXTENDS SecureVault, TLC

TwoContents == {"empty", "text"}
Symmetry    == Permutations(Homes)
=============================================================================
