---------------------------- MODULE MCKeyManager ---------------------------
(* TLC instance of KeyManager: processes and names are interchangeable.    *)
EXTENDS KeyManager, TLC

Symmetry == Permutations(Procs) \cup Permutations(Names)
=============================================================================
