------------------------ MODULE MCReplayProtector --------------------------
(* TLC instance of ReplayProtector: threads are interchangeable, and so    *)
(* are nonces.                                                             *)
EXTENDS ReplayProtector, TLC

Symmetry == Permutations(Threads) \cup Permutations(Nonces)
=============================================================================
