-------------------------- MODULE MCMessageService -------------------------
(* TLC instance of MessageService: message ids are interchangeable, and so *)
(* are the nonces no client makes up.                                      *)
EXTENDS MessageService, TLC

IdSymmetry == Permutations(Nonces \ ClientNonces) \cup Permutations(Msgs)
=============================================================================
