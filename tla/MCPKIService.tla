--------------------------- MODULE MCPKIService ----------------------------
(* TLC instance of PKIService: the relay nodes' names.                      *)
EXTENDS PKIService

ThreeNodes == <<"NodeA", "NodeB", "NodeC">>

(* Enough for a start that dies between two nodes. *)
TwoNodes == <<"NodeA", "NodeB">>
=============================================================================
