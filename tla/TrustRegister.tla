--------------------------- MODULE TrustRegister --------------------------
(***************************************************************************)
(* What a certificate authority promises to those who rely on its          *)
(* certificates, whatever it is made of: serial numbers under one key only *)
(* grow, and what is acknowledged as revoked is never valid again.  It     *)
(* does not promise that a certificate verifies at every time: nothing     *)
(* does while the list is being written (Suspend), and afterwards all, or  *)
(* some, or none of the unrevoked do (Resume).                             *)
(***************************************************************************)
EXTENDS Naturals, Sequences

VARIABLES
    issued,     \* the certificates handed out, in order
    revoked,    \* the serial numbers acknowledged as revoked
    valid       \* the positions in issued of the certificates that verify

Unrevoked == {i \in DOMAIN issued : issued[i].serial \notin revoked}

Init == issued = << >> /\ revoked = {} /\ valid = {}

NewSerial(c) ==
    \A i \in DOMAIN issued : issued[i].key = c.key => issued[i].serial < c.serial

(* The new certificate verifies at once, unless nothing does or its serial *)
(* number was revoked in advance.                                          *)
Issue ==
    /\ \E c \in {issued'[i] : i \in DOMAIN issued'} :
          NewSerial(c) /\ issued' = Append(issued, c)
    /\ valid' = valid \/ valid' = valid \cup {Len(issued')}
    /\ valid' \subseteq Unrevoked'
    /\ UNCHANGED revoked

Revoke ==
    /\ \E s \in revoked' : /\ revoked' = revoked \cup {s}
                           /\ valid' = {i \in valid : issued[i].serial # s}
    /\ UNCHANGED issued

(* Nothing can be verified for a while, or for good. *)
Suspend == valid' = {} /\ UNCHANGED <<issued, revoked>>

Resume == valid = {} /\ valid' \subseteq Unrevoked /\ UNCHANGED <<issued, revoked>>

Next == Issue \/ Revoke \/ Suspend \/ Resume

Spec == Init /\ [][Next]_<<issued, revoked, valid>>

=============================================================================
