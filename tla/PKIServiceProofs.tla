-------------------------- MODULE PKIServiceProofs -------------------------
(***************************************************************************)
(* Proofs about PKIService, for every set of users, every list of relay    *)
(* nodes and any number of starts.  The inductive invariant KeyInv rests   *)
(* on one fact: a start draws a CA key no earlier start drew, so whatever  *)
(* an earlier process signed or revoked concerns another key.              *)
(***************************************************************************)
EXTENDS PKIService, SequenceTheorems, TLAPS

(* The loop over the relay nodes is at one of them. *)
InLoop == pc = "creating" => nextSerial - FirstSerial \in 1 .. Len(RelayNodes)

Typed == TypeOK /\ InLoop

(* The types are right initially. *)
LEMMA TypedInit == Init => Typed
  BY SerialAssumption DEF Init, Typed, TypeOK, InLoop

(* A certificate signed now is a certificate. *)
LEMMA NewCertificateType ==
    ASSUME TypeOK, NEW s \in STRING
    PROVE  NewCertificate(s) \in Certificate
  BY ValidityAssumption DEF TypeOK, NewCertificate, Certificate

(* So is the CA's own. *)
LEMMA CACertificateType ==
    ASSUME TypeOK, NEW k \in Nat
    PROVE  CACertificate(k) \in Certificate
  BY ValidityAssumption, SerialAssumption, SubjectAssumption
     DEF TypeOK, CACertificate, Certificate

(* What every way to issue and store a user's certificate does. *)
LEMMA StoreStep ==
    ASSUME Register \/ GenerateCert
    PROVE  \E u \in Users : IssueAndStore(u)
  BY DEF Register, GenerateCert

(* A process that stops leaves its memory well typed. *)
LEMMA StopType ==
    ASSUME Typed, Stop, UNCHANGED starts
    PROVE  /\ pc' = "down" /\ InLoop'
           /\ caKey' \in 0 .. starts'
           /\ nextSerial' \in Nat
           /\ crl' \subseteq Nat
  BY SerialAssumption DEF Stop, InLoop, Typed, TypeOK

(* Every step keeps the types. *)
LEMMA TypedStep == Typed /\ [Next]_vars => Typed'
<1> SUFFICES ASSUME Typed, [Next]_vars
             PROVE  Typed'
    OBVIOUS
<1> USE SerialAssumption, NodesAssumption DEF Typed, TypeOK, InLoop
<1>1. CASE Start
  <2>0. /\ starts' = starts + 1 /\ caKey' = starts'
        /\ issued' = issued \cup {CACertificate(starts')}
        /\ CACertificate(starts') \in Certificate
    BY <1>1, CACertificateType DEF Start
  <2>1. CASE Created
    <3>1. Len(nodes) \in DOMAIN nodes
      BY <2>1 DEF Created
    <3>2. nodes[Len(nodes)] \in Certificate
      BY <3>1
    <3>3. nodes[Len(nodes)].serial \in Nat
      BY <3>2 DEF Certificate
    <3>4. nextSerial' \in Nat
      BY <1>1, <2>1, <3>3 DEF Start, SerialAfterNodes
    <3> QED
      BY <1>1, <2>0, <2>1, <3>4 DEF Start, LoadCRL, disk
  <2>2. CASE ~Created
    BY <1>1, <2>0, <2>2 DEF Start, LoadCRL, disk
  <2> QED
    BY <2>1, <2>2
<1>2. CASE CreateNode
  <2> DEFINE i == nextSerial - FirstSerial
             cert == NewCertificate(RelayNodes[i])
  <2>1. cert \in Certificate
    <3>1. RelayNodes[i] \in STRING
      BY <1>2 DEF CreateNode
    <3> QED
      BY <3>1, NewCertificateType
  <2>2. UNCHANGED <<day, starts, crlFile, crlLegible, users, requested, revoked>> /\ pc = "creating"
    BY <1>2 DEF CreateNode
  <2>3. CASE /\ Issue(cert)
             /\ nodes' = Append(nodes, cert)
             /\ pc' = IF i = Len(RelayNodes) THEN "announcing" ELSE "creating"
             /\ UNCHANGED <<caKey, crl>>
    <3> HIDE DEF cert
    <3>1. nodes' \in Seq(Certificate)
      BY <2>1, <2>3
    <3>2. nextSerial' \in Nat /\ InLoop'
      <4>1. nextSerial' = nextSerial + 1 /\ i \in 1 .. Len(RelayNodes) /\ i \in Int
        BY <2>2, <2>3 DEF Issue
      <4>2. Len(RelayNodes) \in Nat /\ nextSerial \in Nat /\ FirstSerial \in Nat
        OBVIOUS
      <4>3. pc' = "creating" => i # Len(RelayNodes)
        BY <2>3
      <4> QED
        BY <4>1, <4>2, <4>3
    <3>3. issued' \subseteq Certificate
      BY <2>1, <2>3 DEF Issue
    <3> QED
      BY <2>2, <2>3, <3>1, <3>2, <3>3
  <2>4. CASE /\ issued' \in {issued, issued \cup {cert}}
             /\ Stop
             /\ UNCHANGED nodes
    BY <2>1, <2>2, <2>4, StopType
  <2> QED
    BY <1>2, <2>3, <2>4 DEF CreateNode
<1>3. CASE Announce
    BY <1>3, StopType DEF Announce, memory, disk
<1>4. CASE Register \/ GenerateCert
  <2>1. PICK u \in Users : IssueAndStore(u)
    BY <1>4, StoreStep
  <2>2. NewCertificate(u) \in Certificate
    BY NewCertificateType, UsersAssumption
  <2> QED
    BY <2>1, <2>2 DEF IssueAndStore, Issue
<1>5. CASE RevokeCertificate
  <2>1. PICK s \in FirstSerial .. MaxSerial :
            /\ crl' = crl \cup {s}
            /\ requested' = requested \cup {s}
            /\ revoked' \in {revoked, revoked \cup {<<caKey, s>>}}
    BY <1>5 DEF RevokeCertificate
  <2>2. /\ crl' \subseteq Nat
        /\ requested' \subseteq Nat
        /\ revoked' \subseteq Nat \X Nat
    BY <2>1
  <2>3. crlFile' \subseteq Nat /\ crlLegible' \in BOOLEAN
    BY <1>5, <2>2 DEF RevokeCertificate, SaveCRL
  <2> QED
    BY <1>5, <2>2, <2>3 DEF RevokeCertificate
<1>6. CASE Crash
  <2>1. /\ crlFile' \subseteq Nat
        /\ crlLegible' \in BOOLEAN
        /\ requested' \subseteq Nat
    <3>1. FirstSerial .. MaxSerial \subseteq Nat
      OBVIOUS
    <3>2. CASE UNCHANGED <<crlFile, crlLegible, requested>>
      BY <3>2
    <3>3. ASSUME NEW s \in FirstSerial .. MaxSerial,
                 requested' = requested \cup {s},
                 \/ crlFile' = crl \cup {s} /\ crlLegible' = TRUE
                 \/ crlFile' = {} /\ crlLegible' = FALSE
          PROVE  /\ crlFile' \subseteq Nat
                 /\ crlLegible' \in BOOLEAN
                 /\ requested' \subseteq Nat
      BY <3>1, <3>3
    <3> QED
      BY <1>6, <3>2, <3>3 DEF Crash
  <2> QED
    BY <1>6, <2>1, StopType DEF Crash
<1>7. CASE DayPasses
    BY <1>7 DEF DayPasses, memory, disk
<1>8. CASE UNCHANGED vars
    BY <1>8 DEF vars
<1> QED
    BY <1>1, <1>2, <1>3, <1>4, <1>5, <1>6, <1>7, <1>8 DEF Next

(* Every variable keeps its type, in every behaviour of the service.       *)
THEOREM PKITypeCorrect == Spec => []TypeOK
<1>1. Typed => TypeOK
    BY DEF Typed
<1> QED
    BY <1>1, TypedInit, TypedStep, PTL DEF Spec

-----------------------------------------------------------------------------
(* Keys, serials and revocations.                                          *)

KeyInv ==
    /\ pc = "down" <=> caKey = 0
    /\ \A c \in issued : c.ca \in 1 .. starts
    /\ \A c \in issued : c.ca = caKey => c.serial < nextSerial
    /\ \A r \in revoked : r[1] \in 1 .. starts
    /\ \A r \in revoked : r[1] = caKey => r[2] \in crl
    /\ SerialsUniquePerKey

(* Signing one more certificate keeps it. *)
LEMMA IssueKeepsKeyInv ==
    ASSUME Typed, KeyInv, pc # "down", pc' # "down", NEW s \in STRING,
           Issue(NewCertificate(s)), UNCHANGED <<starts, caKey, crl, revoked>>
    PROVE  KeyInv'
<1> DEFINE cert == NewCertificate(s)
<1>1. cert.ca = caKey /\ cert.serial = nextSerial
    BY DEF NewCertificate
<1>2. /\ caKey \in 1 .. starts
      /\ nextSerial \in Nat
      /\ starts \in Nat
    BY DEF Typed, TypeOK, KeyInv
<1>3. nextSerial' = nextSerial + 1 /\ issued' = issued \cup {cert}
    BY DEF Issue
<1>4. issued \subseteq Certificate
    BY DEF Typed, TypeOK
<1> HIDE DEF cert
<1>5. \A c \in issued' : c.ca \in 1 .. starts
    BY <1>1, <1>2, <1>3 DEF KeyInv
<1>6. \A c \in issued' : c.ca = caKey => c.serial < nextSerial'
    BY <1>1, <1>2, <1>3, <1>4 DEF KeyInv, Certificate
<1>7. SerialsUniquePerKey'
    BY <1>1, <1>2, <1>3, <1>4 DEF KeyInv, SerialsUniquePerKey, Certificate
<1> QED
    BY <1>2, <1>5, <1>6, <1>7 DEF KeyInv

(* A process that stops keeps it: nothing was signed with key 0. *)
LEMMA StopKeepsKeyInv ==
    ASSUME Typed, KeyInv, Stop, UNCHANGED <<starts, revoked>>,
           \A c \in issued' : c.ca \in 1 .. starts,
           SerialsUniquePerKey'
    PROVE  KeyInv'
  BY DEF Typed, TypeOK, KeyInv, Stop

(* Every step keeps it. *)
LEMMA KeyStep ==
    ASSUME Typed, KeyInv, [Next]_vars
    PROVE  KeyInv'
<1>t. /\ starts \in Nat /\ caKey \in 0 .. starts
      /\ issued \subseteq Certificate
      /\ revoked \subseteq Nat \X Nat
    BY DEF Typed, TypeOK
<1>1. CASE Start
  <2> DEFINE cert == CACertificate(starts')
  <2>1. cert.ca = starts' /\ cert.serial = FirstSerial
    BY DEF CACertificate
  <2>2. /\ pc' # "down" /\ caKey' = starts' /\ starts' = starts + 1
        /\ issued' = issued \cup {cert}
        /\ revoked' = revoked
    BY <1>1 DEF Start
  <2>3. nextSerial' > FirstSerial
    <3>1. CASE Created
      <4>1. nodes[Len(nodes)].serial \in Nat
        <5>1. nodes \in Seq(Certificate) /\ Len(nodes) \in DOMAIN nodes
          BY <3>1, NodesAssumption DEF Created, Typed, TypeOK
        <5>2. nodes[Len(nodes)] \in Certificate
          BY <5>1
        <5> QED
          BY <5>2 DEF Certificate
      <4> QED
        BY <1>1, <3>1, <4>1, SerialAssumption DEF Start, SerialAfterNodes
    <3> QED
      BY <1>1, <3>1, SerialAssumption DEF Start
  <2> HIDE DEF cert
  <2>4. \A c \in issued : c.ca \in 1 .. starts /\ c.ca # starts'
    BY <1>t, <2>2 DEF KeyInv
  <2>5. \A r \in revoked : r[1] \in 1 .. starts /\ r[1] # starts'
    BY <1>t, <2>2 DEF KeyInv
  <2>6. SerialsUniquePerKey'
    BY <2>1, <2>2, <2>4 DEF KeyInv, SerialsUniquePerKey
  <2> QED
    BY <1>t, <2>1, <2>2, <2>3, <2>4, <2>5, <2>6 DEF KeyInv
<1>2. CASE CreateNode
  <2> DEFINE i == nextSerial - FirstSerial
             cert == NewCertificate(RelayNodes[i])
  <2>1. RelayNodes[i] \in STRING /\ pc = "creating"
    BY <1>2, NodesAssumption DEF CreateNode, Typed, InLoop
  <2>2. UNCHANGED <<starts, revoked>>
    BY <1>2 DEF CreateNode
  <2>3. CASE Issue(cert) /\ UNCHANGED <<caKey, crl>> /\ pc' # "down"
    BY <2>1, <2>2, <2>3, IssueKeepsKeyInv
  <2>4. CASE issued' \in {issued, issued \cup {cert}} /\ Stop
    <3>1. cert.ca = caKey /\ cert.serial = nextSerial
      BY DEF NewCertificate
    <3>2. nextSerial \in Nat /\ caKey # 0
      BY <2>1 DEF Typed, TypeOK, KeyInv
    <3> HIDE DEF cert
    <3>3. \A c \in issued' : c.ca \in 1 .. starts
      BY <1>t, <2>4, <3>1, <3>2 DEF KeyInv
    <3>4. SerialsUniquePerKey'
      BY <1>t, <2>4, <3>1, <3>2 DEF KeyInv, SerialsUniquePerKey, Certificate
    <3> QED
      BY <2>2, <2>4, <3>3, <3>4, StopKeepsKeyInv
  <2> QED
    BY <1>2, <2>3, <2>4 DEF CreateNode
<1>3. CASE Announce
  <2>1. CASE Stop
    BY <1>3, <2>1, StopKeepsKeyInv DEF Announce, disk, KeyInv, SerialsUniquePerKey
  <2>2. CASE pc' = "serving" /\ UNCHANGED memory
    BY <1>3, <2>2 DEF Announce, memory, KeyInv, SerialsUniquePerKey
  <2> QED
    BY <1>3, <2>1, <2>2 DEF Announce
<1>4. CASE Register \/ GenerateCert
  <2>1. PICK u \in Users : IssueAndStore(u)
    BY <1>4, StoreStep
  <2> QED
    BY <2>1, IssueKeepsKeyInv, UsersAssumption DEF IssueAndStore
<1>5. CASE RevokeCertificate
    BY <1>5, <1>t DEF RevokeCertificate, KeyInv, SerialsUniquePerKey
<1>6. CASE Crash
    BY <1>6, StopKeepsKeyInv DEF Crash, KeyInv, SerialsUniquePerKey
<1>7. CASE DayPasses
    BY <1>7 DEF DayPasses, memory, disk, KeyInv, SerialsUniquePerKey
<1>8. CASE UNCHANGED vars
    BY <1>8 DEF vars, KeyInv, SerialsUniquePerKey
<1> QED
    BY <1>1, <1>2, <1>3, <1>4, <1>5, <1>6, <1>7, <1>8 DEF Next

(* It always holds. *)
LEMMA KeyAlways == Spec => [](Typed /\ KeyInv)
<1>1. Init => KeyInv
    BY DEF Init, KeyInv, SerialsUniquePerKey
<1>2. Typed /\ KeyInv /\ [Next]_vars => (Typed /\ KeyInv)'
    BY KeyStep, TypedStep
<1> QED
    BY <1>1, <1>2, TypedInit, PTL DEF Spec

(* A CA key pair never signs two certificates with one serial number.      *)
THEOREM PKISerialsUniquePerKey == Spec => []SerialsUniquePerKey
<1>1. KeyInv => SerialsUniquePerKey
    BY DEF KeyInv
<1> QED
    BY <1>1, KeyAlways, PTL

(* A certificate whose revocation was acknowledged never verifies again,   *)
(* over crashes, restarts and lost writes of the revocation list.          *)
THEOREM PKIRevokedStaysRevoked == Spec => []RevokedStaysRevoked
<1>1. KeyInv => RevokedStaysRevoked
    BY DEF KeyInv, RevokedStaysRevoked, Verifies
<1> QED
    BY <1>1, KeyAlways, PTL

-----------------------------------------------------------------------------
(* Why a certificate is refused.                                           *)

RefusalInv ==
    /\ crl \cup crlFile \subseteq requested
    /\ \A c \in issued : c.from <= day

(* Every step keeps it. *)
LEMMA RefusalStep ==
    ASSUME Typed, RefusalInv, [Next]_vars
    PROVE  RefusalInv'
<1> USE DEF RefusalInv
<1>t. day \in Nat /\ issued \subseteq Certificate
    BY DEF Typed, TypeOK
<1>n. \A s : NewCertificate(s).from = day
    BY DEF NewCertificate
<1>1. CASE Start
  <2>1. /\ UNCHANGED <<day, requested, crlFile>>
        /\ crl' \in {crlFile, {}}
        /\ issued' = issued \cup {CACertificate(starts')}
    BY <1>1 DEF Start, LoadCRL, disk
  <2>2. CACertificate(starts').from = day
    BY DEF CACertificate
  <2> QED
    BY <1>t, <2>1, <2>2
<1>2. CASE CreateNode
  <2>1. UNCHANGED <<day, requested, crlFile>> /\ crl' \in {crl, {}}
    BY <1>2 DEF CreateNode, Stop
  <2>2. \/ issued' = issued
        \/ issued' = issued \cup {NewCertificate(RelayNodes[nextSerial - FirstSerial])}
    BY <1>2 DEF CreateNode, Issue
  <2>3. \A c \in issued' : c.from <= day
    BY <1>n, <1>t, <2>2
  <2> QED
    BY <2>1, <2>3
<1>3. CASE Announce
  <2>1. UNCHANGED <<day, requested, issued, crlFile>> /\ crl' \in {crl, {}}
    BY <1>3 DEF Announce, Stop, memory, disk
  <2> QED
    BY <2>1
<1>4. CASE Register \/ GenerateCert
  <2>1. PICK u \in Users : IssueAndStore(u)
    BY <1>4, StoreStep
  <2>2. issued' = issued \cup {NewCertificate(u)}
    BY <2>1 DEF IssueAndStore, Issue
  <2>3. UNCHANGED <<day, requested, crl, crlFile>>
    BY <2>1 DEF IssueAndStore
  <2>4. \A c \in issued' : c.from <= day
    BY <1>n, <1>t, <2>2
  <2> QED
    BY <2>3, <2>4
<1>5. CASE RevokeCertificate
  <2>1. PICK s \in FirstSerial .. MaxSerial :
            crl' = crl \cup {s} /\ requested' = requested \cup {s}
    BY <1>5 DEF RevokeCertificate
  <2>2. UNCHANGED <<day, issued>> /\ crlFile' \in {crl', crlFile, {}}
    BY <1>5 DEF RevokeCertificate, SaveCRL
  <2> QED
    BY <2>1, <2>2
<1>6. CASE Crash
  <2>1. UNCHANGED <<day, issued>> /\ crl' = {}
    BY <1>6 DEF Crash, Stop
  <2>2. CASE UNCHANGED <<crlFile, requested>>
    BY <2>1, <2>2
  <2>3. CASE \E s \in FirstSerial .. MaxSerial :
                /\ requested' = requested \cup {s}
                /\ crlFile' \in {crl \cup {s}, {}}
    BY <2>1, <2>3
  <2> QED
    BY <1>6, <2>2, <2>3 DEF Crash
<1>7. CASE DayPasses
  <2>1. UNCHANGED <<requested, issued, crl, crlFile>> /\ day' = day + 1
    BY <1>7 DEF DayPasses, memory, disk
  <2>2. \A c \in issued : c.from \in Nat
    BY <1>t DEF Certificate
  <2> QED
    BY <1>t, <2>1, <2>2
<1>8. CASE UNCHANGED vars
    BY <1>8 DEF vars
<1> QED
    BY <1>1, <1>2, <1>3, <1>4, <1>5, <1>6, <1>7, <1>8 DEF Next

(* A certificate of the running CA is refused before it runs out only if   *)
(* an administrator asked to revoke its serial number, in this run of the  *)
(* process or in an earlier one: failing and interrupted requests included.*)
THEOREM PKIRefusedWasRequested == Spec => []RefusedWasRequested
<1>1. Init => RefusalInv
    BY DEF Init, RefusalInv
<1>2. RefusalInv => RefusedWasRequested
    BY DEF RefusalInv, RefusedWasRequested, Verifies
<1>3. Typed /\ RefusalInv /\ [Next]_vars => RefusalInv'
    BY RefusalStep
<1> QED
    BY <1>1, <1>2, <1>3, TypedInit, TypedStep, PTL DEF Spec

-----------------------------------------------------------------------------
(* The serial numbers of the relay nodes.                                  *)

LastNodeSerial == FirstSerial + Len(RelayNodes)

NodesInv ==
    /\ Len(nodes) <= Len(RelayNodes)
    /\ \A i \in 1 .. Len(nodes) :
          nodes[i].serial = FirstSerial + i /\ nodes[i].subject = RelayNodes[i]
    /\ pc = "creating" =>
          \/ nextSerial = FirstSerial + Len(nodes) + 1
          \/ nextSerial = FirstSerial + 1 /\ Len(nodes) > 0
    /\ pc \in {"announcing", "serving"} =>
          nextSerial > LastNodeSerial /\ Len(nodes) = Len(RelayNodes)
    /\ \A u \in Users : users[u].serial = 0 \/ users[u].serial > LastNodeSerial

(* Every step keeps it. *)
LEMMA NodesStep ==
    ASSUME Typed, NodesInv, [Next]_vars
    PROVE  NodesInv'
<1> USE SerialAssumption, NodesAssumption
<1>t. /\ nodes \in Seq(Certificate)
      /\ nextSerial \in Nat
      /\ Len(RelayNodes) \in Nat
      /\ LastNodeSerial \in Nat
      /\ users \in [Users -> Certificate \cup {NoCertificate}]
    BY DEF Typed, TypeOK, LastNodeSerial
<1>1. CASE Start
    BY <1>1, <1>t DEF Start, SerialAfterNodes, Created, disk, NodesInv, LastNodeSerial
<1>2. CASE CreateNode
  <2> DEFINE i == nextSerial - FirstSerial
             cert == NewCertificate(RelayNodes[i])
  <2>1. UNCHANGED users /\ pc = "creating" /\ i \in 1 .. Len(RelayNodes)
    BY <1>2 DEF CreateNode, Typed, InLoop
  <2>2. CASE Stop /\ UNCHANGED nodes
    BY <2>1, <2>2 DEF Stop, NodesInv
  <2>3. CASE /\ ~Named(RelayNodes[i])
             /\ Issue(cert)
             /\ nodes' = Append(nodes, cert)
             /\ pc' = IF i = Len(RelayNodes) THEN "announcing" ELSE "creating"
    <3>1. i = Len(nodes) + 1
      BY <1>t, <2>1, <2>3 DEF NodesInv, Named
    <3>2. cert.serial = FirstSerial + i /\ cert.subject = RelayNodes[i]
      BY <1>t DEF NewCertificate
    <3>3. cert \in Certificate
      <4>1. TypeOK /\ RelayNodes[i] \in STRING
        BY <2>1 DEF Typed
      <4> QED
        BY <4>1, NewCertificateType
    <3>4. nextSerial' = nextSerial + 1
      BY <2>3 DEF Issue
    <3> HIDE DEF cert
    <3>5. /\ Len(nodes') = Len(nodes) + 1
          /\ \A j \in 1 .. Len(nodes) : nodes'[j] = nodes[j]
          /\ nodes'[Len(nodes) + 1] = cert
      BY <1>t, <2>3, <3>3
    <3>6. /\ Len(nodes') <= Len(RelayNodes)
          /\ \A j \in 1 .. Len(nodes') :
                nodes'[j].serial = FirstSerial + j /\ nodes'[j].subject = RelayNodes[j]
      BY <1>t, <2>1, <3>1, <3>2, <3>5 DEF NodesInv
    <3>7. pc' = IF Len(nodes') = Len(RelayNodes) THEN "announcing" ELSE "creating"
      BY <1>t, <2>3, <3>1, <3>5
    <3>8. nextSerial' = FirstSerial + Len(nodes') + 1 /\ nextSerial' = nextSerial + 1
      BY <1>t, <3>1, <3>4, <3>5
    <3>9. LastNodeSerial \in Nat /\ LastNodeSerial = FirstSerial + Len(RelayNodes)
      BY <1>t DEF LastNodeSerial
    <3>10. pc' \in {"announcing", "serving"} =>
              nextSerial' > LastNodeSerial /\ Len(nodes') = Len(RelayNodes)
      BY <1>t, <3>5, <3>7, <3>8, <3>9
    <3> QED
      BY <2>1, <3>6, <3>8, <3>10 DEF NodesInv, LastNodeSerial
  <2> QED
    BY <1>2, <2>2, <2>3 DEF CreateNode
<1>3. CASE Announce
    BY <1>3 DEF Announce, memory, disk, Stop, NodesInv
<1>4. CASE Register \/ GenerateCert
  <2>1. PICK u \in Users : IssueAndStore(u)
    BY <1>4, StoreStep
  <2>2. pc = "serving" /\ UNCHANGED <<pc, nodes>> /\ nextSerial' = nextSerial + 1
    BY <2>1 DEF IssueAndStore, Issue
  <2>3. \A v \in Users : users'[v] = users[v] \/ users'[v].serial = nextSerial
    BY <1>t, <2>1 DEF IssueAndStore, NewCertificate
  <2> QED
    BY <1>t, <2>2, <2>3 DEF NodesInv
<1>5. CASE RevokeCertificate \/ Crash \/ DayPasses
    BY <1>5 DEF RevokeCertificate, Crash, DayPasses, Stop, memory, disk, NodesInv
<1>6. CASE UNCHANGED vars
    BY <1>6 DEF vars, NodesInv
<1> QED
    BY <1>1, <1>2, <1>3, <1>4, <1>5, <1>6 DEF Next

(* The service listens with exactly the relay nodes of the constants,      *)
(* wherever a start before it died.                                        *)
THEOREM PKINodesComplete == Spec => []NodesComplete
<1>1. Init => NodesInv
    BY NodesAssumption, SerialAssumption DEF Init, NodesInv, NoCertificate
<1>2. Typed /\ NodesInv => NodesComplete
    BY DEF NodesInv, NodesComplete, Typed, TypeOK
<1>3. Typed /\ NodesInv /\ [Next]_vars => (Typed /\ NodesInv)'
    BY NodesStep, TypedStep
<1> QED
    BY <1>1, <1>2, <1>3, TypedInit, PTL DEF Spec

(* Looking up a relay node's serial number finds that node's certificate,  *)
(* although every restart resets the counter.                              *)
THEOREM PKINodeSerialsReserved == Spec => []NodeSerialsReserved
<1>1. Init => NodesInv
    BY NodesAssumption, SerialAssumption DEF Init, NodesInv, NoCertificate
<1>2. Typed /\ NodesInv => NodeSerialsReserved
  <2> SUFFICES ASSUME Typed, NodesInv, NEW i \in DOMAIN nodes
               PROVE  Found(nodes[i].serial) = {nodes[i]}
      BY DEF NodeSerialsReserved
  <2>1. /\ i \in 1 .. Len(nodes)
        /\ DOMAIN nodes = 1 .. Len(nodes)
        /\ FirstSerial \in Nat
        /\ Len(nodes) \in Nat
        /\ Len(RelayNodes) \in Nat
      BY SerialAssumption, NodesAssumption DEF Typed, TypeOK
  <2>2. nodes[i].serial = FirstSerial + i /\ i <= Len(RelayNodes)
      BY <2>1 DEF NodesInv
  <2>3. ASSUME NEW u \in Users
        PROVE  users[u].serial # nodes[i].serial
      <3>1. users[u].serial = 0 \/ users[u].serial > FirstSerial + Len(RelayNodes)
        BY DEF NodesInv, LastNodeSerial
      <3>2. nodes[i].serial # 0 /\ ~(nodes[i].serial > FirstSerial + Len(RelayNodes))
        BY <2>1, <2>2
      <3> QED
        BY <3>1, <3>2
  <2>4. \A j \in DOMAIN nodes : nodes[j].serial = nodes[i].serial <=> j = i
      BY <2>1, <2>2 DEF NodesInv
  <2>5. {v \in Users : users[v].serial = nodes[i].serial} = {}
      BY <2>3
  <2>6. {j \in DOMAIN nodes : nodes[j].serial = nodes[i].serial} = {i}
      BY <2>4
  <2> QED
      BY <2>5, <2>6 DEF Found
<1>3. Typed /\ NodesInv /\ [Next]_vars => (Typed /\ NodesInv)'
    BY NodesStep, TypedStep
<1> QED
    BY <1>1, <1>2, <1>3, TypedInit, PTL DEF Spec

-----------------------------------------------------------------------------
(* The keys that signed the relay nodes' certificates.                     *)

(* One start signed them all, and as long as the loop has gone past the    *)
(* first node it is the running one.                                       *)
NodeKeyInv ==
    /\ \A i \in 1 .. Len(nodes) :
          /\ nodes[i].ca \in 1 .. starts
          /\ nodes[i].ca = nodes[1].ca
          /\ nodes[i].from <= day
    /\ pc = "creating" /\ nextSerial # FirstSerial + 1 =>
          Len(nodes) > 0 /\ nodes[1].ca = caKey

(* Every step keeps it. *)
LEMMA NodeKeyStep ==
    ASSUME Typed, KeyInv, NodesInv, NodeKeyInv, [Next]_vars
    PROVE  NodeKeyInv'
<1>t. /\ nodes \in Seq(Certificate)
      /\ nextSerial \in Nat
      /\ FirstSerial \in Nat
      /\ day \in Nat
      /\ starts \in Nat
    BY SerialAssumption DEF Typed, TypeOK
<1>k. ASSUME UNCHANGED nodes, day' >= day, starts' >= starts, starts' \in Nat, day' \in Nat,
             pc' = "creating" => nextSerial' = FirstSerial + 1
      PROVE  NodeKeyInv'
  <2>1. \A i \in 1 .. Len(nodes) : nodes[i].from \in Nat /\ nodes[i].ca \in Nat
    <3>1. \A i \in 1 .. Len(nodes) : nodes[i] \in Certificate
      BY <1>t
    <3> QED
      BY <3>1 DEF Certificate
  <2> QED
    BY <1>t, <1>k, <2>1 DEF NodeKeyInv
<1>1. CASE Start
  <2>1. pc' = "creating" => nextSerial' = FirstSerial + 1
    BY <1>1 DEF Start
  <2> QED
    BY <1>t, <1>k, <1>1, <2>1 DEF Start, disk
<1>2. CASE CreateNode
  <2> DEFINE i == nextSerial - FirstSerial
             cert == NewCertificate(RelayNodes[i])
  <2>1. UNCHANGED <<day, starts>> /\ pc = "creating" /\ i \in 1 .. Len(RelayNodes)
    BY <1>2 DEF CreateNode, Typed, InLoop
  <2>2. CASE Stop /\ UNCHANGED nodes
    BY <1>t, <1>k, <2>1, <2>2 DEF Stop
  <2>3. CASE /\ ~Named(RelayNodes[i])
             /\ nodes' = Append(nodes, cert)
             /\ UNCHANGED caKey
    <3>1. nextSerial = FirstSerial + Len(nodes) + 1
      BY <1>t, <2>1, <2>3 DEF NodesInv, Named
    <3>2. cert.ca = caKey /\ cert.from = day /\ caKey \in 1 .. starts
      BY <1>t, <2>1 DEF NewCertificate, KeyInv, Typed, TypeOK
    <3>3. cert \in Certificate
      <4>1. TypeOK /\ RelayNodes[i] \in STRING
        BY <2>1, NodesAssumption DEF Typed
      <4> QED
        BY <4>1, NewCertificateType
    <3> HIDE DEF cert
    <3>4. /\ Len(nodes') = Len(nodes) + 1
          /\ Len(nodes) \in Nat
          /\ \A j \in 1 .. Len(nodes) : nodes'[j] = nodes[j]
          /\ nodes'[Len(nodes) + 1] = cert
      BY <1>t, <2>3, <3>3
    <3>5. \A j \in 1 .. Len(nodes) : nodes[j].ca = caKey
      BY <1>t, <2>1, <3>1, <3>4 DEF NodeKeyInv
    <3>6. \A j \in 1 .. Len(nodes') : nodes'[j].ca = caKey /\ nodes'[j].from <= day
      <4>1. \A j \in 1 .. Len(nodes) : nodes[j].from <= day
        BY DEF NodeKeyInv
      <4>2. day <= day
        BY <1>t
      <4> QED
        BY <3>2, <3>4, <3>5, <4>1, <4>2
    <3> QED
      BY <2>1, <2>3, <3>2, <3>4, <3>6 DEF NodeKeyInv
  <2> QED
    BY <1>2, <2>2, <2>3 DEF CreateNode
<1>3. CASE Announce
  <2>1. UNCHANGED <<day, starts, nodes>> /\ pc' # "creating"
    BY <1>3 DEF Announce, disk, Stop
  <2> QED
    BY <1>t, <1>k, <2>1
<1>4. CASE Register \/ GenerateCert
  <2>1. PICK u \in Users : IssueAndStore(u)
    BY <1>4, StoreStep
  <2>2. UNCHANGED <<day, starts, nodes>> /\ pc' # "creating"
    BY <2>1 DEF IssueAndStore
  <2> QED
    BY <1>t, <1>k, <2>2
<1>5. CASE RevokeCertificate \/ Crash
  <2>1. UNCHANGED <<day, starts, nodes>> /\ pc' # "creating"
    BY <1>5 DEF RevokeCertificate, Crash, Stop
  <2> QED
    BY <1>t, <1>k, <2>1
<1>6. CASE DayPasses
  <2>1. \A j \in 1 .. Len(nodes) : nodes[j].from \in Nat
    <3>1. \A j \in 1 .. Len(nodes) : nodes[j] \in Certificate
      BY <1>t
    <3> QED
      BY <3>1 DEF Certificate
  <2>2. /\ UNCHANGED <<pc, starts, nodes, nextSerial, caKey>>
        /\ day' = day + 1
    BY <1>6 DEF DayPasses, memory, disk
  <2> QED
    BY <1>t, <2>1, <2>2 DEF NodeKeyInv
<1>7. CASE UNCHANGED vars
    BY <1>7 DEF vars, NodeKeyInv
<1> QED
    BY <1>1, <1>2, <1>3, <1>4, <1>5, <1>6, <1>7 DEF Next

(* It always holds. *)
LEMMA NodeKeyAlways == Spec => [](Typed /\ KeyInv /\ NodesInv /\ NodeKeyInv)
<1>1. Init => NodesInv
    BY NodesAssumption, SerialAssumption DEF Init, NodesInv, NoCertificate
<1>2. Init => NodeKeyInv
    BY DEF Init, NodeKeyInv
<1>3. Typed /\ NodesInv /\ [Next]_vars => NodesInv'
    BY NodesStep
<1>4. Typed /\ KeyInv /\ NodesInv /\ NodeKeyInv /\ [Next]_vars => NodeKeyInv'
    BY NodeKeyStep
<1> QED
    BY <1>1, <1>2, <1>3, <1>4, KeyAlways, PTL DEF Spec

(* The nodes of a process whose key signed one of them are valid. *)
LEMMA OwnNodesValid ==
    ASSUME Typed, NodeKeyInv, Len(nodes) > 0, nodes[1].ca = caKey
    PROVE  ServingNodesValid
<1>1. SUFFICES ASSUME NEW i \in DOMAIN nodes,
                      nodes[i].serial \notin crl, ~(day > nodes[i].to)
               PROVE  Verifies(nodes[i])
    BY DEF ServingNodesValid
<1>2. i \in 1 .. Len(nodes) /\ nodes[i] \in Certificate /\ day \in Nat
    BY DEF Typed, TypeOK
<1>3. nodes[i].to \in Nat
    BY <1>2 DEF Certificate
<1> QED
    BY <1>1, <1>2, <1>3 DEF NodeKeyInv, Verifies

(* Until the service is started a second time its relay nodes are valid,   *)
(* whatever throws or is revoked: what ServingNodesValid is violated by is *)
(* the new CA key of a restart and nothing else.                           *)
THEOREM PKIFirstStartValid == Spec => [](starts = 1 => ServingNodesValid)
<1>1. ASSUME Typed, KeyInv, NodesInv, NodeKeyInv, starts = 1
      PROVE  ServingNodesValid
  <2>1. CASE pc # "serving"
    BY <2>1 DEF ServingNodesValid
  <2>2. CASE pc = "serving"
    <3>1. Len(nodes) > 0
      <4>1. Len(RelayNodes) \in Nat /\ Len(RelayNodes) # 0
        BY NodesAssumption, EmptySeq
      <4> QED
        BY <1>1, <2>2, <4>1 DEF NodesInv
    <3>2. nodes[1].ca = 1
      BY <1>1, <3>1 DEF NodeKeyInv, Typed, TypeOK
    <3>3. caKey = 1
      BY <1>1, <2>2 DEF KeyInv, Typed, TypeOK
    <3> QED
      BY <1>1, <3>1, <3>2, <3>3, OwnNodesValid
  <2> QED
    BY <2>1, <2>2
<1> QED
    BY <1>1, NodeKeyAlways, PTL

(* After any number of restarts either all relay nodes are valid, apart    *)
(* from revocation and age, or none verifies and no message can be sent:   *)
(* one start signed them all (_initializeRelayNodes).                      *)
THEOREM PKINodesAllOrNone ==
    Spec => [](\/ ServingNodesValid
               \/ \A i \in DOMAIN nodes : ~Verifies(nodes[i]))
<1>1. ASSUME Typed, NodeKeyInv
      PROVE  \/ ServingNodesValid
             \/ \A i \in DOMAIN nodes : ~Verifies(nodes[i])
  <2>1. DOMAIN nodes = 1 .. Len(nodes) /\ Len(nodes) \in Nat
    BY <1>1 DEF Typed, TypeOK
  <2>2. CASE Len(nodes) > 0 /\ nodes[1].ca = caKey
    BY <1>1, <2>2, OwnNodesValid
  <2>3. CASE ~(Len(nodes) > 0)
    BY <2>1, <2>3
  <2>4. CASE nodes[1].ca # caKey
    BY <1>1, <2>1, <2>4 DEF NodeKeyInv, Verifies
  <2> QED
    BY <2>2, <2>3, <2>4
<1> QED
    BY <1>1, NodeKeyAlways, PTL
=============================================================================
