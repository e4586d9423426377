----------------------------- MODULE PKIService ----------------------------
(***************************************************************************)
(* The certificate authority of the DarkTunnel backend                     *)
(* (backend/services/pkiService.js) and the two handlers that store what   *)
(* it issues: authService.register and pkiController.generateCert.         *)
(*                                                                         *)
(* What survives a restart is the database (tables nodes and users) and    *)
(* the file crl.json.  The CA key pair, the serial counter and the CRL in  *)
(* memory live in the process: every start draws a new key pair, counts    *)
(* from 1001 again and reads the file.  A CA key pair is named by the      *)
(* number of the start that drew it.                                       *)
(*                                                                         *)
(* Handlers are synchronous, so an action is a handler; the start, which   *)
(* writes one row per relay node, is one action per row, because the       *)
(* process can die between two rows.                                       *)
(***************************************************************************)
EXTENDS Integers, Sequences

CONSTANTS
    Users,          \* user names
    RelayNodes,     \* constants.RELAY_NODES, a sequence of names
    FirstSerial,    \* 1000, the CA certificate's own serial number
    ValidityDays,   \* constants.CERT_VALIDITY_DAYS
    CASubject,      \* DarkTunnel-CA
    CADays,         \* ten years, the validity of the CA certificate
    Faults,         \* TRUE when a statement may throw or a file write may fail
    MaxStarts,      \* bound: process starts explored
    MaxSerial,      \* bound: last serial number explored
    MaxDay          \* bound: last day explored

ASSUME UsersAssumption    == Users \subseteq STRING
ASSUME SubjectAssumption  == CASubject \in STRING
ASSUME NodesAssumption    == RelayNodes \in Seq(STRING) /\ RelayNodes # << >>
ASSUME SerialAssumption   == FirstSerial \in Nat /\ MaxSerial \in Nat
ASSUME ValidityAssumption == ValidityDays \in Nat /\ CADays \in Nat /\ MaxDay \in Nat
ASSUME StartsAssumption   == MaxStarts \in Nat
ASSUME FaultsAssumption   == Faults \in BOOLEAN

VARIABLES
    day,        \* the date
    pc,         \* "down", "creating" the relay nodes, "announcing", or "serving"
    starts,     \* how often the process was started
    caKey,      \* caKeyPair, by the start that drew it; 0 is null
    nextSerial, \* the serial counter
    crl,        \* the CRL in memory
    crlFile,    \* the serials in crl.json
    crlLegible, \* FALSE when crl.json does not parse
    nodes,      \* the nodes table: the certificates in id order
    users,      \* the users table: the certificate of each user
    issued,     \* history: every certificate ever signed
    requested,  \* history: the serials an administrator asked to revoke
    revoked     \* history: <<CA key, serial>> of each acknowledged revocation

disk   == <<crlFile, crlLegible, nodes, users>>
memory == <<caKey, nextSerial, crl>>
vars   == <<day, pc, starts, caKey, nextSerial, crl, crlFile, crlLegible, nodes,
            users, issued, requested, revoked>>

Certificate == [serial : Nat, subject : STRING, ca : Nat, from : Nat, to : Nat]
NoCertificate == [serial |-> 0]

Init ==
    /\ day = 0
    /\ pc = "down"
    /\ starts = 0
    /\ caKey = 0
    /\ nextSerial = FirstSerial
    /\ crl = {}
    /\ crlFile = {}
    /\ crlLegible = TRUE
    /\ nodes = << >>
    /\ users = [u \in Users |-> NoCertificate]
    /\ issued = {}
    /\ requested = {}
    /\ revoked = {}

-----------------------------------------------------------------------------
(* Issuing and verifying.                                                  *)

(* Mutant of NewCertificate: backdated by a day. *)
NewCertificateBackdated(subject) ==
    [serial |-> nextSerial, subject |-> subject, ca |-> caKey,
     from |-> day - 1, to |-> day + ValidityDays]

(* The certificate issueCertificate signs now for this subject. *)
NewCertificate(subject) ==
    [serial |-> nextSerial, subject |-> subject, ca |-> caKey,
     from |-> day, to |-> day + ValidityDays]

(* The CA's own certificate, signed by a start with the key pair it drew. *)
CACertificate(key) ==
    [serial |-> FirstSerial, subject |-> CASubject, ca |-> key,
     from |-> day, to |-> day + CADays]

(* issueCertificate: the serial is spent even if the caller fails to store *)
(* the certificate.                                                        *)
Issue(cert) ==
    /\ nextSerial <= MaxSerial
    /\ nextSerial' = nextSerial + 1
    /\ issued' = issued \cup {cert}

(* verifyCertificate returns valid: not in the CRL of this process, in its *)
(* period, and signed with the key pair of this process.                   *)
Verifies(cert) ==
    /\ cert.serial \notin crl
    /\ cert.from <= day
    /\ day <= cert.to
    /\ cert.ca = caKey

(* The certificates that verify/:id may take for a serial number: it looks *)
(* through the users first and through the nodes only if no user has it.   *)
Found(serial) ==
    LET ofUsers == {users[u] : u \in {v \in Users : users[v].serial = serial}}
    IN  IF ofUsers # {} THEN ofUsers
        ELSE {nodes[i] : i \in {j \in DOMAIN nodes : nodes[j].serial = serial}}

-----------------------------------------------------------------------------
(* Starting.                                                               *)

(* Mutant of Created: some node is as good as all. *)
CreatedIfAny == nodes # << >>

Created == Len(nodes) >= Len(RelayNodes)

(* The process is gone with its memory. *)
Stop ==
    /\ pc' = "down"
    /\ caKey' = 0
    /\ nextSerial' = FirstSerial
    /\ crl' = {}

(* _loadCRL: no file and a file that does not parse both give no entries.  *)
LoadCRL == crl' = IF crlLegible THEN crlFile ELSE {}

(* Mutant of SerialAfterNodes: the counter starts over. *)
SerialFromScratch == FirstSerial + 1

(* The counter continues after the last node's certificate only.           *)
SerialAfterNodes ==
    LET last == nodes[Len(nodes)].serial
    IN  IF last > FirstSerial THEN last + 1 ELSE FirstSerial + 1

(* Mutant of Start: the CA key pair of the first start is kept and used    *)
(* again, with nothing else kept with it.                                  *)
StartKeepsKey ==
    /\ pc = "down"
    /\ starts < MaxStarts
    /\ starts' = starts + 1
    /\ caKey' = 1
    /\ issued' = issued \cup {CACertificate(1)}
    /\ LoadCRL
    /\ IF Created
         THEN pc' = "announcing" /\ nextSerial' = SerialAfterNodes
         ELSE pc' = "creating"   /\ nextSerial' = FirstSerial + 1
    /\ UNCHANGED <<day, disk, requested, revoked>>

(* initialize, up to the loop of _initializeRelayNodes. *)
Start ==
    /\ pc = "down"
    /\ starts < MaxStarts
    /\ starts' = starts + 1
    /\ caKey' = starts'
    /\ issued' = issued \cup {CACertificate(starts')}
    /\ LoadCRL
    /\ IF Created
         THEN pc' = "announcing" /\ nextSerial' = SerialAfterNodes
         ELSE pc' = "creating"   /\ nextSerial' = FirstSerial + 1
    /\ UNCHANGED <<day, disk, requested, revoked>>

Named(name) == \E i \in DOMAIN nodes : nodes[i].subject = name

(* One round of the loop: it starts with the first name again, whatever    *)
(* rows a start before this one left behind, and the UNIQUE name lets no   *)
(* second row in.  Any exception ends in process.exit(1).                  *)
CreateNode ==
    /\ pc = "creating"
    /\ LET i    == nextSerial - FirstSerial
           cert == NewCertificate(RelayNodes[i])
       IN  \/ /\ ~Named(RelayNodes[i])
              /\ Issue(cert)
              /\ nodes' = Append(nodes, cert)
              /\ pc' = IF i = Len(RelayNodes) THEN "announcing" ELSE "creating"
              /\ UNCHANGED <<caKey, crl>>
           \/ /\ Named(RelayNodes[i])
              /\ issued' = issued \cup {cert}
              /\ Stop
              /\ UNCHANGED nodes
           \/ /\ Faults
              /\ Stop
              /\ UNCHANGED <<nodes, issued>>
    /\ UNCHANGED <<day, starts, crlFile, crlLegible, users, requested, revoked>>

(* The start ends with audit entries; then the server listens. *)
Announce ==
    /\ pc = "announcing"
    /\ \/ pc' = "serving" /\ UNCHANGED memory
       \/ Faults /\ Stop
    /\ UNCHANGED <<day, starts, disk, issued, requested, revoked>>

-----------------------------------------------------------------------------
(* Serving.                                                                *)

(* Mutant of IssueAndStore: a serial whose certificate was not stored is   *)
(* given out again.                                                        *)
IssueAndStoreTakesBack(u) ==
    /\ pc = "serving"
    /\ nextSerial <= MaxSerial
    /\ issued' = issued \cup {NewCertificate(u)}
    /\ \/ /\ users' = [users EXCEPT ![u] = NewCertificate(u)]
          /\ nextSerial' = nextSerial + 1
       \/ Faults /\ UNCHANGED <<users, nextSerial>>
    /\ UNCHANGED <<day, pc, starts, caKey, crl, crlFile, crlLegible, nodes, requested, revoked>>

(* Mutant of IssueAndStore: a renewal revokes the number of the certificate *)
(* it replaces.                                                            *)
IssueAndStoreRetiresOld(u) ==
    /\ pc = "serving"
    /\ Issue(NewCertificate(u))
    /\ users' = [users EXCEPT ![u] = NewCertificate(u)]
    /\ crl' = IF users[u] = NoCertificate THEN crl ELSE crl \cup {users[u].serial}
    /\ UNCHANGED <<day, pc, starts, caKey, crlFile, crlLegible, nodes, requested, revoked>>

(* Issue a certificate for u and write it to u's row; the row is missing   *)
(* for register and there for generateCert.  The write may throw.          *)
IssueAndStore(u) ==
    /\ pc = "serving"
    /\ Issue(NewCertificate(u))
    /\ \/ users' = [users EXCEPT ![u] = NewCertificate(u)]
       \/ Faults /\ UNCHANGED users
    /\ UNCHANGED <<day, pc, starts, caKey, crl, crlFile, crlLegible, nodes, requested, revoked>>

Register     == \E u \in Users : users[u] = NoCertificate /\ IssueAndStore(u)
GenerateCert == \E u \in Users : users[u] # NoCertificate /\ IssueAndStore(u)

(* _saveCRL: a failing write is caught, logged and forgotten; it leaves    *)
(* the old file or a truncated one.                                        *)
SaveCRL ==
    \/ crlFile' = crl' /\ crlLegible' = TRUE
    \/ Faults /\ UNCHANGED <<crlFile, crlLegible>>
    \/ Faults /\ crlFile' = {} /\ crlLegible' = FALSE

(* revokeCertificate: any number will do, issued or not.  The audit entry   *)
(* after the write may throw: the client is told of a failure and the      *)
(* number stays on the CRL, in memory and in the file.                     *)
RevokeCertificate ==
    /\ pc = "serving"
    /\ \E s \in FirstSerial .. MaxSerial :
          /\ crl' = crl \cup {s}
          /\ requested' = requested \cup {s}
          /\ \/ revoked' = revoked \cup {<<caKey, s>>}
             \/ Faults /\ UNCHANGED revoked
    /\ SaveCRL
    /\ UNCHANGED <<day, pc, starts, caKey, nextSerial, nodes, users, issued>>

(* The process dies, possibly in revokeCertificate while it writes crl.json *)
(* or between that write and the answer.                                   *)
Crash ==
    /\ pc # "down"
    /\ Stop
    /\ \/ UNCHANGED <<crlFile, crlLegible, requested>>
       \/ /\ pc = "serving"
          /\ \E s \in FirstSerial .. MaxSerial :
                /\ requested' = requested \cup {s}
                /\ \/ crlFile' = crl \cup {s} /\ crlLegible' = TRUE
                   \/ crlFile' = {} /\ crlLegible' = FALSE
    /\ UNCHANGED <<day, starts, nodes, users, issued, revoked>>

DayPasses ==
    /\ day < MaxDay
    /\ day' = day + 1
    /\ UNCHANGED <<pc, starts, memory, disk, issued, requested, revoked>>

Next ==
    \/ Start
    \/ CreateNode
    \/ Announce
    \/ Register
    \/ GenerateCert
    \/ RevokeCertificate
    \/ Crash
    \/ DayPasses

Spec == Init /\ [][Next]_vars

-----------------------------------------------------------------------------
(* Properties.                                                             *)

TypeOK ==
    /\ day \in Nat
    /\ pc \in {"down", "creating", "announcing", "serving"}
    /\ starts \in Nat
    /\ caKey \in 0 .. starts
    /\ nextSerial \in Nat
    /\ crl \subseteq Nat
    /\ crlFile \subseteq Nat
    /\ crlLegible \in BOOLEAN
    /\ nodes \in Seq(Certificate)
    /\ users \in [Users -> Certificate \cup {NoCertificate}]
    /\ issued \subseteq Certificate
    /\ requested \subseteq Nat
    /\ revoked \subseteq (Nat \X Nat)

(* Once an administrator was told that a certificate is revoked, it never  *)
(* verifies again: not after a restart, and not even when the write of     *)
(* crl.json was lost.                                                      *)
RevokedStaysRevoked ==
    \A c \in issued : <<c.ca, c.serial>> \in revoked => ~Verifies(c)

(* A certificate of the running CA that is refused before it runs out has  *)
(* a serial number that an administrator did ask to revoke: perhaps for a  *)
(* certificate of an earlier start (the CRL outlives the counter, and a    *)
(* certificate can be born revoked), perhaps in a request that was         *)
(* answered with an error, but never for any other reason.                 *)
RefusedWasRequested ==
    \A c \in issued :
        c.ca = caKey /\ day <= c.to /\ ~Verifies(c) => c.serial \in requested

(* One CA key pair never signs two certificates with one serial number.    *)
SerialsUniquePerKey ==
    \A c, d \in issued : c.ca = d.ca /\ c.serial = d.serial => c = d

(* Asked for the serial number of a relay node, verify/:id judges the      *)
(* certificate of that node and never a user's, over all restarts: the     *)
(* counter never gives a user a number that a stored node has.             *)
NodeSerialsReserved ==
    pc = "serving" =>
        \A i \in DOMAIN nodes : Found(nodes[i].serial) = {nodes[i]}

(* The service never listens with some of the relay nodes only, or with    *)
(* one of them twice, wherever a start before this one died.               *)
NodesComplete ==
    pc = "serving" =>
        /\ Len(nodes) = Len(RelayNodes)
        /\ \A i \in DOMAIN nodes : nodes[i].subject = RelayNodes[i]

(* While the service runs, each relay node has a certificate that          *)
(* verifies, unless it was revoked or has run out.                         *)
ServingNodesValid ==
    pc = "serving" =>
        \A i \in DOMAIN nodes :
            nodes[i].serial \in crl \/ day > nodes[i].to \/ Verifies(nodes[i])

=============================================================================
