------------------------ MODULE CertificateAuthority -----------------------
(***************************************************************************)
(* The certificate authority of the SecureVault toolkit                    *)
(* (securevault/certificate_authority.py).  Its state is four files; every *)
(* operation is a process of its own (a call of the command line tool)     *)
(* that reads some of them, computes and writes some of them.  Nothing     *)
(* locks the files, so operations of several processes interleave between  *)
(* any two reads or writes.                                                *)
(*                                                                         *)
(* Path.write_text truncates the file and then writes it: two steps.  In   *)
(* between the file is there and does not parse, for other processes to    *)
(* find and for good if the process is interrupted.  A process that finds  *)
(* a file missing or illegible raises and is over; so is one that was      *)
(* given the wrong password.                                               *)
(*                                                                         *)
(* A key pair is named by the number of the init_ca that drew it; the      *)
(* private key and the CA certificate of a pair have the same name.        *)
(***************************************************************************)
EXTENDS Integers, Sequences

CONSTANTS
    Procs,          \* the processes that may run at the same time
    FirstSerial,    \* 1000
    Interrupts,     \* TRUE when a process may be killed or a write may fail
    MaxKeys,        \* bound: key pairs drawn
    MaxSerial       \* bound: the last serial number an operation begins with

ASSUME SerialAssumption     == FirstSerial \in Nat /\ MaxSerial \in Nat
ASSUME InterruptsAssumption == Interrupts \in BOOLEAN
ASSUME KeysAssumption       == MaxKeys \in Nat

VARIABLES
    keyFile,    \* ca_key.enc
    certFile,   \* ca_cert.json
    crlFile,    \* crl.json
    serialFile, \* serial.json
    pc,         \* per process: where it stands
    open,       \* per process: has it truncated the file it writes
    job,        \* per process: the local variables of its operation
    drawn,      \* how many key pairs were drawn
    issued,     \* history: the certificates handed out, in order
    revoked,    \* history: the revocations acknowledged
    interrupted \* history: has any process been interrupted

files  == <<keyFile, certFile, crlFile, serialFile>>
others == <<drawn, issued, revoked, interrupted>>
vars   == <<keyFile, certFile, crlFile, serialFile, pc, open, job, drawn, issued, revoked,
            interrupted>>

(* What a file may hold. *)
Absent  == [state |-> "absent"]
Torn    == [state |-> "torn"]
Full(v) == [state |-> "full", content |-> v]

Exists(f)  == f # Absent
Legible(f) == f.state = "full"

Steps == {"idle", "initKey", "initCert", "initCRL", "initSerial", "initLog",
          "issueKey", "issueCert", "issueSerial", "saveSerial", "sign",
          "revokeKey", "revokeLoad", "saveCRL", "acknowledge"}

(* priv: the private key; serial: the number read, or to be revoked; crl:  *)
(* the list to be saved.                                                   *)
Job   == [priv : Nat, serial : Nat, crl : SUBSET Nat]
NoJob == [priv |-> 0, serial |-> 0, crl |-> {}]

Init ==
    /\ keyFile = Absent /\ certFile = Absent
    /\ crlFile = Absent /\ serialFile = Absent
    /\ pc = [p \in Procs |-> "idle"]
    /\ open = [p \in Procs |-> FALSE]
    /\ job = [p \in Procs |-> NoJob]
    /\ drawn = 0
    /\ issued = << >>
    /\ revoked = {}
    /\ interrupted = FALSE

-----------------------------------------------------------------------------
GoTo(p, step) == pc' = [pc EXCEPT ![p] = step]

(* The process ends, with its local variables. *)
End(p) == GoTo(p, "idle") /\ job' = [job EXCEPT ![p] = NoJob]

(* write_text(v) by p, then on to the next step.  If somebody else wrote   *)
(* the file since p truncated it, the longer text shows behind the shorter.*)
Write(p, f, v, next) ==
    \/ /\ ~open[p]
       /\ f' = Torn
       /\ open' = [open EXCEPT ![p] = TRUE]
       /\ UNCHANGED pc
    \/ /\ open[p]
       /\ f' = Full(v) \/ (f # Torn /\ f' = Torn)
       /\ open' = [open EXCEPT ![p] = FALSE]
       /\ GoTo(p, next)

(* A read of f that goes on to the next step with the local variables j,   *)
(* or finds the file missing or illegible and raises.                      *)
Read(p, f, j, next) ==
    \/ Legible(f) /\ job' = [job EXCEPT ![p] = j] /\ GoTo(p, next)
    \/ ~Legible(f) /\ End(p)

(* The same of ca_key.enc, with _decrypt_private_key: a wrong password is  *)
(* a ValueError. *)
ReadKey(p, j, next) ==
    \/ Read(p, keyFile, j, next)
    \/ Legible(keyFile) /\ End(p)

-----------------------------------------------------------------------------
(* init_ca.                                                                *)

(* Mutant of BeginInit: the last file written tells whether there is a CA. *)
BeginInitBySerialFile(p) ==
    /\ pc[p] = "idle"
    /\ ~Legible(serialFile)
    /\ drawn < MaxKeys
    /\ drawn' = drawn + 1
    /\ job' = [job EXCEPT ![p].priv = drawn']
    /\ GoTo(p, "initKey")
    /\ UNCHANGED <<files, open, issued, revoked, interrupted>>

BeginInit(p) ==
    /\ pc[p] = "idle"
    /\ ~Exists(certFile)
    /\ drawn < MaxKeys
    /\ drawn' = drawn + 1
    /\ job' = [job EXCEPT ![p].priv = drawn']
    /\ GoTo(p, "initKey")
    /\ UNCHANGED <<files, open, issued, revoked, interrupted>>

InitKey(p) ==
    /\ pc[p] = "initKey"
    /\ Write(p, keyFile, job[p].priv, "initCert")
    /\ UNCHANGED <<certFile, crlFile, serialFile, job, others>>

(* create_cert refuses an empty name, when the key is already on disk. *)
InitCert(p) ==
    /\ pc[p] = "initCert"
    /\ \/ Write(p, certFile, job[p].priv, "initCRL") /\ UNCHANGED job
       \/ ~open[p] /\ End(p) /\ UNCHANGED <<certFile, open>>
    /\ UNCHANGED <<keyFile, crlFile, serialFile, others>>

(* Mutant of InitCRL: the serial counter is forgotten. *)
InitCRLAndNoSerial(p) ==
    /\ pc[p] = "initCRL"
    /\ Write(p, crlFile, {}, "initLog")
    /\ UNCHANGED <<keyFile, certFile, serialFile, job, others>>

InitCRL(p) ==
    /\ pc[p] = "initCRL"
    /\ Write(p, crlFile, {}, "initSerial")
    /\ UNCHANGED <<keyFile, certFile, serialFile, job, others>>

InitSerial(p) ==
    /\ pc[p] = "initSerial"
    /\ Write(p, serialFile, FirstSerial, "initLog")
    /\ UNCHANGED <<keyFile, certFile, crlFile, job, others>>

InitLog(p) ==
    /\ pc[p] = "initLog"
    /\ End(p)
    /\ UNCHANGED <<files, open, others>>

-----------------------------------------------------------------------------
(* issue_certificate.                                                      *)

BeginIssue(p) ==
    /\ pc[p] = "idle"
    /\ Exists(certFile)
    /\ Legible(serialFile) => serialFile.content <= MaxSerial
    /\ GoTo(p, "issueKey")
    /\ UNCHANGED <<files, open, job, others>>

IssueKey(p) ==
    /\ pc[p] = "issueKey"
    /\ ReadKey(p, [job[p] EXCEPT !.priv = keyFile.content], "issueCert")
    /\ UNCHANGED <<files, open, others>>

(* Only the issuer's name is taken from the CA certificate. *)
IssueCert(p) ==
    /\ pc[p] = "issueCert"
    /\ Read(p, certFile, job[p], "issueSerial")
    /\ UNCHANGED <<files, open, others>>

(* Mutant of IssueSerial: serial.json is taken to hold an offset. *)
IssueSerialAsOffset(p) ==
    /\ pc[p] = "issueSerial"
    /\ Read(p, serialFile,
            [job[p] EXCEPT !.serial = serialFile.content - FirstSerial - 1], "saveSerial")
    /\ UNCHANGED <<files, open, others>>

IssueSerial(p) ==
    /\ pc[p] = "issueSerial"
    /\ Read(p, serialFile, [job[p] EXCEPT !.serial = serialFile.content], "saveSerial")
    /\ UNCHANGED <<files, open, others>>

(* Mutant of SaveSerial: a write that fails is logged and forgotten. *)
SaveSerialIfPossible(p) ==
    /\ pc[p] = "saveSerial"
    /\ \/ Write(p, serialFile, job[p].serial + 1, "sign")
       \/ Interrupts /\ ~open[p] /\ GoTo(p, "sign") /\ UNCHANGED <<serialFile, open>>
    /\ UNCHANGED <<keyFile, certFile, crlFile, job, others>>

SaveSerial(p) ==
    /\ pc[p] = "saveSerial"
    /\ Write(p, serialFile, job[p].serial + 1, "sign")
    /\ UNCHANGED <<keyFile, certFile, crlFile, job, others>>

(* create_cert refuses a bad subject or validity, when the serial number   *)
(* is already spent.                                                       *)
Sign(p) ==
    /\ pc[p] = "sign"
    /\ \/ issued' = Append(issued, [key |-> job[p].priv, serial |-> job[p].serial])
       \/ UNCHANGED issued
    /\ End(p)
    /\ UNCHANGED <<files, open, drawn, revoked, interrupted>>

-----------------------------------------------------------------------------
(* revoke_certificate.                                                     *)

BeginRevoke(p) ==
    /\ pc[p] = "idle"
    /\ Exists(certFile)
    /\ \E s \in FirstSerial .. MaxSerial : job' = [job EXCEPT ![p].serial = s]
    /\ GoTo(p, "revokeKey")
    /\ UNCHANGED <<files, open, others>>

(* The private key is only loaded to check the password. *)
RevokeKey(p) ==
    /\ pc[p] = "revokeKey"
    /\ ReadKey(p, job[p], "revokeLoad")
    /\ UNCHANGED <<files, open, others>>

(* Mutant of RevokeLoad: a CRL that cannot be read is an empty one. *)
RevokeLoadOrEmpty(p) ==
    /\ pc[p] = "revokeLoad"
    /\ job' = [job EXCEPT ![p].crl =
                  (IF Legible(crlFile) THEN crlFile.content ELSE {}) \cup {job[p].serial}]
    /\ GoTo(p, "saveCRL")
    /\ UNCHANGED <<files, open, others>>

RevokeLoad(p) ==
    /\ pc[p] = "revokeLoad"
    /\ Read(p, crlFile, [job[p] EXCEPT !.crl = crlFile.content \cup {job[p].serial}],
            "saveCRL")
    /\ UNCHANGED <<files, open, others>>

(* Mutant of SaveCRL: the new serial number replaces the list. *)
SaveCRLNewOnly(p) ==
    /\ pc[p] = "saveCRL"
    /\ Write(p, crlFile, {job[p].serial}, "acknowledge")
    /\ UNCHANGED <<keyFile, certFile, serialFile, job, others>>

SaveCRL(p) ==
    /\ pc[p] = "saveCRL"
    /\ Write(p, crlFile, job[p].crl, "acknowledge")
    /\ UNCHANGED <<keyFile, certFile, serialFile, job, others>>

Acknowledge(p) ==
    /\ pc[p] = "acknowledge"
    /\ revoked' = revoked \cup {job[p].serial}
    /\ End(p)
    /\ UNCHANGED <<files, open, drawn, issued, interrupted>>

-----------------------------------------------------------------------------
(* verify_issued_cert accepts c, within its period: it reads the CA        *)
(* certificate and the CRL and raises if it cannot.                        *)
Verifies(c) ==
    /\ Legible(certFile) /\ Legible(crlFile)
    /\ c.serial \notin crlFile.content
    /\ c.key = certFile.content

(* A process is killed, or one of its writes fails after the truncation.   *)
Interrupt(p) ==
    /\ Interrupts
    /\ pc[p] # "idle"
    /\ End(p)
    /\ open' = [open EXCEPT ![p] = FALSE]
    /\ interrupted' = TRUE
    /\ UNCHANGED <<files, drawn, issued, revoked>>

InitCA(p) ==
    BeginInit(p) \/ InitKey(p) \/ InitCert(p) \/ InitCRL(p) \/ InitSerial(p) \/ InitLog(p)

IssueCertificate(p) ==
    BeginIssue(p) \/ IssueKey(p) \/ IssueCert(p) \/ IssueSerial(p) \/ SaveSerial(p) \/ Sign(p)

RevokeCertificate(p) ==
    BeginRevoke(p) \/ RevokeKey(p) \/ RevokeLoad(p) \/ SaveCRL(p) \/ Acknowledge(p)

Next ==
    \E p \in Procs : InitCA(p) \/ IssueCertificate(p) \/ RevokeCertificate(p) \/ Interrupt(p)

Spec == Init /\ [][Next]_vars

-----------------------------------------------------------------------------
(* Properties.                                                             *)

IsFile(f, V) ==
    \/ f \in {Absent, Torn}
    \/ f = Full(f.content) /\ f.content \in V

TypeOK ==
    /\ IsFile(keyFile, Nat)
    /\ IsFile(certFile, Nat)
    /\ IsFile(crlFile, SUBSET Nat)
    /\ IsFile(serialFile, Nat)
    /\ pc \in [Procs -> Steps]
    /\ open \in [Procs -> BOOLEAN]
    /\ job \in [Procs -> Job]
    /\ drawn \in Nat
    /\ issued \in Seq([key : Nat, serial : Nat])
    /\ revoked \subseteq Nat
    /\ interrupted \in BOOLEAN

(* Under one CA key serial numbers grow from certificate to certificate,   *)
(* so no two certificates share one.                                       *)
SerialsIncrease ==
    \A i, j \in DOMAIN issued :
        i < j /\ issued[i].key = issued[j].key => issued[i].serial < issued[j].serial

(* A serial number whose revocation was acknowledged stays in crl.json, or *)
(* crl.json does not parse and no certificate at all can be verified.      *)
RevocationsKept == \A s \in revoked : Legible(crlFile) => s \in crlFile.content

(* What was issued verifies, unless its serial number is in the CRL: the   *)
(* private key that signs and the CA certificate stay one pair.            *)
IssuedVerifies ==
    \A i \in DOMAIN issued :
        Legible(certFile) /\ Legible(crlFile) =>
            issued[i].serial \in crlFile.content \/ Verifies(issued[i])

(* A CA that init_ca calls initialized has all four files between two       *)
(* commands, unless a command was interrupted: also the commands that      *)
(* raise leave the CA usable.                                              *)
InitializedIsUsable ==
    Exists(certFile) /\ ~interrupted /\ (\A p \in Procs : pc[p] = "idle") =>
        Legible(keyFile) /\ Legible(certFile) /\ Legible(crlFile) /\ Legible(serialFile)

(* One command at a time, the CA is a register of trust: the four files,   *)
(* written one by one and interrupted anywhere, show the steps of          *)
(* TrustRegister to whoever calls verify_issued_cert.  Every save of the   *)
(* list truncates it first, which is a Suspend.                            *)
Valid == {i \in DOMAIN issued : Verifies(issued[i])}

Register == INSTANCE TrustRegister WITH valid <- Valid

ImplementsRegister == Register!Spec
=============================================================================
